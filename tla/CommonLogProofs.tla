-------------------------- MODULE CommonLogProofs --------------------------
(***************************************************************************)
(* Proofs about the asynchronous logger, for every capacity of the ring    *)
(* and every number of messages.                                           *)
(*                                                                         *)
(* What is printed is right because of what is queued: the invariant IInv  *)
(* says which messages the ring holds from head on, in terms of what the   *)
(* worker has taken.  It needs no assumption that pause() finds room: the  *)
(* case in which the end entry fills the ring is a disjunct of its own     *)
(* (StopQueued), from which the worker takes nothing any more.             *)
(***************************************************************************)
EXTENDS CommonLog, TLAPS

Message(m) == [msg |-> m, is_end |-> FALSE]

(* A ring holds, from index h on, the c messages that follow message b. *)
Holds(ents, h, c, b) ==
    \A k \in 0 .. c - 1 : ents[((h + k) % Len(ents)) + 1] = Message(b + k + 1)

(* Messages taken by the worker, and stored but not yet taken. *)
Taken   == Len(printed) + (IF worker = "print" THEN 1 ELSE 0)
Waiting == accepted - Taken

ControlInv ==
    /\ running => (ctl = "idle" /\ worker \in {"wait", "print"})
    /\ ctl = "join" => (~running /\ worker # "none")
    /\ ReconfigureAlone

RunQueued ==
    running => /\ Waiting \in 0 .. size - 1
               /\ tail = (head + Waiting) % size
               /\ Holds(entries, head, Waiting, Taken)

StopQueued ==
    (ctl = "join" /\ worker # "done") =>
        \/ head = tail
        \/ /\ Waiting \in 0 .. size - 2
           /\ tail = (head + (Waiting + 1)) % size
           /\ Holds(entries, head, Waiting, Taken)
           /\ entries[((head + Waiting) % size) + 1].is_end

Stopped ==
    worker \in {"done", "none"} => (accepted = Len(printed) /\ head = tail)

CurInv == worker = "print" => cur.msg = Len(printed) + 1

IInv ==
    /\ TypeOK
    /\ ControlInv
    /\ PrintedInOrder
    /\ CurInv
    /\ RunQueued
    /\ StopQueued
    /\ Stopped

-----------------------------------------------------------------------------
(* The remainders that occur: an index is less than twice the size. *)
LEMMA ModLow ==
    ASSUME NEW n \in Nat \ {0}, NEW a \in 0 .. n - 1
    PROVE  a % n = a
OBVIOUS

LEMMA ModHigh ==
    ASSUME NEW n \in Nat \ {0}, NEW a \in n .. 2 * n - 1
    PROVE  a % n = a - n
OBVIOUS

LEMMA ModNegative ==
    ASSUME NEW n \in Nat \ {0}, NEW a \in -n .. -1
    PROVE  a % n = a + n
OBVIOUS

(* Index arithmetic of the ring without remainders. *)
LEMMA RingIndex ==
    ASSUME NEW n \in Nat \ {0, 1}, NEW h \in 0 .. n - 1, NEW k \in 0 .. n
    PROVE  /\ (h + k) % n = IF h + k < n THEN h + k ELSE h + k - n
           /\ (h + k) % n \in 0 .. n - 1
<1>1. CASE h + k < n
  <2>1. (h + k) % n = h + k
    BY <1>1, ModLow
  <2> QED BY <1>1, <2>1
<1>2. CASE h + k >= n
  <2>1. (h + k) % n = h + k - n
    BY <1>2, ModHigh
  <2> QED BY <1>2, <2>1
<1> QED BY <1>1, <1>2

(* Different distances from h are different indices, and the index one     *)
(* further is the index one further from the next index.                   *)
LEMMA RingDistinct ==
    ASSUME NEW n \in Nat \ {0, 1}, NEW h \in 0 .. n - 1,
           NEW j \in 0 .. n - 1, NEW k \in 0 .. n - 1, j # k
    PROVE  (h + j) % n # (h + k) % n
<1>1. (h + j) % n = IF h + j < n THEN h + j ELSE h + j - n
  <2>1. j \in 0 .. n
    OBVIOUS
  <2> QED BY <2>1, RingIndex
<1>2. (h + k) % n = IF h + k < n THEN h + k ELSE h + k - n
  <2>1. k \in 0 .. n
    OBVIOUS
  <2> QED BY <2>1, RingIndex
<1> QED BY <1>1, <1>2

LEMMA RingNext ==
    ASSUME NEW n \in Nat \ {0, 1}, NEW h \in 0 .. n - 1, NEW k \in 0 .. n - 1
    PROVE  /\ (h + 1) % n \in 0 .. n - 1
           /\ (((h + 1) % n) + k) % n = (h + (k + 1)) % n
           /\ (((h + k) % n) + 1) % n = (h + (k + 1)) % n
<1>1. (h + 1) % n = IF h + 1 < n THEN h + 1 ELSE h + 1 - n
  <2>1. 1 \in 0 .. n
    OBVIOUS
  <2> QED BY <2>1, RingIndex
<1>2. (h + 1) % n \in 0 .. n - 1
  BY <1>1
<1>3. (h + k) % n = IF h + k < n THEN h + k ELSE h + k - n
  <2>1. k \in 0 .. n
    OBVIOUS
  <2> QED BY <2>1, RingIndex
<1>4. (h + (k + 1)) % n = IF h + (k + 1) < n THEN h + (k + 1) ELSE h + (k + 1) - n
  <2>1. k + 1 \in 0 .. n
    OBVIOUS
  <2> QED BY <2>1, RingIndex
<1>5. (((h + 1) % n) + k) % n = IF ((h + 1) % n) + k < n THEN ((h + 1) % n) + k
                                ELSE ((h + 1) % n) + k - n
  <2>1. k \in 0 .. n
    OBVIOUS
  <2> QED BY <1>2, <2>1, RingIndex
<1>6. (h + k) % n \in 0 .. n - 1 /\ 1 \in 0 .. n
  BY <1>3
<1>7. (((h + k) % n) + 1) % n = IF ((h + k) % n) + 1 < n THEN ((h + k) % n) + 1
                                ELSE ((h + k) % n) + 1 - n
  BY <1>6, RingIndex
<1> QED BY <1>1, <1>2, <1>3, <1>4, <1>5, <1>7

-----------------------------------------------------------------------------
(* Taking the entry at h leaves the others. *)
LEMMA HoldsTake ==
    ASSUME NEW ents \in Seq(Entry), Len(ents) \in Nat \ {0, 1},
           NEW h \in 0 .. Len(ents) - 1, NEW c \in 1 .. Len(ents),
           NEW b \in Nat, Holds(ents, h, c, b)
    PROVE  /\ ents[h + 1] = Message(b + 1)
           /\ Holds(ents, (h + 1) % Len(ents), c - 1, b + 1)
<1> DEFINE n == Len(ents)
<1>1. ents[h + 1] = Message(b + 1)
  <2>1. 0 \in 0 .. c - 1 /\ (h + 0) % n = h
    BY ModLow
  <2>2. ents[((h + 0) % n) + 1] = Message(b + 0 + 1)
    BY <2>1 DEF Holds
  <2> QED BY <2>1, <2>2
<1>2. ASSUME NEW k \in 0 .. (c - 1) - 1
      PROVE  ents[((((h + 1) % n) + k) % n) + 1] = Message((b + 1) + k + 1)
  <2>1. (((h + 1) % n) + k) % n = (h + (k + 1)) % n
    BY RingNext
  <2>2. k + 1 \in 0 .. c - 1
    OBVIOUS
  <2>3. ents[((h + (k + 1)) % n) + 1] = Message(b + (k + 1) + 1)
    BY <2>2 DEF Holds
  <2>4. b + (k + 1) + 1 = (b + 1) + k + 1
    OBVIOUS
  <2> QED BY <2>1, <2>3, <2>4
<1> QED BY <1>1, <1>2 DEF Holds

(* Storing the next message behind the others. *)
LEMMA HoldsPush ==
    ASSUME NEW ents \in Seq(Entry), Len(ents) \in Nat \ {0, 1},
           NEW h \in 0 .. Len(ents) - 1, NEW c \in 0 .. Len(ents) - 1,
           NEW b \in Nat, Holds(ents, h, c, b), NEW e \in Entry,
           NEW t, t = (h + c) % Len(ents)
    PROVE  /\ t \in 0 .. Len(ents) - 1
           /\ [ents EXCEPT ![t + 1] = e] \in Seq(Entry)
           /\ Len([ents EXCEPT ![t + 1] = e]) = Len(ents)
           /\ [ents EXCEPT ![t + 1] = e][t + 1] = e
           /\ Holds([ents EXCEPT ![t + 1] = e], h, c, b)
           /\ e = Message(b + c + 1) => Holds([ents EXCEPT ![t + 1] = e], h, c + 1, b)
<1> DEFINE n == Len(ents)
           new == [ents EXCEPT ![t + 1] = e]
<1>1. t \in 0 .. n - 1
  BY RingIndex
<1>2. new \in Seq(Entry) /\ Len(new) = n /\ new[t + 1] = e
  BY <1>1
<1>3. ASSUME NEW k \in 0 .. c - 1
      PROVE  new[((h + k) % n) + 1] = Message(b + k + 1)
  <2>1. k \in 0 .. n - 1 /\ k \in 0 .. n /\ k # c
    OBVIOUS
  <2>2. (h + k) % n # t
    BY <2>1, RingDistinct
  <2>3. (h + k) % n \in 0 .. n - 1
    BY <2>1, RingIndex
  <2>4. new[((h + k) % n) + 1] = ents[((h + k) % n) + 1]
    BY <2>2, <2>3, <1>1, SMTT(30)
  <2> QED BY <2>4 DEF Holds
<1>4. Holds(new, h, c, b)
  BY <1>2, <1>3 DEF Holds
<1>5. ASSUME e = Message(b + c + 1), NEW k \in 0 .. (c + 1) - 1
      PROVE  new[((h + k) % n) + 1] = Message(b + k + 1)
  <2>1. CASE k = c
    BY <2>1, <1>2, <1>5
  <2>2. CASE k # c
    <3>1. k \in 0 .. c - 1
      BY <2>2
    <3> QED BY <3>1, <1>3
  <2> QED BY <2>1, <2>2
<1>6. e = Message(b + c + 1) => Holds(new, h, c + 1, b)
  BY <1>2, <1>5 DEF Holds
<1> QED BY <1>1, <1>2, <1>4, <1>6

(* The doubled ring of add() holds what the full ring held. *)
LEMMA HoldsExpanded ==
    ASSUME NEW ents \in Seq(Entry), Len(ents) \in Nat \ {0, 1},
           NEW h \in 0 .. Len(ents) - 1,
           NEW b \in Nat, Holds(ents, h, Len(ents), b)
    PROVE  /\ Expanded(ents, h) \in Seq(Entry)
           /\ Len(Expanded(ents, h)) = 2 * Len(ents)
           /\ Holds(Expanded(ents, h), 0, Len(ents), b)
<1> DEFINE n == Len(ents)
           new == Expanded(ents, h)
<1>1. \A j \in 1 .. n : (h + j - 1) % n = (h + (j - 1)) % n /\ (h + (j - 1)) % n \in 0 .. n - 1
  <2> TAKE j \in 1 .. n
  <2>1. j - 1 \in 0 .. n /\ h + j - 1 = h + (j - 1)
    OBVIOUS
  <2> QED BY <2>1, RingIndex
<1>2. \A j \in 1 .. 2 * n :
        (IF j <= n THEN ents[((h + j - 1) % n) + 1] ELSE Blank) \in Entry
  <2>1. Blank \in Entry
    BY DEF Blank, Entry
  <2> QED BY <1>1, <2>1
<1>3. new \in [1 .. 2 * n -> Entry]
  BY <1>2 DEF Expanded
<1>4. new \in Seq(Entry) /\ Len(new) = 2 * n
  BY <1>3
<1>5. ASSUME NEW k \in 0 .. n - 1
      PROVE  new[((0 + k) % Len(new)) + 1] = Message(b + k + 1)
  <2>1. (0 + k) % Len(new) = k
    BY <1>4, ModLow
  <2>2. k + 1 \in 1 .. n /\ (k + 1) - 1 = k
    OBVIOUS
  <2>3. new[k + 1] = ents[((h + (k + 1) - 1) % n) + 1]
    BY <2>2 DEF Expanded
  <2>4. (h + (k + 1) - 1) % n = (h + k) % n
    BY <1>1, <2>2
  <2>5. ents[((h + k) % n) + 1] = Message(b + k + 1)
    BY DEF Holds
  <2> QED BY <2>1, <2>3, <2>4, <2>5
<1>6. Holds(new, 0, n, b)
  BY <1>5 DEF Holds
<1> QED BY <1>4, <1>6

-----------------------------------------------------------------------------
LEMMA InitIInv == Init => IInv
<1> SUFFICES ASSUME Init PROVE IInv
  OBVIOUS
<1>1. TypeOK
  BY CapacityAssumption DEF Init, TypeOK, size, Entry, Blank, Ops
<1>2. Taken = 0 /\ Waiting = 0 /\ size \in Nat \ {0, 1} /\ head = 0 /\ tail = 0
  <2>1. Len(entries) = Capacity
    BY CapacityAssumption DEF Init
  <2>2. Len(printed) = 0 /\ worker = "wait" /\ accepted = 0
    BY DEF Init
  <2>3. Taken = 0 /\ Waiting = 0
    BY <2>2 DEF Taken, Waiting
  <2> QED BY <2>1, <2>3, CapacityAssumption DEF Init, size
<1>3. 0 % size = 0
  BY <1>2, ModLow
<1>4. RunQueued
  BY <1>2, <1>3 DEF RunQueued, Holds
<1> QED
  BY <1>1, <1>4 DEF Init, IInv, ControlInv, ReconfigureAlone, PrintedInOrder,
     CurInv, StopQueued, Stopped

(* add() stores the next message behind the waiting ones, in the ring or,  *)
(* if that filled it, in the doubled ring.                                 *)
LEMMA AddStep ==
    ASSUME IInv, AddStored
    PROVE  IInv'
<1> DEFINE e == [msg |-> accepted + 1, is_end |-> FALSE]
           filled == [entries EXCEPT ![tail + 1] = e]
<1>1. /\ running /\ accepted' = accepted + 1
      /\ running' = running /\ ctl' = ctl /\ worker' = worker /\ cur' = cur
      /\ printed' = printed /\ op' = op /\ config' = config
      /\ accepted \in Nat /\ Len(printed) \in Nat /\ size \in Nat \ {0, 1}
      /\ entries \in Seq(Entry) /\ head \in 0 .. size - 1 /\ size = Len(entries)
  BY DEF AddStored, IInv, TypeOK, thread, size
<1>2. /\ Waiting \in 0 .. size - 1
      /\ tail = (head + Waiting) % size
      /\ Holds(entries, head, Waiting, Taken)
  BY <1>1 DEF IInv, RunQueued
<1>3. Taken \in Nat /\ Taken' = Taken /\ Waiting' = Waiting + 1 /\ accepted = Taken + Waiting
  BY <1>1 DEF Taken, Waiting
<1>4. e \in Entry /\ e = Message(Taken + Waiting + 1)
  BY <1>1, <1>3 DEF Entry, Message
<1>5. /\ tail \in 0 .. size - 1
      /\ filled \in Seq(Entry) /\ Len(filled) = size
      /\ Holds(filled, head, Waiting + 1, Taken)
  BY <1>1, <1>2, <1>3, <1>4, HoldsPush, SMTT(30) DEF size
<1>6. Advance(tail) = (head + (Waiting + 1)) % size
  BY <1>1, <1>2, RingNext DEF Advance
<1>7. CASE Advance(tail) = head
  <2>1. Waiting + 1 = size
    <3>1. 0 \in 0 .. size - 1 /\ (head + 0) % size = head
      BY <1>1, ModLow
    <3>2. Waiting + 1 \in 0 .. size - 1 => Waiting + 1 = 0
      BY <3>1, <1>1, <1>6, <1>7, RingDistinct
    <3> QED BY <3>2, <1>1, <1>2
  <2>2. entries' = Expanded(filled, head) /\ head' = 0 /\ tail' = size
    BY <1>7 DEF AddStored, Full
  <2>3. /\ entries' \in Seq(Entry) /\ Len(entries') = 2 * size
        /\ Holds(entries', 0, size, Taken)
    <3>1. Len(filled) \in Nat \ {0, 1} /\ head \in 0 .. Len(filled) - 1
      BY <1>1, <1>5
    <3>2. Holds(filled, head, Len(filled), Taken)
      BY <1>5, <2>1
    <3> QED BY <3>1, <3>2, <1>3, <1>5, <2>2, HoldsExpanded
  <2>4. size' = 2 * size /\ size' \in Nat \ {0, 1} /\ head' \in 0 .. size' - 1 /\ tail' \in 0 .. size' - 1
    BY <2>2, <2>3, <1>1 DEF size
  <2>5. tail' = (head' + Waiting') % size'
    BY <2>1, <2>2, <2>4, <1>1, <1>3, ModLow, SMTT(30)
  <2>6. TypeOK'
    BY <2>3, <2>4, <1>1 DEF IInv, TypeOK, size
  <2>7. RunQueued'
    BY <2>1, <2>2, <2>3, <2>4, <2>5, <1>1, <1>3 DEF RunQueued
  <2> QED BY <1>1, <2>6, <2>7
    DEF IInv, ControlInv, ReconfigureAlone, PrintedInOrder, CurInv, StopQueued, Stopped
<1>8. CASE Advance(tail) # head
  <2>1. entries' = filled /\ head' = head /\ tail' = Advance(tail) /\ size' = size
    BY <1>8, <1>1, <1>5 DEF AddStored, Full, size
  <2>2. Waiting + 1 \in 0 .. size - 1
    <3>1. (head + size) % size = head
      <4>1. size \in Nat \ {0} /\ head + size \in size .. 2 * size - 1 /\ (head + size) - size = head
        BY <1>1
      <4> QED BY <4>1, ModHigh
    <3> QED BY <3>1, <1>8, <1>6, <1>2, <1>1, SMTT(30)
  <2>3. tail' \in 0 .. size - 1
    BY <2>1, <2>2, <1>1, <1>6, RingIndex
  <2>4. TypeOK'
    BY <2>1, <2>3, <1>1, <1>5 DEF IInv, TypeOK, size
  <2>5. RunQueued'
    BY <2>1, <2>2, <1>3, <1>5, <1>6, <1>1 DEF RunQueued
  <2> QED BY <1>1, <2>4, <2>5
    DEF IInv, ControlInv, ReconfigureAlone, PrintedInOrder, CurInv, StopQueued, Stopped
<1> QED BY <1>7, <1>8

(* The worker takes the oldest waiting message or, when none is left, the  *)
(* end entry.                                                              *)
LEMMA TakeStep ==
    ASSUME IInv, WorkerTake
    PROVE  IInv'
<1>1. /\ entries' = entries /\ tail' = tail /\ running' = running /\ size' = size
      /\ accepted' = accepted /\ ctl' = ctl /\ op' = op /\ config' = config
      /\ printed' = printed /\ head' = (head + 1) % size /\ head # tail
      /\ worker = "wait" /\ cur' = entries[head + 1]
      /\ worker' = IF entries[head + 1].is_end THEN "done" ELSE "print"
      /\ accepted \in Nat /\ Len(printed) \in Nat /\ size \in Nat \ {0, 1}
      /\ entries \in Seq(Entry) /\ head \in 0 .. size - 1 /\ tail \in 0 .. size - 1
      /\ size = Len(entries) /\ TypeOK
  BY DEF WorkerTake, HasEntry, Advance, IInv, TypeOK, size
<1>2. entries[head + 1] \in Entry /\ head' \in 0 .. size - 1
  BY <1>1, RingNext
<1>3. TypeOK'
  BY <1>1, <1>2 DEF TypeOK, size
<1>4. Taken = Len(printed) /\ Waiting = accepted - Taken /\ Taken \in Nat
  BY <1>1 DEF Taken, Waiting
<1>5. (head + 0) % size = head
  <2>1. size \in Nat \ {0} /\ head + 0 = head /\ head \in 0 .. size - 1
    BY <1>1
  <2> QED BY <2>1, ModLow
<1>6. ASSUME Waiting \in 1 .. size - 1, Holds(entries, head, Waiting, Taken)
      PROVE  /\ worker' = "print" /\ Taken' = Taken + 1 /\ Waiting' = Waiting - 1
             /\ cur'.msg = Len(printed) + 1
             /\ Holds(entries', head', Waiting', Taken')
             /\ \A k \in 0 .. size - 1 : (head' + k) % size = (head + (k + 1)) % size
  <2>1. /\ entries[head + 1] = Message(Taken + 1)
        /\ Holds(entries, (head + 1) % size, Waiting - 1, Taken + 1)
    <3>1. Waiting \in 1 .. Len(entries)
      BY <1>1, <1>6
    <3> QED BY <3>1, <1>1, <1>4, <1>6, HoldsTake DEF size
  <2>2. worker' = "print" /\ cur'.msg = Len(printed) + 1
    BY <2>1, <1>1, <1>4 DEF Message
  <2>3. Taken' = Taken + 1 /\ Waiting' = Waiting - 1
    BY <2>2, <1>1, <1>4 DEF Taken, Waiting
  <2>4. \A k \in 0 .. size - 1 : (head' + k) % size = (head + (k + 1)) % size
    BY <1>1, RingNext
  <2> QED BY <2>1, <2>2, <2>3, <2>4, <1>1
<1>7. CASE running
  <2>1. /\ Waiting \in 0 .. size - 1
        /\ tail = (head + Waiting) % size
        /\ Holds(entries, head, Waiting, Taken)
    BY <1>7 DEF IInv, RunQueued
  <2>2. Waiting \in 1 .. size - 1
    BY <2>1, <1>1, <1>5
  <2>3. tail' = (head' + Waiting') % size' /\ Waiting' \in 0 .. size' - 1
    <3>1. Waiting - 1 \in 0 .. size - 1 /\ (Waiting - 1) + 1 = Waiting
      BY <2>2, <1>1
    <3>2. (head' + (Waiting - 1)) % size = (head + ((Waiting - 1) + 1)) % size
      BY <3>1, <1>6, <2>1, <2>2
    <3> QED BY <3>1, <3>2, <1>6, <2>1, <2>2, <1>1
  <2>4. RunQueued'
    BY <2>3, <1>6, <2>1, <2>2 DEF RunQueued
  <2> QED BY <2>4, <1>3, <1>6, <1>7, <2>1, <2>2, <1>1
    DEF IInv, ControlInv, ReconfigureAlone, PrintedInOrder, CurInv, StopQueued, Stopped
<1>8. CASE ~running
  <2>1. ctl = "join"
    BY <1>8, <1>1 DEF IInv, ControlInv, ReconfigureAlone, TypeOK
  <2>2. /\ Waiting \in 0 .. size - 2
        /\ tail = (head + (Waiting + 1)) % size
        /\ Holds(entries, head, Waiting, Taken)
        /\ entries[((head + Waiting) % size) + 1].is_end
    BY <2>1, <1>1 DEF IInv, StopQueued
  <2>3. CASE Waiting = 0
    <3>1. worker' = "done" /\ head' = tail' /\ accepted' = Len(printed')
      BY <2>2, <2>3, <1>1, <1>4, <1>5
    <3> QED BY <3>1, <2>1, <1>8, <1>3, <1>1
      DEF IInv, ControlInv, ReconfigureAlone, PrintedInOrder, CurInv, RunQueued, StopQueued, Stopped
  <2>4. CASE Waiting > 0
    <3>1. Waiting \in 1 .. size - 1 /\ Waiting - 1 \in 0 .. size - 2
      BY <2>2, <2>4, <1>1
    <3>2. /\ (head' + (Waiting - 1)) % size = (head + Waiting) % size
          /\ (head' + ((Waiting - 1) + 1)) % size = (head + (Waiting + 1)) % size
      <4>1. /\ Waiting - 1 \in 0 .. size - 1 /\ (Waiting - 1) + 1 = Waiting
            /\ Waiting \in 0 .. size - 1
        BY <3>1, <1>1
      <4>2. (head' + (Waiting - 1)) % size = (head + ((Waiting - 1) + 1)) % size
        BY <4>1, <3>1, <1>6, <2>2
      <4>3. (head' + Waiting) % size = (head + (Waiting + 1)) % size
        BY <4>1, <3>1, <1>6, <2>2
      <4> QED BY <4>1, <4>2, <4>3
    <3>3. StopQueued'
      BY <3>1, <3>2, <1>6, <2>2, <1>1 DEF StopQueued
    <3> QED BY <3>1, <3>3, <1>6, <2>2, <2>1, <1>8, <1>3, <1>1
      DEF IInv, ControlInv, ReconfigureAlone, PrintedInOrder, CurInv, RunQueued, Stopped
  <2> QED BY <2>2, <2>3, <2>4, <1>1
<1> QED BY <1>7, <1>8

(* Printing moves the message in the worker's hands to the printed ones. *)
LEMMA PrintStep ==
    ASSUME IInv, WorkerPrint
    PROVE  IInv'
<1>1. /\ entries' = entries /\ head' = head /\ tail' = tail /\ size' = size
      /\ running' = running /\ accepted' = accepted /\ cur' = cur /\ ctl' = ctl
      /\ op' = op /\ config' = config /\ worker = "print" /\ worker' = "wait"
      /\ printed' = Append(printed, cur.msg) /\ cur.msg = Len(printed) + 1
      /\ printed \in Seq(Nat) /\ Len(printed) \in Nat /\ cur.msg \in Nat /\ TypeOK
  BY DEF WorkerPrint, ring, IInv, TypeOK, CurInv, size, Entry
<1>2. printed' \in Seq(Nat) /\ Len(printed') = Len(printed) + 1
  BY <1>1
<1>3. TypeOK'
  BY <1>1, <1>2 DEF TypeOK, size
<1>4. Taken' = Taken /\ Waiting' = Waiting
  BY <1>1, <1>2 DEF Taken, Waiting
<1>5. PrintedInOrder'
  <2> SUFFICES ASSUME NEW j \in 1 .. Len(printed') PROVE printed'[j] = j
    BY DEF PrintedInOrder
  <2>1. CASE j = Len(printed) + 1
    BY <2>1, <1>1
  <2>2. CASE j # Len(printed) + 1
    <3>1. j \in 1 .. Len(printed) /\ printed'[j] = printed[j]
      BY <2>2, <1>1, <1>2
    <3> QED BY <3>1 DEF IInv, PrintedInOrder
  <2> QED BY <2>1, <2>2
<1> QED BY <1>1, <1>3, <1>4, <1>5
  DEF IInv, ControlInv, ReconfigureAlone, CurInv, RunQueued, StopQueued, Stopped

(* pause() puts the end entry behind the waiting messages; if that fills   *)
(* the ring, tail = head.                                                  *)
LEMMA PauseStep ==
    ASSUME IInv, NEW o \in Ops, PauseBegin(o)
    PROVE  IInv'
<1>1. /\ ctl = "idle" /\ op' = o /\ head' = head /\ accepted' = accepted
      /\ cur' = cur /\ worker' = worker /\ printed' = printed /\ config' = config
      /\ entries \in Seq(Entry) /\ head \in 0 .. size - 1 /\ tail \in 0 .. size - 1
      /\ size \in Nat \ {0, 1} /\ size = Len(entries) /\ TypeOK
      /\ accepted \in Nat /\ Len(printed) \in Nat
  BY DEF PauseBegin, thread, IInv, TypeOK, size
<1>2. Taken' = Taken /\ Waiting' = Waiting /\ Taken \in Nat
  BY <1>1 DEF Taken, Waiting
<1>3. CASE running
  <2> DEFINE e == [entries[tail + 1] EXCEPT !.is_end = TRUE]
  <2>1. running' = FALSE /\ ctl' = "join" /\ PushEnd
    BY <1>3 DEF PauseBegin
  <2>2. entries' = [entries EXCEPT ![tail + 1] = e] /\ tail' = (tail + 1) % size
    BY <2>1 DEF PushEnd, Advance
  <2>3. entries[tail + 1] \in Entry
    BY <1>1
  <2>4. e \in Entry /\ e.is_end
    BY <2>3 DEF Entry
  <2>5. /\ Waiting \in 0 .. size - 1
        /\ tail = (head + Waiting) % size
        /\ Holds(entries, head, Waiting, Taken)
    BY <1>3 DEF IInv, RunQueued
  <2>6. /\ entries' \in Seq(Entry) /\ Len(entries') = Len(entries)
        /\ entries'[tail + 1] = e
        /\ Holds(entries', head, Waiting, Taken)
    <3> HIDE DEF e
    <3>1. /\ [entries EXCEPT ![tail + 1] = e] \in Seq(Entry)
          /\ Len([entries EXCEPT ![tail + 1] = e]) = Len(entries)
          /\ [entries EXCEPT ![tail + 1] = e][tail + 1] = e
          /\ Holds([entries EXCEPT ![tail + 1] = e], head, Waiting, Taken)
      BY <2>4, <2>5, <1>1, <1>2, HoldsPush DEF size
    <3> QED BY <3>1, <2>2
  <2>7. size' = size
    BY <2>6 DEF size
  <2>8. tail' = (head + (Waiting + 1)) % size /\ tail' \in 0 .. size - 1
    BY <2>2, <2>5, <1>1, RingNext
  <2>9. TypeOK'
    BY <2>1, <2>6, <2>7, <2>8, <1>1 DEF TypeOK, size
  <2>10. StopQueued'
    <3>1. CASE Waiting \in 0 .. size - 2
      BY <3>1, <2>1, <2>4, <2>5, <2>6, <2>7, <2>8, <1>1, <1>2 DEF StopQueued
    <3>2. CASE Waiting = size - 1
      <4>1. Waiting + 1 = size /\ size \in Nat \ {0} /\ head + size \in size .. 2 * size - 1
            /\ (head + size) - size = head
        BY <3>2, <1>1
      <4>2. (head + size) % size = head
        BY <4>1, ModHigh
      <4> QED BY <4>1, <4>2, <2>8, <1>1 DEF StopQueued
    <3> QED BY <3>1, <3>2, <2>5, <1>1
  <2> QED BY <1>1, <1>3, <2>1, <2>9, <2>10
    DEF IInv, ControlInv, ReconfigureAlone, PrintedInOrder, CurInv, RunQueued, Stopped
<1>4. CASE ~running
  <2>1. /\ running' = running /\ entries' = entries /\ tail' = tail
        /\ ctl' = "config" /\ size' = size
    BY <1>4 DEF PauseBegin, size
  <2>2. TypeOK'
    BY <2>1, <1>1 DEF TypeOK, size
  <2> QED BY <1>1, <1>4, <2>1, <2>2
    DEF IInv, ControlInv, ReconfigureAlone, PrintedInOrder, CurInv, RunQueued, StopQueued, Stopped
<1> QED BY <1>3, <1>4

(* The steps that leave the ring, the messages and the printed ones alone. *)
LEMMA ControlStep ==
    ASSUME IInv, PauseJoin \/ Reconfigure \/ Resume
    PROVE  IInv'
<1>1. /\ entries' = entries /\ head' = head /\ tail' = tail /\ size' = size
      /\ accepted' = accepted /\ cur' = cur /\ op' = op /\ printed' = printed /\ TypeOK
      /\ size \in Nat \ {0, 1} /\ head \in 0 .. size - 1
      /\ accepted \in Nat /\ Len(printed) \in Nat
  BY DEF PauseJoin, Reconfigure, Resume, ring, thread, IInv, TypeOK, size
<1>2. CASE PauseJoin
  <2>1. TypeOK'
    BY <1>1, <1>2 DEF TypeOK, PauseJoin, size
  <2> QED BY <1>1, <1>2, <2>1
    DEF PauseJoin, IInv, ControlInv, ReconfigureAlone, PrintedInOrder, CurInv, RunQueued,
        StopQueued, Stopped
<1>3. CASE Reconfigure
  <2>1. config' \in {0, 1} /\ ctl' \in {"idle", "resume", "freed"}
    BY <1>3 DEF IInv, TypeOK, Reconfigure, Ops
  <2>2. TypeOK'
    BY <1>1, <1>3, <2>1 DEF TypeOK, Reconfigure, thread, size
  <2>3. worker = "none" /\ worker' = worker /\ ~running /\ ~running'
    BY <1>3 DEF IInv, ControlInv, ReconfigureAlone, Reconfigure, thread
  <2> QED BY <1>1, <2>1, <2>2, <2>3
    DEF IInv, ControlInv, ReconfigureAlone, PrintedInOrder, CurInv, RunQueued, StopQueued, Stopped
<1>4. CASE Resume
  <2>1. TypeOK'
    BY <1>1, <1>4 DEF TypeOK, Resume, size
  <2>2. CASE running
    <3>1. worker' = worker /\ running' = running /\ ctl' = ctl
      BY <1>4, <2>2 DEF Resume, IInv, ControlInv
    <3>2. Taken' = Taken /\ Waiting' = Waiting
      BY <3>1, <1>1 DEF Taken, Waiting
    <3> QED BY <1>1, <2>1, <3>1, <3>2
      DEF IInv, ControlInv, ReconfigureAlone, PrintedInOrder, CurInv, RunQueued, StopQueued, Stopped
  <2>3. CASE ~running
    <3>1. /\ worker = "none" /\ worker' = "wait" /\ running' /\ ctl' = "idle"
          /\ head = tail /\ accepted = Len(printed)
      BY <1>4, <2>3 DEF Resume, IInv, ControlInv, ReconfigureAlone, Stopped
    <3>2. Taken' = Len(printed) /\ Waiting' = 0
      BY <3>1, <1>1 DEF Taken, Waiting
    <3>3. (head + 0) % size = head
      <4>1. size \in Nat \ {0} /\ head + 0 = head
        BY <1>1
      <4> QED BY <4>1, <1>1, ModLow
    <3>4. RunQueued'
      BY <1>1, <3>1, <3>2, <3>3 DEF RunQueued, Holds
    <3> QED BY <1>1, <2>1, <3>1, <3>4
      DEF IInv, ControlInv, ReconfigureAlone, PrintedInOrder, CurInv, StopQueued, Stopped
  <2> QED BY <2>2, <2>3
<1> QED BY <1>2, <1>3, <1>4

LEMMA NextIInv == IInv /\ [Next]_vars => IInv'
<1> SUFFICES ASSUME IInv, [Next]_vars PROVE IInv'
  OBVIOUS
<1>1. CASE UNCHANGED vars
  BY <1>1 DEF vars, IInv, TypeOK, size, ControlInv, ReconfigureAlone, PrintedInOrder,
     CurInv, RunQueued, StopQueued, Stopped, Taken, Waiting
<1>2. CASE AddDiscarded
  BY <1>1, <1>2 DEF AddDiscarded
<1>3. CASE AddStored
  BY <1>3, AddStep
<1>4. CASE Worker
  BY <1>4, TakeStep, PrintStep DEF Worker
<1>5. CASE \E o \in Ops : PauseBegin(o)
  BY <1>5, PauseStep
<1>6. CASE PauseJoin \/ Reconfigure \/ Resume
  BY <1>6, ControlStep
<1> QED BY <1>1, <1>2, <1>3, <1>4, <1>5, <1>6 DEF Next

-----------------------------------------------------------------------------
THEOREM Invariance == Spec => []IInv
BY InitIInv, NextIInv, PTL DEF Spec

(* Type correctness of the log: the indices stay inside the ring through   *)
(* every expansion (common_log::add) and restart (pause, resume).          *)
THEOREM TypeCorrect == Spec => []TypeOK
<1>1. IInv => TypeOK
  BY DEF IInv
<1> QED BY <1>1, Invariance, PTL

(* common_log prints the messages in the order in which add() accepted     *)
(* them, none twice and none left out, whatever the capacity.              *)
THEOREM InOrder == Spec => []PrintedInOrder
<1>1. IInv => PrintedInOrder
  BY DEF IInv
<1> QED BY <1>1, Invariance, PTL

(* add() loses nothing when it expands the ring: every message accepted is *)
(* printed, in the worker's hands, or queued.  When pause() has joined the *)
(* worker, every message accepted before it has been printed.              *)
THEOREM NoLoss == Spec => []NothingLost
<1>1. IInv /\ worker = "none" => ~running /\ Len(printed) = accepted
  BY DEF IInv, Stopped, ControlInv
<1>2. IInv /\ running => accepted = Len(printed) + (IF worker = "print" THEN 1 ELSE 0) + Count
  <2> SUFFICES ASSUME IInv, running
               PROVE  accepted = Len(printed) + (IF worker = "print" THEN 1 ELSE 0) + Count
    OBVIOUS
  <2>1. /\ size \in Nat \ {0, 1} /\ head \in 0 .. size - 1 /\ accepted \in Nat /\ Len(printed) \in Nat
        /\ Waiting \in 0 .. size - 1 /\ tail = (head + Waiting) % size
    BY DEF IInv, TypeOK, RunQueued
  <2>2. tail = IF head + Waiting < size THEN head + Waiting ELSE head + Waiting - size
    <3>1. Waiting \in 0 .. size
      BY <2>1
    <3> QED BY <2>1, <3>1, RingIndex
  <2>3. CASE head + Waiting < size
    <3>1. tail - head = Waiting /\ size \in Nat \ {0}
      BY <2>1, <2>2, <2>3
    <3>2. Count = Waiting
      BY <2>1, <3>1, ModLow DEF Count
    <3> QED BY <3>2, <2>1 DEF Waiting, Taken
  <2>4. CASE head + Waiting >= size
    <3>1. tail - head = Waiting - size /\ size \in Nat \ {0} /\ tail - head \in -size .. -1
      BY <2>1, <2>2, <2>4
    <3>2. (tail - head) % size = (tail - head) + size
      BY <3>1, ModNegative
    <3>3. Count = Waiting
      BY <2>1, <3>1, <3>2 DEF Count
    <3> QED BY <3>3, <2>1 DEF Waiting, Taken
  <2> QED BY <2>1, <2>3, <2>4
<1>3. IInv => NothingLost
  BY <1>1, <1>2 DEF NothingLost
<1> QED BY <1>3, Invariance, PTL

(* set_file(), set_colors() and the destructor touch what the worker reads *)
(* without the mutex only while there is no worker.                        *)
THEOREM Alone == Spec => []ReconfigureAlone
<1>1. IInv => ReconfigureAlone
  BY DEF IInv, ControlInv
<1> QED BY <1>1, Invariance, PTL
=============================================================================
