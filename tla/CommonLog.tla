----------------------------- MODULE CommonLog -----------------------------
(***************************************************************************)
(* The asynchronous logger of common/log.cpp (struct common_log).          *)
(*                                                                         *)
(* Any thread calls add(); one worker thread prints what was added.  The   *)
(* two share a ring buffer guarded by a mutex.  One controlling thread     *)
(* pauses, resumes, reconfigures and frees the log: log.h declares those   *)
(* calls "not thread-safe", so there is only one of them at a time.        *)
(*                                                                         *)
(* A critical section of the mutex is one action.  Messages are numbered   *)
(* in the order in which add() stores them, so that "printed in order"     *)
(* can be stated; their text, level, prefix and time stamp are left out.   *)
(***************************************************************************)
EXTENDS Integers, Sequences

CONSTANTS
    Capacity,   (* entries.size() at construction (256 in the code)         *)
    MaxMsgs     (* bound: how many messages are stored in a behaviour       *)

ASSUME CapacityAssumption == Capacity \in Nat \ {0, 1}
ASSUME MaxMsgsAssumption  == MaxMsgs \in Nat

VARIABLES
    entries,    (* the ring buffer, entries[i + 1] is the code's entries[i] *)
    head, tail, (* next entry to print, next entry to fill                  *)
    running,    (* common_log::running                                      *)
    accepted,   (* number of messages stored so far                         *)
    cur,        (* the worker's private copy of an entry                    *)
    worker,     (* where the worker thread is; "none": joined or not begun  *)
    ctl, op,    (* where the controlling thread is, and in which call       *)
    config,     (* file and g_col: read by the worker without the mutex     *)
    printed     (* history: the messages printed, in order                  *)

vars == <<entries, head, tail, running, accepted, cur, worker, ctl, op,
          config, printed>>

ring   == <<entries, head, tail>>
thread == <<cur, worker, printed>>

Entry == [msg : Nat, is_end : BOOLEAN]
Blank == [msg |-> 0, is_end |-> FALSE]
Ops   == {"pause", "set_file", "set_colors", "free"}

(***************************************************************************)
(* Ring buffer arithmetic.                                                 *)
(***************************************************************************)
size == Len(entries)

Advance(i) == (i + 1) % size

(* How many entries the indices say are queued: a full ring looks empty. *)
Count == (tail - head) % size

(* After an insertion that left tail = head the ring is full. *)
Full_NeverChecked(newTail) == FALSE
Full(newTail) == newTail = head

(* add()'s loop that moves a full ring, oldest entry first, into the first  *)
(* half of a buffer of twice the size.  The other half is value-initialised.*)
Expanded_FromZero(ents, h) ==
    [j \in 1 .. 2 * Len(ents) |-> IF j <= Len(ents) THEN ents[j] ELSE Blank]
Expanded(ents, h) ==
    [j \in 1 .. 2 * Len(ents) |->
        IF j <= Len(ents) THEN ents[((h + j - 1) % Len(ents)) + 1] ELSE Blank]

(***************************************************************************)
(* The constructor: it ends with resume(), which starts the worker.        *)
(***************************************************************************)
Init ==
    /\ entries  = [i \in 1 .. Capacity |-> Blank]
    /\ head     = 0
    /\ tail     = 0
    /\ running  = TRUE
    /\ accepted = 0
    /\ cur      = Blank
    /\ worker   = "wait"
    /\ ctl      = "idle"
    /\ op       = "pause"
    /\ config   = 0
    /\ printed  = <<>>

(***************************************************************************)
(* add(), in any thread.                                                   *)
(***************************************************************************)

(* "discard messages while the worker thread is paused" *)
AddDiscarded ==
    /\ ctl # "freed"
    /\ ~running
    /\ UNCHANGED vars

AddStored ==
    LET filled  == [entries EXCEPT ![tail + 1] =
                        [msg |-> accepted + 1, is_end |-> FALSE]]
        newTail == Advance(tail)
    IN  /\ ctl # "freed"
        /\ running
        /\ accepted < MaxMsgs
        /\ accepted' = accepted + 1
        /\ IF Full(newTail)
           THEN /\ entries' = Expanded(filled, head)
                /\ head'    = 0
                /\ tail'    = size
           ELSE /\ entries' = filled
                /\ tail'    = newTail
                /\ UNCHANGED head
        /\ UNCHANGED <<running, thread, ctl, op, config>>

(***************************************************************************)
(* The worker thread.                                                      *)
(***************************************************************************)

(* The predicate of cv.wait(). *)
HasEntry_ButOne == Advance(head) # tail
HasEntry == head # tail

(* Wait for an entry, copy it, unlock; an end entry ends the thread. *)
WorkerTake ==
    /\ worker = "wait"
    /\ HasEntry
    /\ cur'    = entries[head + 1]
    /\ head'   = Advance(head)
    /\ worker' = IF entries[head + 1].is_end THEN "done" ELSE "print"
    /\ UNCHANGED <<entries, tail, running, accepted, ctl, op, config, printed>>

(* Print to the console and to the file, without the mutex. *)
WorkerPrint ==
    /\ worker  = "print"
    /\ printed' = Append(printed, cur.msg)
    /\ worker'  = "wait"
    /\ UNCHANGED <<ring, running, accepted, cur, ctl, op, config>>

(***************************************************************************)
(* The controlling thread: pause(), resume(), set_file(), set_colors() and *)
(* the destructor.  All but resume() begin with pause().                   *)
(***************************************************************************)

(* The end entry.  Unlike add(), pause() stores it without looking whether  *)
(* the ring is full afterwards.                                             *)
PushEnd_Forgotten == UNCHANGED <<entries, tail>>
PushEnd ==
    /\ entries' = [entries EXCEPT ![tail + 1].is_end = TRUE]
    /\ tail'    = Advance(tail)

(* The critical section of pause(), the first step of every call but resume(). *)
PauseBegin(o) ==
    /\ ctl = "idle"
    /\ op' = o
    /\ \/ /\ running
          /\ running' = FALSE
          /\ PushEnd
          /\ ctl'     = "join"
       \/ /\ ~running
          /\ ctl'     = "config"
          /\ UNCHANGED <<running, entries, tail>>
    /\ UNCHANGED <<head, accepted, thread, config>>

(* thrd.join() *)
PauseJoin_Missing ==
    /\ ctl     = "join"
    /\ ctl'    = "config"
    /\ UNCHANGED <<ring, running, accepted, cur, worker, op, config, printed>>
PauseJoin ==
    /\ ctl     = "join"
    /\ worker  = "done"
    /\ worker' = "none"
    /\ ctl'    = "config"
    /\ UNCHANGED <<ring, running, accepted, cur, op, config, printed>>

(* What the call does between pause() and resume(): exchange the file, the  *)
(* colours, or close the file for good.                                     *)
Reconfigure ==
    /\ ctl    = "config"
    /\ config' = IF op = "pause" THEN config ELSE 1 - config
    /\ ctl'   = CASE op = "pause" -> "idle"
                  [] op = "free"  -> "freed"
                  [] OTHER        -> "resume"
    /\ UNCHANGED <<ring, running, accepted, thread, op>>

(* resume(), called by itself or at the end of set_file() and set_colors(). *)
Resume ==
    /\ ctl \in {"idle", "resume"}
    /\ ctl'     = "idle"
    /\ running' = TRUE
    /\ worker'  = IF running THEN worker ELSE "wait"
    /\ UNCHANGED <<ring, accepted, cur, op, config, printed>>

Worker     == WorkerTake \/ WorkerPrint
Controller == PauseJoin \/ Reconfigure \/ (ctl = "resume" /\ Resume)

Next ==
    \/ AddDiscarded
    \/ AddStored
    \/ Worker
    \/ \E o \in Ops : PauseBegin(o)
    \/ PauseJoin
    \/ Reconfigure
    \/ Resume

Spec == Init /\ [][Next]_vars

(* The scheduler runs the worker and lets a call that has begun go on; no   *)
(* thread is obliged to log anything or to begin a call.                    *)
FairSpec == Spec /\ WF_vars(Worker) /\ WF_vars(Controller)

-----------------------------------------------------------------------------
(* The fields of common_log keep their ranges: head and tail stay inside the  *)
(* ring, also through an expansion.                                           *)
TypeOK ==
    /\ entries  \in Seq(Entry) /\ size \in Nat \ {0, 1}
    /\ head     \in 0 .. size - 1
    /\ tail     \in 0 .. size - 1
    /\ running  \in BOOLEAN
    /\ accepted \in Nat
    /\ cur      \in Entry
    /\ worker   \in {"wait", "print", "done", "none"}
    /\ ctl      \in {"idle", "join", "config", "resume", "freed"}
    /\ op       \in Ops
    /\ config   \in {0, 1}
    /\ printed  \in Seq(Nat)

(* Messages are printed in the order in which add() stored them, each once, *)
(* whatever expansions of the ring and restarts of the worker happened      *)
(* between.                                                                 *)
PrintedInOrder == \A j \in 1 .. Len(printed) : printed[j] = j

(* While the log runs, every message stored is printed, in the worker's     *)
(* hands, or in the ring: expanding a full ring in add() loses nothing.     *)
(* Once pause() has joined the worker, every message stored before it has   *)
(* been printed: the end entry is behind all of them.                       *)
NothingLost ==
    /\ running => accepted = Len(printed) + (IF worker = "print" THEN 1 ELSE 0) + Count
    /\ worker = "none" => ~running /\ Len(printed) = accepted

(* The file and the colours, which the worker reads without the mutex, are  *)
(* exchanged only while no worker thread exists; and resume() never         *)
(* overwrites the handle of a thread that has not been joined (which would  *)
(* be std::terminate).                                                      *)
ReconfigureAlone ==
    (ctl \in {"config", "resume", "freed"} \/ (ctl = "idle" /\ ~running))
        => worker = "none"

(* "push an entry to signal the worker thread to stop": a call of pause()   *)
(* returns.                                                                 *)
PauseReturns == (ctl = "join") ~> (ctl # "join")

(* The call of pause() returns if its end entry did not fill the ring: the  *)
(* worker sees the entry, prints what is in front of it, and ends.          *)
PauseReturnsUnlessFull == (ctl = "join" /\ HasEntry) ~> (ctl # "join")

(* The end entry filled the ring: head = tail, and the worker waits for an  *)
(* entry that it has.                                                       *)
Hung == ctl = "join" /\ worker = "wait" /\ head = tail

(* Every message stored is eventually printed, through expansions, pauses   *)
(* and restarts, unless pause() hangs on a full ring.                       *)
EventuallyPrinted ==
    \A m \in 1 .. MaxMsgs : (accepted >= m) ~> (Len(printed) >= m \/ Hung)

=============================================================================
