---------------------------- MODULE ServerQueue ----------------------------
(***************************************************************************)
(* The task queue, the result queue and the slots of tools/server: struct  *)
(* server_queue, struct server_response, and the parts of struct           *)
(* server_context and of the HTTP handlers that use them.                  *)
(*                                                                         *)
(* One HTTP thread per client makes one request: it registers its task     *)
(* ids as waiting, posts the tasks, receives results until it has one per  *)
(* task, and unregisters.  The main thread takes the tasks one by one,     *)
(* gives them a slot or defers them, and then lets every slot of a batch   *)
(* advance.  A client may disconnect, a task may be refused, a decode may  *)
(* fail, and a signal may end the server, at any moment.                   *)
(*                                                                         *)
(* A critical section of mutex_tasks or of mutex_results is one action.    *)
(* What a slot computes is left out: a slot advances some rounds and then  *)
(* stops.  ServerSlots models its tokens.                                  *)
(***************************************************************************)
EXTENDS Integers, Sequences, FiniteSets, SequencesExt

CONSTANTS
    Clients,      (* HTTP threads that make a request                       *)
    Requests,     (* sets of requests, one of each client, that are made    *)
    NSlots,       (* n_parallel                                             *)
    MaxTasks,     (* bound: how many tasks a request has                    *)
    MaxRounds,    (* bound: how often a slot advances for one task          *)
    MaxFailures   (* bound: how many decode errors a behaviour has          *)

Slots == 1 .. NSlots

(* A task id: get_new_id() hands each one out once.  NoTask is -1. *)
Tasks  == Clients \X (1 .. MaxTasks)
NoTask == <<>>

(* Which handler serves a request:                                          *)
(* "stream": receive_cmpl_results_stream, for completions;                  *)
(* "multi":  receive_multi_results, for completions and embeddings;         *)
(* "rerank": receive_multi_results, whose handler unregisters nothing;      *)
(* "monitor": a task that needs no slot (metrics, set_lora) and recv();     *)
(* "slot_op": save, restore or erase one slot, and recv().                  *)
Modes == {"stream", "multi", "rerank", "monitor", "slot_op"}

(* A request has n tasks, of which those in bad have a prompt or a grammar  *)
(* that cannot be used, and asks for the slot id_slot, or 0 for any.  The   *)
(* id_slot is taken from the request unchecked: NSlots + 1 stands for the   *)
(* ids that name no slot.                                                   *)
Request == [mode : Modes, n : 1 .. MaxTasks, id_slot : 0 .. NSlots + 1,
            bad : SUBSET (1 .. MaxTasks)]

ASSUME ServerAssumption ==
    /\ NSlots \in Nat \ {0} /\ MaxTasks \in Nat
    /\ MaxRounds \in Nat /\ MaxFailures \in Nat
    /\ Requests \subseteq [Clients -> Request]

VARIABLES
    (* struct server_queue *)
    queue, deferred,    (* queue_tasks, queue_tasks_deferred               *)
    running,
    (* struct server_response *)
    waiting,            (* waiting_task_ids                                *)
    results,            (* queue_results                                   *)
    resRunning,
    (* the slots: the task of a slot stays in id_task when it is released  *)
    id_task, busy, rounds,
    (* the main thread *)
    main, cur,          (* where it is, and the task taken from the queue  *)
    batch,              (* slots of this update that have yet to advance   *)
    (* the HTTP threads *)
    req,                (* the request of each                             *)
    pc, left,           (* where each is; the ids cancel_tasks has to do   *)
    finished,           (* results that ended a task, received so far      *)
    (* history *)
    finals,             (* results that end the task, queued so far        *)
    fails,              (* decode errors so far                            *)
    ghosts,             (* tasks that were pending when they were cancelled*)
    unreleased          (* a task that releases no slot may have used up   *)
                        (* a release that a deferred task waits for        *)

taskq   == <<queue, deferred, running>>
resq    == <<waiting, results, resRunning, finals>>
slots   == <<id_task, busy, rounds>>
loop    == <<main, cur, batch>>
http    == <<req, pc, left, finished>>
history == <<fails, ghosts, unreleased>>
vars    == <<taskq, resq, slots, loop, http, history>>

Owner(t) == t[1]
Mode(t) == req[Owner(t)].mode
IsBad(t) == t[2] \in req[Owner(t)].bad
TasksOf(c) == {<<c, i>> : i \in 1 .. req[c].n}
UsesSlot(t) == Mode(t) \in {"stream", "multi", "rerank"}
UsesRecv(c) == req[c].mode \in {"monitor", "slot_op"}

(* server_task, and server_task_result: all that the queues look at. *)
Work(t)   == [type |-> "work",   id |-> t,      id_target |-> NoTask]
Cancel(t) == [type |-> "cancel", id |-> NoTask, id_target |-> t]
NextResponse == [type |-> "next", id |-> NoTask, id_target |-> NoTask]
Messages == {Work(t) : t \in Tasks} \cup {Cancel(t) : t \in Tasks}
                \cup {NextResponse}
Results == [id : Tasks, type : {"partial", "final", "error"}]

Init ==
    /\ queue = <<>> /\ deferred = <<>> /\ running = TRUE
    /\ waiting = {} /\ results = <<>> /\ resRunning = TRUE
    /\ id_task = [s \in Slots |-> NoTask]
    /\ busy = [s \in Slots |-> FALSE]
    /\ rounds = [s \in Slots |-> 0]
    /\ main = "tasks" /\ cur = NextResponse /\ batch = {}
    /\ req \in Requests
    /\ pc = [c \in Clients |-> "new"]
    /\ left = [c \in Clients |-> {}]
    /\ finished = [c \in Clients |-> 0]
    /\ finals = [t \in Tasks |-> 0]
    /\ fails = 0 /\ ghosts = {} /\ unreleased = FALSE

(* recv() holds mutex_results from its test of the predicate to its sleep. *)
MutexFree == \A c \in Clients : pc[c] # "checked"

Alive == main \notin {"ended", "aborted"}

(* The elements of q at the indexes I, in their order: what erase() and     *)
(* remove_if() leave.                                                       *)
Nth(I, k) == CHOOSE i \in I : Cardinality({j \in I : j <= i}) = k
At(q, I) == [k \in 1 .. Cardinality(I) |-> q[Nth(I, k)]]

(***************************************************************************)
(* server_response                                                         *)
(***************************************************************************)

(* send(), for the results rs in this order: a result whose id is not       *)
(* waiting is dropped, the others are queued and every sleeper is woken.    *)
Queued(rs) == At(rs, {i \in DOMAIN rs : rs[i].id \in waiting})
Woken == [c \in Clients |-> IF pc[c] = "asleep" THEN "recv" ELSE pc[c]]
Send(rs) ==
    /\ MutexFree
    /\ results' = results \o Queued(rs)
    /\ finals' = [t \in Tasks |-> finals[t] + Cardinality(
                    {i \in DOMAIN rs : /\ rs[i].id = t /\ t \in waiting
                                       /\ rs[i].type # "partial"})]
    /\ pc' = IF Queued(rs) = <<>> THEN pc ELSE Woken
    /\ UNCHANGED <<waiting, resRunning>>

Result(t, type) == [id |-> t, type |-> type]

(* remove_waiting_task_id: the queued results of the task go too *)
Without_Nothing(t) == results
Without(t) == At(results, {i \in DOMAIN results : results[i].id # t})

(***************************************************************************)
(* server_queue                                                            *)
(***************************************************************************)

(* cleanup_pending_task for each of the tasks ts: what it compares is       *)
(* id_target, which a pending task that is not itself a cancellation does   *)
(* not set.                                                                 *)
Cleaned(q, ts) == At(q, {i \in DOMAIN q : q[i].id_target \notin ts})

(* pop_deferred_task(), n times: oldest first, to the back of the queue *)
Popped_Never(n) == [queue |-> queue, deferred |-> deferred]
Popped(n) ==
    LET k == IF n < Len(deferred) THEN n ELSE Len(deferred)
    IN  [queue    |-> queue \o SubSeq(deferred, 1, k),
         deferred |-> SubSeq(deferred, k + 1, Len(deferred))]

(* Slots ss are released: those that were processing become idle, and for  *)
(* each of them one deferred task is moved to the queue.                   *)
Release(ss) ==
    LET n == Cardinality({s \in ss : busy[s]})
    IN  /\ busy' = [s \in Slots |-> busy[s] /\ s \notin ss]
        /\ queue' = Popped(n).queue
        /\ deferred' = Popped(n).deferred
        /\ rounds' = [s \in Slots |-> IF s \in ss THEN 0 ELSE rounds[s]]
        /\ UNCHANGED <<running, id_task>>

(***************************************************************************)
(* The HTTP threads.                                                       *)
(***************************************************************************)

(* get_new_id() for each task, then add_waiting_tasks: before post(), so   *)
(* that no result can be sent while nobody is registered for it            *)
AddWaiting(c) ==
    /\ main \notin {"join", "ended", "aborted"}
    /\ pc[c] = "new"
    /\ MutexFree
    /\ waiting' = waiting \cup TasksOf(c)
    /\ pc' = [pc EXCEPT ![c] = "post"]
    /\ UNCHANGED <<taskq, results, resRunning, finals, slots, loop, left,
                   finished, req, history>>

(* post(): the metrics task is pushed to the front, the others to the back *)
Post(c) ==
    LET work == [i \in 1 .. req[c].n |-> Work(<<c, i>>)]
    IN  /\ pc[c] = "post"
        /\ \/ queue' = queue \o work
           \/ req[c].mode = "monitor" /\ queue' = work \o queue
        /\ pc' = [pc EXCEPT ![c] = "recv"]
        /\ UNCHANGED <<deferred, running, resq, slots, loop, left, finished,
                       req, history>>

(* The queued result that recv and recv_with_timeout take: the first one   *)
(* whose id is one of the client's.                                        *)
Matching(c) == {i \in DOMAIN results : Owner(results[i].id) = c}
First(c) == CHOOSE i \in Matching(c) : \A j \in Matching(c) : i <= j

(* What the handler does with a result that it received. *)
AfterResult(c, type) ==
    LET n == finished[c] + (IF type = "partial" THEN 0 ELSE 1)
    IN  IF ~UsesRecv(c) /\ type = "error" THEN "cancel"
        ELSE IF n = req[c].n THEN "finish"
        ELSE "recv"

Take(c) ==
    LET type == results[First(c)].type
        next == AfterResult(c, type)
    IN  /\ pc[c] = "recv"
        /\ MutexFree
        /\ Matching(c) # {}
        /\ UsesRecv(c) => resRunning
        /\ results' = RemoveAt(results, First(c))
        /\ pc' = [pc EXCEPT ![c] = next]
        /\ left' = [left EXCEPT ![c] = IF next = "cancel" THEN TasksOf(c) ELSE {}]
        /\ finished' = [finished EXCEPT ![c] =
                            @ + (IF type = "partial" THEN 0 ELSE 1)]
        /\ UNCHANGED <<taskq, waiting, resRunning, finals, slots, loop, req,
                       history>>

(* recv_with_timeout returns, at the latest after HTTP_POLLING_SECONDS, and *)
(* the handler finds the connection closed.  (When it is open and there is  *)
(* no result, the handler tries again.  A result that was received is lost, *)
(* as those still queued are: cancel_tasks removes them.)                   *)
Disconnected(c) ==
    /\ pc[c] = "recv"
    /\ ~UsesRecv(c)
    /\ MutexFree
    /\ pc' = [pc EXCEPT ![c] = "cancel"]
    /\ left' = [left EXCEPT ![c] = TasksOf(c)]
    /\ UNCHANGED <<taskq, resq, slots, loop, req, finished, history>>

(* recv()'s wait, in two steps: the predicate is tested (it looks at the    *)
(* whole queue of results, not at the client's), and then the thread sleeps.*)
RecvTest(c) ==
    /\ pc[c] = "recv"
    /\ UsesRecv(c)
    /\ MutexFree
    /\ resRunning
    /\ results = <<>>
    /\ pc' = [pc EXCEPT ![c] = "checked"]
    /\ UNCHANGED <<taskq, resq, slots, loop, left, finished, req, history>>

RecvSleep(c) ==
    /\ pc[c] = "checked"
    /\ pc' = [pc EXCEPT ![c] = "asleep"]
    /\ UNCHANGED <<taskq, resq, slots, loop, left, finished, req, history>>

(* A receiver that finds running cleared calls std::terminate(): no thread  *)
(* survives.                                                                *)
RecvAborts(c) ==
    /\ pc[c] = "recv"
    /\ MutexFree
    /\ ~resRunning
    /\ UsesRecv(c) \/ Matching(c) = {}
    /\ main' = "aborted"
    /\ pc' = [d \in Clients |-> "dead"]
    /\ UNCHANGED <<taskq, resq, slots, cur, batch, req, left, finished, history>>

(* cancel_tasks(): remove_waiting_task_id for each id, in some order, ...  *)
CancelWaiting(c) ==
    /\ pc[c] = "cancel"
    /\ MutexFree
    /\ \E t \in left[c] :
          /\ waiting' = waiting \ {t}
          /\ results' = Without(t)
          /\ left' = [left EXCEPT ![c] = @ \ {t}]
    /\ UNCHANGED <<taskq, resRunning, finals, slots, loop, pc, finished,
                   req, history>>

(* ... and then one post() of all the cancellations, to the front.  The    *)
(* handler's own remove_waiting_task_ids then finds nothing left.          *)
Pending(t) == Contains(queue, Work(t)) \/ Contains(deferred, Work(t))
InHand(t) == main = "process" /\ cur = Work(t)
PostCancel(c) ==
    /\ pc[c] = "cancel"
    /\ left[c] = {}
    /\ \E order \in Bijection(1 .. req[c].n, TasksOf(c)) :
          queue' = [i \in 1 .. req[c].n |-> Cancel(order[i])]
                        \o Cleaned(queue, TasksOf(c))
    /\ deferred' = Cleaned(deferred, TasksOf(c))
    /\ ghosts' = ghosts \cup {t \in TasksOf(c) : Pending(t) \/ InHand(t)}
    /\ pc' = [pc EXCEPT ![c] = "gone"]
    /\ UNCHANGED <<running, resq, slots, loop, left, finished, req,
                   fails, unreleased>>

(* The handler unregisters its tasks: remove_waiting_task_id after recv(),  *)
(* remove_waiting_task_ids (which leaves results behind) after the others,  *)
(* and handle_rerank nothing.                                               *)
Finish(c) ==
    /\ pc[c] = "finish"
    /\ MutexFree
    /\ waiting' = IF req[c].mode = "rerank" THEN waiting ELSE waiting \ TasksOf(c)
    /\ results' = IF UsesRecv(c)
                  THEN At(results, {i \in DOMAIN results : Owner(results[i].id) # c})
                  ELSE results
    /\ pc' = [pc EXCEPT ![c] = "done"]
    /\ UNCHANGED <<taskq, resRunning, finals, slots, loop, left, finished,
                   req, history>>

(***************************************************************************)
(* The main thread: start_loop().                                          *)
(***************************************************************************)
(* A step to another place of the loop: no task is in hand there. *)
Goto(label) == main' = label /\ cur' = NextResponse /\ UNCHANGED batch

(* The inner loop takes the next task; when there is none, update_slots(). *)
TakeTask ==
    /\ main = "tasks"
    /\ running
    /\ queue # <<>>
    /\ main' = "process"
    /\ cur' = Head(queue)
    /\ queue' = Tail(queue)
    /\ UNCHANGED <<deferred, running, resq, slots, batch, http, history>>

NoMoreTasks ==
    /\ main = "tasks"
    /\ running
    /\ queue = <<>>
    /\ Goto("update")
    /\ UNCHANGED <<taskq, resq, slots, http, history>>

(* After update_slots(): wait until there is a task or the loop must end.  *)
Wait ==
    /\ main = "wait"
    /\ running
    /\ queue # <<>>
    /\ Goto("tasks")
    /\ UNCHANGED <<taskq, resq, slots, http, history>>

LoopEnds_OnlyAwake ==
    /\ main = "tasks"
    /\ ~running
    /\ Goto("stop")
    /\ UNCHANGED <<taskq, resq, slots, http, history>>
LoopEnds ==
    /\ main \in {"tasks", "wait"}
    /\ ~running
    /\ Goto("stop")
    /\ UNCHANGED <<taskq, resq, slots, http, history>>

(***************************************************************************)
(* process_single_task().                                                  *)
(***************************************************************************)

(* The slots that a task may be given: the one that get_slot_by_id finds   *)
(* for the id it asks for, or one that get_available_slot finds.  That one *)
(* prefers a similar prompt, then the least recently used: any idle slot,  *)
(* here.                                                                   *)
Candidates(t) ==
    LET id_slot == req[Owner(t)].id_slot
    IN  IF id_slot # 0 THEN Slots \cap {id_slot} ELSE Slots
Available(t) == {s \in Candidates(t) : ~busy[s]}

Defer_Drops(t) == deferred
Defer(t) == Append(deferred, Work(t))

(* No slot is available: a task that needs one waits, also if the id it     *)
(* asks for names none, for ever then; an operation on a slot waits for it. *)
ProcessDefer ==
    /\ main = "process"
    /\ cur.type = "work"
    /\ Available(cur.id) = {}
    /\ UsesSlot(cur.id) \/ (Mode(cur.id) = "slot_op" /\ Candidates(cur.id) # {})
    /\ deferred' = Defer(cur.id)
    /\ unreleased' = (unreleased \/ Candidates(cur.id) = {})
    /\ Goto("tasks")
    /\ UNCHANGED <<queue, running, resq, slots, http, fails, ghosts>>

(* launch_slot_with_task.  A task that it refuses has taken the slot's      *)
(* id_task, but the slot stays idle: it is never released.                  *)
ProcessLaunch ==
    /\ main = "process"
    /\ cur.type = "work"
    /\ UsesSlot(cur.id)
    /\ \E s \in Available(cur.id) :
          /\ id_task' = [id_task EXCEPT ![s] = cur.id]
          /\ busy' = [busy EXCEPT ![s] = ~IsBad(cur.id)]
    /\ IF IsBad(cur.id)
       THEN Send(<<Result(cur.id, "error")>>)
       ELSE UNCHANGED <<resq, pc>>
    /\ unreleased' = (unreleased \/ (IsBad(cur.id) /\ deferred # <<>>))
    /\ Goto("tasks")
    /\ UNCHANGED <<taskq, rounds, left, finished, req, fails, ghosts>>

(* metrics, set_lora, and saving, restoring or erasing an idle slot or one  *)
(* that does not exist ("Invalid slot ID"): the task is answered at once.   *)
ProcessAtOnce ==
    /\ main = "process"
    /\ cur.type = "work"
    /\ ~UsesSlot(cur.id)
    /\ Mode(cur.id) = "slot_op" => Available(cur.id) # {} \/ Candidates(cur.id) = {}
    /\ \E type \in {"error"} \cup (IF Candidates(cur.id) = {} THEN {} ELSE {"final"}) :
          Send(<<Result(cur.id, type)>>)
    /\ unreleased' = (unreleased \/ (Mode(cur.id) = "slot_op"
                                        /\ deferred # <<>>))
    /\ Goto("tasks")
    /\ UNCHANGED <<taskq, slots, left, finished, req, fails, ghosts>>

(* A cancellation releases the slot with the task's id, if there is one.   *)
SlotOf_None(t) == {}
SlotOf(t) == {s \in Slots : id_task[s] = t}

ProcessCancel ==
    /\ main = "process"
    /\ cur.type = "cancel"
    /\ Release(SlotOf(cur.id_target))
    /\ Goto("tasks")
    /\ UNCHANGED <<resq, http, history>>

ProcessNext ==
    /\ main = "process"
    /\ cur.type = "next"
    /\ Goto("tasks")
    /\ UNCHANGED <<taskq, resq, slots, http, history>>

(***************************************************************************)
(* update_slots(): which slots are in the batch depends on n_batch,        *)
(* cont_batching and can_batch_with; at least one of those that process.   *)
(* A slot's release and the result it sends are one step.                  *)
(***************************************************************************)
UpdateIdle ==
    /\ main = "update"
    /\ \A s \in Slots : ~busy[s]
    /\ Goto("wait")
    /\ UNCHANGED <<taskq, resq, slots, http, history>>

UpdateBatch ==
    /\ main = "update"
    /\ \E ss \in SUBSET {s \in Slots : busy[s]} : ss # {} /\ batch' = ss
    /\ queue' = Append(queue, NextResponse)
    /\ main' = "slots"
    /\ UNCHANGED <<deferred, running, resq, slots, cur, http, history>>

UpdateDone ==
    /\ main = "slots"
    /\ batch = {}
    /\ Goto("wait")
    /\ UNCHANGED <<taskq, resq, slots, http, history>>

InBatch(s) == main = "slots" /\ s \in batch

(* A part of the prompt is processed or a token is generated: a completion  *)
(* that streams sends it.                                                   *)
SlotAdvances(s) ==
    /\ InBatch(s)
    /\ rounds[s] < MaxRounds
    /\ rounds' = [rounds EXCEPT ![s] = @ + 1]
    /\ \/ UNCHANGED <<resq, pc>>
       \/ /\ Mode(id_task[s]) = "stream"
          /\ Send(<<Result(id_task[s], "partial")>>)
    /\ batch' = batch \ {s}
    /\ UNCHANGED <<taskq, id_task, busy, main, cur, left, finished, req,
                   history>>

(* The last token, the embedding or the score; or, before the first round,  *)
(* a prompt that does not fit.                                              *)
SlotStops(s) ==
    /\ InBatch(s)
    /\ \E type \in {"final"} \cup (IF rounds[s] = 0 THEN {"error"} ELSE {}) :
          Send(<<Result(id_task[s], type)>>)
    /\ Release({s})
    /\ batch' = batch \ {s}
    /\ UNCHANGED <<main, cur, left, finished, req, history>>

(* llama_decode fails for a part of the batch: every slot is released, and  *)
(* an error is sent for every slot's id_task, the idle ones' included.      *)
DecodeFails ==
    /\ main = "slots"
    /\ batch # {}
    /\ fails < MaxFailures
    /\ Release(Slots)
    /\ Send([s \in Slots |-> Result(id_task[s], "error")])
    /\ fails' = fails + 1
    /\ batch' = {}
    /\ UNCHANGED <<main, cur, left, finished, req, ghosts, unreleased>>

(***************************************************************************)
(* Shutdown: the signal handler calls queue_tasks.terminate(); the loop     *)
(* ends; clean_up() calls svr->stop() and queue_results.terminate(), which  *)
(* clears running without the mutex; the main thread then joins the HTTP    *)
(* threads (external: httplib's).                                           *)
(***************************************************************************)
(* running is only looked at in "tasks" and in "wait": a signal that comes  *)
(* earlier is the same as one that comes there.                             *)
Signal ==
    /\ main \in {"tasks", "wait"}
    /\ running
    /\ running' = FALSE
    /\ UNCHANGED <<queue, deferred, resq, slots, loop, http, history>>

CleanUp ==
    /\ main = "stop"
    /\ resRunning' = FALSE
    /\ pc' = Woken
    /\ Goto("join")
    /\ UNCHANGED <<taskq, waiting, results, finals, slots, left, finished,
                   req, history>>

Join ==
    /\ main = "join"
    /\ \A c \in Clients : pc[c] \in {"new", "done", "gone"}
    /\ Goto("ended")
    /\ UNCHANGED <<taskq, resq, slots, http, history>>

MainStep ==
    \/ TakeTask \/ NoMoreTasks \/ Wait \/ LoopEnds
    \/ ProcessDefer \/ ProcessLaunch \/ ProcessAtOnce \/ ProcessCancel
    \/ ProcessNext
    \/ UpdateIdle \/ UpdateBatch \/ UpdateDone \/ DecodeFails
    \/ \E s \in Slots : SlotAdvances(s) \/ SlotStops(s)
    \/ CleanUp \/ Join

(* What an HTTP thread does by itself once it has posted its tasks. *)
ClientStep(c) ==
    \/ Post(c) \/ Take(c) \/ RecvTest(c) \/ RecvSleep(c)
    \/ RecvAborts(c) \/ CancelWaiting(c) \/ PostCancel(c) \/ Finish(c)

Next ==
    \/ MainStep
    \/ Signal
    \/ \E c \in Clients :
          AddWaiting(c) \/ Disconnected(c) \/ ClientStep(c)

(* Every thread keeps running; nothing makes a client call or disconnect,   *)
(* or a signal arrive.  A decode error is one of the outcomes of a step of  *)
(* the main thread, so that a run without any is fair too.                  *)
Spec == Init /\ [][Next]_vars /\ WF_vars(MainStep)
             /\ \A c \in Clients : WF_vars(ClientStep(c))

-----------------------------------------------------------------------------
(***************************************************************************)
(* Properties.                                                             *)
(***************************************************************************)

(* The types of the variables of server_queue, server_response, the slots   *)
(* and the threads.                                                         *)
TypeOK ==
    /\ queue \in Seq(Messages) /\ deferred \in Seq(Messages)
    /\ running \in BOOLEAN /\ resRunning \in BOOLEAN
    /\ waiting \subseteq Tasks /\ results \in Seq(Results)
    /\ id_task \in [Slots -> Tasks \cup {NoTask}]
    /\ busy \in [Slots -> BOOLEAN] /\ rounds \in [Slots -> 0 .. MaxRounds]
    /\ main \in {"tasks", "process", "update", "slots", "wait", "stop",
                 "join", "ended", "aborted"}
    /\ cur \in Messages /\ batch \subseteq Slots /\ req \in Requests
    /\ pc \in [Clients -> {"new", "post", "recv", "checked", "asleep",
                           "cancel", "finish", "done", "gone",
                           "dead"}]
    /\ left \in [Clients -> SUBSET Tasks] /\ finished \in [Clients -> Nat]
    /\ finals \in [Tasks -> Nat] /\ fails \in 0 .. MaxFailures
    /\ ghosts \subseteq Tasks /\ unreleased \in BOOLEAN

Receiving(c) == pc[c] \in {"recv", "checked", "asleep"}

(* How many times a task is queued, deferred, being looked at, or run. *)
Copies(t) ==
    Cardinality({i \in DOMAIN queue : queue[i] = Work(t)})
    + Cardinality({i \in DOMAIN deferred : deferred[i] = Work(t)})
    + (IF InHand(t) THEN 1 ELSE 0)
    + Cardinality({s \in Slots : busy[s] /\ id_task[s] = t})

(* No task is lost or run twice by the moves between the queue, the         *)
(* deferred tasks and the slots: as long as its client is registered and    *)
(* receiving and nothing that ends it has been sent, it is in exactly one   *)
(* of these places, and never in two.                                       *)
NoTaskLost ==
    \A t \in Tasks :
        /\ Copies(t) <= 1
        /\ (Receiving(Owner(t)) /\ t \in waiting /\ finals[t] = 0)
              => Copies(t) = 1

(* Unless a decode has failed, a task is answered at most once, and no      *)
(* result stays behind for a client that has left: recv()'s predicate would *)
(* be true for ever.                                                        *)
AnsweredOnce ==
    fails = 0 =>
        /\ \A t \in Tasks : finals[t] <= 1
        /\ \A i \in DOMAIN results :
              /\ results[i].id \in waiting
              /\ pc[Owner(results[i].id)] \notin {"done", "gone"}

(* A slot does not compute for a client that has cancelled: when a batch is *)
(* formed, a slot whose task was cancelled has its cancellation still in    *)
(* the queue, unless the task was pending when it was cancelled (the        *)
(* clean-up of post() leaves it there).                                     *)
NoGhostWork ==
    \A s \in Slots :
        /\ main = "slots" /\ busy[s]
        /\ pc[Owner(id_task[s])] = "gone"
        => \/ id_task[s] \in ghosts
           \/ Contains(queue, Cancel(id_task[s]))

(* The loop waits, every slot is idle, and a task stays deferred.  One      *)
(* deferred task is moved per released slot, which is not enough when the   *)
(* task that is moved uses up the release and releases nothing in its turn: *)
(* it is refused, it saves, restores or erases a slot, or it asks for a     *)
(* slot that does not exist and is deferred again.                          *)
Stranded ==
    /\ main = "wait" /\ queue = <<>>
    /\ deferred # <<>>
    /\ \A s \in Slots : ~busy[s]
    /\ unreleased

(* post() of a cancellation: "make sure to clean up pending tasks".         *)
CancelledNotPending ==
    \A c \in Clients : pc[c] = "gone" => \A t \in TasksOf(c) : ~Pending(t)

(* Every request that has been posted ends (its client has all its results, *)
(* an error, or has been found gone), unless the server is stopped or the   *)
(* request is stranded by a task that released nothing, its own if that     *)
(* asks for a slot that does not exist: otherwise one deferred task per     *)
(* released slot is enough.                                                 *)
Answered ==
    \A c \in Clients : pc[c] = "recv" ~> (pc[c] \in {"done", "gone"} \/ ~running \/ Stranded)

(* After a signal the process ends, by itself or by std::terminate() in a   *)
(* receiver, unless a thread is asleep in recv(): terminate() of the        *)
(* results may clear running between its test and its sleep.                *)
ShutdownEnds ==
    ~running ~> (~Alive \/ \E c \in Clients : pc[c] = "asleep" /\ ~resRunning)
=============================================================================
