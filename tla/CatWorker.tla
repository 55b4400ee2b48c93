------------------------------ MODULE CatWorker ------------------------------
(***************************************************************************)
(* apps/shell/cyberdeck_cat_worker.cpp: files are read for the console by  *)
(* a worker with a queue; the answers come back as asynchronous calls of   *)
(* LVGL.  The worker is started and torn down with the user interface and  *)
(* stopped for good by the shutdown task, each with a deadline.            *)
(* A region under s_lifecycle_mutex is a step; only the delivery, which    *)
(* keeps the lock over the callback, is two, and a stop that waits for the *)
(* lock may give up meanwhile.                                             *)
(***************************************************************************)
EXTENDS Naturals, Sequences

CONSTANTS
    WorkCapacity,     \* k_cat_work_queue_capacity
    MaxRequests,  \* bound on accepted requests
    MaxSessions   \* bound on starts

ASSUME CatLimits == WorkCapacity \in Nat \ {0} /\ MaxRequests \in Nat /\ MaxSessions \in Nat

Stoppers == {"teardown", "quiesce"}

VARIABLES
    work,        \* requests in s_queue
    task,        \* s_task and s_queue, which are made and released together, are there
    worker,      \* where cat_worker_task() is, and the request it has
    closing,     \* s_closing
    shutdown,    \* s_shutdown
    disabled,    \* s_delivery_disabled
    sessionNow,  \* s_generation
    callback,    \* s_callback # nullptr
    stopped,     \* s_stopped can be taken
    notified,    \* the notification of the worker's task
    results,     \* results in LVGL's list
    delivering,  \* the result whose callback runs, under the lock
    stop,        \* where each caller of stop_cat_worker() is
    session,     \* history: the generation each request was accepted in
    lost,        \* history: requests whose result could not be allocated or scheduled
    answered     \* history: requests whose callback ran

catVars == <<work, task, worker, closing, shutdown, disabled, sessionNow, callback, stopped,
          notified, results, delivering, stop, session, lost, answered>>

Requests == 1 .. MaxRequests
Accepted == DOMAIN session
Result == [id : Requests, generation : Nat]
None == [id |-> 0, generation |-> 0]
Free == delivering = None            \* s_lifecycle_mutex
NoWorker == [pc |-> "none", id |-> 0]

CatTypeOK ==
    /\ work \in Seq(Requests) /\ Len(work) <= WorkCapacity
    /\ worker \in [pc : {"none", "receive", "timed_out", "read", "post", "exit"}, id : 0 .. MaxRequests]
    /\ results \subseteq Result /\ delivering \in Result \cup {None}
    /\ stop \in [Stoppers -> {"out", "entry", "notify", "wait", "relock"}]
    /\ {task, closing, shutdown, disabled, callback, stopped, notified} \subseteq BOOLEAN
    /\ sessionNow \in 0 .. MaxSessions /\ lost \cup answered \subseteq Accepted

CatInit ==
    /\ work = <<>> /\ task = FALSE /\ worker = NoWorker
    /\ closing = FALSE /\ shutdown = FALSE /\ disabled = FALSE
    /\ sessionNow = 0 /\ callback = FALSE /\ stopped = FALSE /\ notified = FALSE
    /\ results = {} /\ delivering = None
    /\ stop = [s \in Stoppers |-> "out"]
    /\ session = <<>> /\ lost = {} /\ answered = {}

-----------------------------------------------------------------------------
(* The user interface: cyberdeck_cat_worker_start() and _enqueue() *)

UiIsFree == Free /\ stop["teardown"] = "out"

\* A worker that exists is not replaced, even one that is closing.
StartWorker ==
    /\ UiIsFree /\ ~shutdown /\ ~task /\ sessionNow < MaxSessions
    /\ stopped' = FALSE /\ sessionNow' = sessionNow + 1
    /\ disabled' = FALSE
    /\ \/ /\ work' = <<>> /\ task' = TRUE
          /\ worker' = [pc |-> "receive", id |-> 0] /\ notified' = FALSE
          /\ closing' = FALSE /\ callback' = TRUE
       \/ /\ work' = <<>>    \* no memory for the queue or the task
          /\ closing' = TRUE /\ callback' = FALSE /\ UNCHANGED <<task, worker, notified>>
    /\ UNCHANGED <<shutdown, results, delivering, stop, session, lost, answered>>

\* Slip: the result of the send is not looked at.
EnqueueUnchecked ==
    /\ UiIsFree /\ ~shutdown /\ ~disabled /\ ~closing /\ task
    /\ Len(session) < MaxRequests
    /\ work' = IF Len(work) < WorkCapacity THEN Append(work, Len(session) + 1) ELSE work
    /\ session' = Append(session, sessionNow)
    /\ UNCHANGED <<task, worker, closing, shutdown, disabled, sessionNow, callback, stopped,
                   notified, results, delivering, stop, lost, answered>>

Enqueue ==
    /\ UiIsFree /\ ~shutdown /\ ~disabled /\ ~closing /\ task
    /\ Len(work) < WorkCapacity /\ Len(session) < MaxRequests
    /\ work' = Append(work, Len(session) + 1)
    /\ session' = Append(session, sessionNow)
    /\ UNCHANGED <<task, worker, closing, shutdown, disabled, sessionNow, callback, stopped,
                   notified, results, delivering, stop, lost, answered>>

-----------------------------------------------------------------------------
(* cat_worker_task() *)

WorkerOnly == UNCHANGED <<task, closing, shutdown, disabled, sessionNow, callback,
                          delivering, stop, session, answered>>

Receive ==
    /\ worker.pc = "receive" /\ work # <<>>
    /\ work' = Tail(work) /\ worker' = [pc |-> "read", id |-> Head(work)]
    /\ WorkerOnly /\ UNCHANGED <<stopped, notified, results, lost>>

\* Nothing came: a notification ends the worker.
TimeOut ==
    /\ worker.pc = "receive" /\ work = <<>>
    /\ worker' = [worker EXCEPT !.pc = IF notified THEN "exit" ELSE "timed_out"]
    /\ notified' = FALSE
    /\ WorkerOnly /\ UNCHANGED <<work, stopped, results, lost>>

LookAtClosing ==
    /\ worker.pc = "timed_out" /\ Free
    /\ worker' = [worker EXCEPT !.pc = IF closing THEN "exit" ELSE "receive"]
    /\ WorkerOnly /\ UNCHANGED <<work, stopped, notified, results, lost>>

\* The closing flag is looked at before the file is read, under a read lease.
Read ==
    /\ worker.pc = "read" /\ Free
    /\ worker' = [worker EXCEPT !.pc = IF closing THEN "exit" ELSE "post"]
    /\ WorkerOnly /\ UNCHANGED <<work, stopped, notified, results, lost>>

Post ==
    /\ worker.pc = "post" /\ Free
    /\ worker' = [pc |-> "receive", id |-> 0]
    /\ \/ /\ ~closing /\ ~disabled
          /\ results' = results \cup {[id |-> worker.id, generation |-> sessionNow]} /\ UNCHANGED lost
       \/ /\ closing \/ disabled
          /\ UNCHANGED <<results, lost>>
       \/ lost' = lost \cup {worker.id} /\ UNCHANGED results
    /\ WorkerOnly /\ UNCHANGED <<work, stopped, notified>>

Exit ==
    /\ worker.pc = "exit"
    /\ worker' = NoWorker /\ stopped' = TRUE
    /\ WorkerOnly /\ UNCHANGED <<work, notified, results, lost>>

-----------------------------------------------------------------------------
(* deliver_cat_result(), in the task of LVGL *)

DeliverOnly == UNCHANGED <<work, task, worker, closing, shutdown, disabled, sessionNow,
                           callback, stopped, notified, stop, session, lost>>

\* Slip: the result of an earlier session is taken for one of this session.
WantedByAnyone(r) == ~closing /\ ~disabled /\ callback
Wanted(r) == ~closing /\ ~disabled /\ r.generation = sessionNow /\ callback

Deliver(r) ==
    /\ UiIsFree /\ r \in results
    /\ results' = results \ {r}
    /\ delivering' = IF Wanted(r) THEN r ELSE None
    /\ DeliverOnly /\ UNCHANGED answered

DeliverEnds ==
    /\ ~Free
    /\ delivering' = None /\ answered' = answered \cup {delivering.id}
    /\ DeliverOnly /\ UNCHANGED results

-----------------------------------------------------------------------------
(* stop_cat_worker(), by the user interface and by the shutdown task *)

StopOnly == UNCHANGED <<worker, sessionNow, results, delivering, session, lost, answered>>
At(s, pc) == stop[s] = pc
GoTo(s, pc) == stop' = [stop EXCEPT ![s] = pc]

StopBegins(s) ==
    /\ At(s, "out")
    /\ s = "teardown" => Free
    /\ GoTo(s, "entry") /\ disabled' = TRUE
    /\ shutdown' = (shutdown \/ s = "quiesce")
    /\ StopOnly /\ UNCHANGED <<work, task, closing, callback, stopped, notified>>

\* The lock is not free in time; before the first start there is none.
StopRefused(s) ==
    /\ At(s, "entry") /\ (~Free \/ sessionNow = 0)
    /\ GoTo(s, "out")
    /\ StopOnly /\ UNCHANGED <<work, task, closing, shutdown, disabled, callback, stopped, notified>>

StopWithoutTask(s) ==
    /\ At(s, "entry") /\ Free /\ ~task
    /\ GoTo(s, "out")
    /\ closing' = TRUE /\ callback' = FALSE /\ work' = <<>>
    /\ StopOnly /\ UNCHANGED <<task, shutdown, disabled, stopped, notified>>

StopCloses(s) ==
    /\ At(s, "entry") /\ Free /\ task
    /\ GoTo(s, "notify")
    /\ closing' = TRUE /\ callback' = FALSE
    /\ StopOnly /\ UNCHANGED <<work, task, shutdown, disabled, stopped, notified>>

\* The handle was copied under the lock; the worker may be gone meanwhile.
StopNotifies(s) ==
    /\ At(s, "notify")
    /\ GoTo(s, "wait")
    /\ notified' = (notified \/ worker # NoWorker)
    /\ StopOnly /\ UNCHANGED <<work, task, closing, shutdown, disabled, callback, stopped>>

StopJoins(s) ==
    /\ At(s, "wait") /\ stopped
    /\ GoTo(s, "relock") /\ stopped' = FALSE
    /\ StopOnly /\ UNCHANGED <<work, task, closing, shutdown, disabled, callback, notified>>

\* Slip: a stop that gives up releases the queue as if the worker had ended.
StopTimesOutReleasing(s) ==
    /\ At(s, "wait")
    /\ GoTo(s, "out") /\ work' = <<>> /\ task' = FALSE
    /\ StopOnly /\ UNCHANGED <<closing, shutdown, disabled, callback, stopped, notified>>

\* The worker does not end in time: everything is kept.
StopTimesOut(s) ==
    /\ At(s, "wait")
    /\ GoTo(s, "out")
    /\ StopOnly /\ UNCHANGED <<work, task, closing, shutdown, disabled, callback, stopped, notified>>

StopReleases(s) ==
    /\ At(s, "relock")
    /\ GoTo(s, "out")
    /\ \/ /\ Free
          /\ work' = <<>> /\ task' = FALSE /\ UNCHANGED stopped
       \/ ~Free /\ stopped' = TRUE /\ UNCHANGED <<work, task>>
    /\ StopOnly /\ UNCHANGED <<closing, shutdown, disabled, callback, notified>>

-----------------------------------------------------------------------------
WorkerNext == Receive \/ TimeOut \/ LookAtClosing \/ Read \/ Post \/ Exit
StopNext(s) == StopBegins(s) \/ StopRefused(s) \/ StopWithoutTask(s) \/ StopCloses(s) \/ StopNotifies(s)
               \/ StopJoins(s) \/ StopTimesOut(s) \/ StopReleases(s)
CatNext ==
    \/ StartWorker \/ Enqueue \/ DeliverEnds \/ WorkerNext
    \/ \E r \in results : Deliver(r)
    \/ \E s \in Stoppers : StopNext(s)

\* The worker is a task that runs, the file system answers, LVGL runs its calls
\* and the callback returns.
CatFairness ==
    /\ WF_catVars(WorkerNext) /\ WF_catVars(DeliverEnds)
    /\ \A r \in [id : Requests, generation : 1 .. MaxSessions] : WF_catVars(Deliver(r))
    /\ \A s \in Stoppers : WF_catVars(StopNext(s) /\ ~At(s, "out"))

CatSpec == CatInit /\ [][CatNext]_catVars /\ CatFairness

-----------------------------------------------------------------------------
\* The queue and the state of a worker are there as long as it runs, whichever
\* of two stops gives up (cat_worker.h: "joins the worker before releasing").
QueueOutlivesWorker == worker.pc \notin {"none", "exit"} => task

\* An answer reaches only the session that asked for it, however late LVGL calls,
\* and no stop releases the context of the callback while it runs.
AnswersTheAsker ==
    ~Free => /\ session[delivering.id] = sessionNow
             /\ callback

\* What was accepted is answered, or its session is torn down, or memory is out.
Awaited(i) ==
    /\ i \in Accepted /\ session[i] = sessionNow
    /\ ~disabled /\ ~closing /\ i \notin lost \cup answered
AcceptedIsAnswered == \A i \in Requests : Awaited(i) ~> ~Awaited(i)
=============================================================================
