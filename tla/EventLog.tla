------------------------------ MODULE EventLog ------------------------------
(***************************************************************************)
(* The event log of event_log.cpp and its permanent stop.  Any task logs:  *)
(*   - a plain event is put into s_queue, or dropped when that is full;    *)
(*   - a durable event is put into s_durable_queue, in three attempts, and *)
(*     its caller waits 250 ms for the binary worker to have it on the     *)
(*     card;                                                               *)
(*   - a reader of the text projection only holds a lease, like the caller *)
(*     whose event is dropped.                                             *)
(* log_task() owns events.log and feeds text_log_task(), which owns the    *)
(* projection.  event_log_quiesce() closes admission, tells both workers   *)
(* to stop and waits, with a deadline, for the leases and the workers; it  *)
(* may be called again.                                                    *)
(*                                                                         *)
(* A call is a constant and is made once, or not.  Of the events that      *)
(* nobody waits for only the number matters.  What an event says, what a   *)
(* durable call returns, the recent events, the rotation of the projection *)
(* and the mutex around its files (a reader gets it or gives up after      *)
(* 100 ms) are left out.  The notification of the binary worker is too: it *)
(* waits for it one second at most.                                        *)
(***************************************************************************)
EXTENDS Naturals, Sequences, FiniteSets

CONSTANTS
    Plain,          \* the calls that wait for nothing: plain events and reads
    Durable,        \* the calls of event_log_write_durable()
    None,           \* no call
    QueueLength,    \* QUEUE_LENGTH, of s_queue and of s_text_queue
    DurableLength,  \* DURABLE_QUEUE_LENGTH
    Attempts,       \* to enqueue a durable event: 3
    MaxCalls        \* bound on the calls that are made

Calls == Plain \cup Durable

ASSUME EventLogLimits ==
    /\ {QueueLength, DurableLength, Attempts, MaxCalls} \subseteq Nat \ {0}
    /\ IsFiniteSet(Calls) /\ None \notin Calls
    /\ Plain \cap Durable = {}

VARIABLES
    life,       \* s_lifecycle, from OPEN on
    ops,        \* s_active_ops
    stop,       \* s_stop_requested
    failed,     \* s_binary_failed
    changed,    \* s_quiesce_changed holds a token
    logDone,    \* s_log_complete
    textDone,   \* s_text_complete
    queued,     \* events in s_queue
    durable,    \* s_durable_queue
    projected,  \* events in s_text_queue
    file,       \* log_task() has events.log open
    log, item,  \* where log_task() is, and the durable event it has taken
    text,       \* where text_log_task() is
    at,         \* where each call is
    tries,      \* its failed attempts
    refs,       \* the references of its request (0: deleted)
    acked,      \* its completion semaphore
    quiescer    \* where event_log_quiesce() is

workers == <<file, log, item, text, logDone, textDone, failed>>
queues == <<queued, durable, projected>>
calls == <<at, tries, refs, acked>>
quiesce == <<life, stop, quiescer>>
logVars == <<workers, queues, calls, quiesce, ops, changed>>

Places == {"new", "loaded", "counted", "admitted", "sent", "unsent", "waiting", "again", "done"}

EventLogInit ==
    /\ life = "open" /\ ops = 0 /\ quiescer = "idle"
    /\ stop = FALSE /\ failed = FALSE /\ changed = FALSE
    /\ logDone = FALSE /\ textDone = FALSE /\ file = FALSE
    /\ queued = 0 /\ durable = <<>> /\ projected = 0
    /\ log = "turn" /\ item = None /\ text = "receive"
    /\ at = [c \in Calls |-> "new"]
    /\ tries = [c \in Durable |-> 0]
    /\ refs = [c \in Durable |-> 0]
    /\ acked = [c \in Durable |-> FALSE]

-----------------------------------------------------------------------------
(* Callers.  OperationLease reads the state, counts itself, and reads it   *)
(* again.                                                                  *)

Goes(c, place) == at' = [at EXCEPT ![c] = place]

\* release_durable_request(): whoever drops the last reference deletes it.
Unreferenced(c) == [refs EXCEPT ![c] = @ - 1]

\* A durable call has its request before it asks for the lease, and tests the state
\* before that.
Made == {c \in Calls : at[c] # "new"}

Load(c) ==
    /\ at[c] = "new" => Cardinality(Made) < MaxCalls
    /\ \/ /\ at[c] = "new" /\ life = "open"
          /\ Goes(c, "loaded")
          /\ refs' = IF c \in Durable THEN [refs EXCEPT ![c] = 1] ELSE refs
       \/ /\ at[c] = "new" /\ life # "open"
          /\ Goes(c, "done")
          /\ UNCHANGED refs
       \/ /\ at[c] = "again" /\ life = "open"
          /\ Goes(c, "loaded")
          /\ UNCHANGED refs
       \/ /\ at[c] = "again" /\ life # "open"
          /\ Goes(c, "done")
          /\ refs' = Unreferenced(c)
    /\ UNCHANGED <<workers, queues, quiesce, ops, changed, tries, acked>>

Count(c) ==
    /\ at[c] = "loaded"
    /\ ops' = ops + 1
    /\ Goes(c, "counted")
    /\ UNCHANGED <<workers, queues, quiesce, changed, tries, refs, acked>>

\* Whoever ends the last lease wakes the quiescer.
EndLease ==
    /\ ops' = ops - 1
    /\ changed' = (changed \/ ops = 1)

\* Mutant: the state is not read again.
AdmittedAnyway(c) ==
    /\ Goes(c, "admitted")
    /\ UNCHANGED <<ops, changed, refs>>

Recheck(c) ==
    \/ /\ life = "open"
       /\ Goes(c, "admitted")
       /\ UNCHANGED <<ops, changed, refs>>
    \/ /\ life # "open"
       /\ EndLease
       /\ Goes(c, "done")
       /\ refs' = IF c \in Durable THEN Unreferenced(c) ELSE refs

Admit(c) ==
    /\ at[c] = "counted"
    /\ Recheck(c)
    /\ UNCHANGED <<workers, queues, quiesce, tries, acked>>

\* enqueue_record(), whose event is dropped when the queue is full, or one of
\* event_log_text_size() and event_log_text_read(), which keep the lease until the
\* last of their files is closed.
SendOrRead(c) ==
    /\ c \in Plain /\ at[c] = "admitted"
    /\ \/ queued < QueueLength /\ queued' = queued + 1
       \/ UNCHANGED queued
    /\ Goes(c, "sent")
    /\ UNCHANGED <<workers, durable, projected, quiesce, ops, changed, tries, refs, acked>>

Unshared(c) == refs         \* mutant: the reference of the worker is forgotten

\* The references are stored before the request is sent, and taken back when the
\* queue refuses it.
Shared(c) == [refs EXCEPT ![c] = 2]

SendDurable(c) ==
    /\ c \in Durable /\ at[c] = "admitted"
    /\ \/ /\ Len(durable) < DurableLength
          /\ durable' = Append(durable, c)
          /\ refs' = Shared(c)
          /\ Goes(c, "sent")
       \/ /\ Len(durable) = DurableLength
          /\ Goes(c, "unsent")
          /\ UNCHANGED <<durable, refs>>
    /\ UNCHANGED <<workers, queued, projected, quiesce, ops, changed, tries, acked>>

\* Mutant: the acknowledgement is waited for under the lease.
LeavesAfterAck(c) == at[c] = "sent" /\ (c \in Durable => acked[c])

\* The end of the scope of the lease, before the wait for the acknowledgement.
Leaves(c) == at[c] = "sent"

LeaveSent(c) ==
    /\ Leaves(c)
    /\ EndLease
    /\ Goes(c, IF c \in Durable THEN "waiting" ELSE "done")
    /\ UNCHANGED <<workers, queues, quiesce, tries, refs, acked>>

LeaveUnsent(c) ==
    /\ at[c] = "unsent"
    /\ EndLease
    /\ tries' = [tries EXCEPT ![c] = @ + 1]
    /\ \/ tries'[c] < Attempts /\ Goes(c, "again") /\ UNCHANGED refs
       \/ tries'[c] = Attempts /\ Goes(c, "done") /\ refs' = Unreferenced(c)
    /\ UNCHANGED <<workers, queues, quiesce, acked>>

TakeAck(c) ==
    /\ c \in Durable /\ at[c] = "waiting" /\ acked[c]
    /\ acked' = [acked EXCEPT ![c] = FALSE]
    /\ refs' = Unreferenced(c)
    /\ Goes(c, "done")
    /\ UNCHANGED <<workers, queues, quiesce, ops, changed, tries>>

AckTimesOut(c) ==
    /\ c \in Durable /\ at[c] = "waiting"
    /\ refs' = Unreferenced(c)
    /\ Goes(c, "done")
    /\ UNCHANGED <<workers, queues, quiesce, ops, changed, tries, acked>>

CallerStep(c) ==
    \/ Load(c) \/ Count(c) \/ Admit(c) \/ SendOrRead(c) \/ SendDurable(c)
    \/ LeaveSent(c) \/ LeaveUnsent(c) \/ TakeAck(c)

-----------------------------------------------------------------------------
(* log_task().  A turn opens the file, then takes one durable event, or    *)
(* one plain event, or tests whether to stop.                              *)

\* open_log_file(): after a failure the next attempt is five seconds away.
OpenFile ==
    \/ ~file /\ file' = TRUE /\ UNCHANGED failed
    \/ ~file /\ failed' = TRUE /\ UNCHANGED file
    \/ (file \/ failed) /\ UNCHANGED <<file, failed>>

BeginTurn ==
    /\ log = "turn"
    /\ OpenFile
    /\ \/ /\ durable # <<>>
          /\ item' = Head(durable) /\ durable' = Tail(durable)
          /\ log' = "persist"
       \/ /\ durable = <<>>
          /\ log' = "plain"
          /\ UNCHANGED <<item, durable>>
    /\ UNCHANGED <<text, logDone, textDone, queued, projected, calls, quiesce, ops, changed>>

\* The projection takes what it has room for.
Project == projected' = IF projected < QueueLength THEN projected + 1 ELSE projected

\* complete_durable_request().  The failure of a write is the caller's to report.
Persist ==
    /\ log = "persist"
    /\ \/ file /\ Project /\ UNCHANGED failed
       \/ file /\ UNCHANGED <<projected, failed>>
       \/ ~file /\ failed' = TRUE /\ UNCHANGED projected
    /\ acked' = [acked EXCEPT ![item] = TRUE]
    /\ log' = "release"
    /\ UNCHANGED <<file, item, text, logDone, textDone, queued, durable, at, tries, refs, quiesce, ops, changed>>

ReleaseRequest ==
    /\ log = "release"
    /\ refs' = Unreferenced(item)
    /\ item' = None
    /\ log' = "turn"
    /\ UNCHANGED <<file, text, logDone, textDone, failed, queues, at, tries, acked, quiesce, ops, changed>>

\* A plain event without a file is only remembered; one that cannot be written
\* closes the file as well.
WritePlain ==
    /\ log = "plain" /\ queued > 0
    /\ queued' = queued - 1
    /\ \/ file /\ Project /\ UNCHANGED <<file, failed>>
       \/ file /\ failed' = TRUE /\ file' = FALSE /\ UNCHANGED projected
       \/ ~file /\ UNCHANGED <<file, failed, projected>>
    /\ log' = "turn"
    /\ UNCHANGED <<item, text, logDone, textDone, durable, calls, quiesce, ops, changed>>

NothingQueued ==
    /\ log = "plain" /\ queued = 0
    /\ log' = "stop"
    /\ UNCHANGED <<file, item, text, logDone, textDone, failed, queues, calls, quiesce, ops, changed>>

TestStop ==
    /\ log = "stop"
    /\ log' = IF stop THEN "close" ELSE "turn"
    /\ UNCHANGED <<file, item, text, logDone, textDone, failed, queues, calls, quiesce, ops, changed>>

CloseFile ==
    /\ log = "close"
    /\ failed' \in {failed, failed \/ file}
    /\ file' = FALSE
    /\ log' = "gone"
    /\ logDone' = TRUE /\ changed' = TRUE
    /\ UNCHANGED <<item, text, textDone, queues, calls, quiesce, ops>>

LogStep == BeginTurn \/ Persist \/ ReleaseRequest \/ WritePlain \/ NothingQueued \/ TestStop \/ CloseFile

-----------------------------------------------------------------------------
(* text_log_task()                                                         *)

TextReceive ==
    /\ text \in {"receive", "recheck"} /\ projected > 0
    /\ projected' = projected - 1
    /\ text' = "receive"
    /\ UNCHANGED <<file, log, item, logDone, textDone, failed, queued, durable, calls, quiesce, ops, changed>>

\* The receive has timed out; the tests of the two flags come after it.
TextTimesOut ==
    /\ text = "receive" /\ projected = 0
    /\ text' = "look"
    /\ UNCHANGED <<file, log, item, logDone, textDone, failed, queues, calls, quiesce, ops, changed>>

AfterLook == IF stop /\ logDone THEN "recheck" ELSE "receive"

TextLooks ==
    /\ text = "look"
    /\ text' = AfterLook
    /\ UNCHANGED <<file, log, item, logDone, textDone, failed, queues, calls, quiesce, ops, changed>>

TextEnds ==
    /\ text = "leave" \/ (text = "recheck" /\ projected = 0)
    /\ text' = "gone"
    /\ textDone' = TRUE /\ changed' = TRUE
    /\ UNCHANGED <<file, log, item, logDone, failed, queues, calls, quiesce, ops>>

TextStep == TextReceive \/ TextTimesOut \/ TextLooks \/ TextEnds

-----------------------------------------------------------------------------
(* event_log_quiesce()                                                     *)

BeginQuiesce ==
    /\ quiescer = "idle" /\ life # "closed"
    /\ life' = "closing"
    /\ quiescer' = "signal"
    /\ UNCHANGED <<workers, queues, calls, stop, ops, changed>>

SignalStop ==
    /\ quiescer = "signal"
    /\ stop' = TRUE
    /\ quiescer' = "leases"
    /\ UNCHANGED <<workers, queues, calls, life, ops, changed>>

LookAtLeases ==
    /\ quiescer = "leases"
    /\ quiescer' = IF ops = 0 THEN "workers" ELSE "wait"
    /\ UNCHANGED <<workers, queues, calls, life, stop, ops, changed>>

WorkersDone == logDone /\ textDone

LookAtWorkers ==
    /\ quiescer = "workers"
    /\ \/ ~WorkersDone /\ quiescer' = "wait" /\ UNCHANGED life
       \/ WorkersDone /\ failed /\ quiescer' = "idle" /\ UNCHANGED life
       \/ WorkersDone /\ ~failed /\ quiescer' = "idle" /\ life' = "closed"
    /\ UNCHANGED <<workers, queues, calls, stop, ops, changed>>

Wake ==
    /\ quiescer = "wait" /\ changed
    /\ changed' = FALSE
    /\ quiescer' = "leases"
    /\ UNCHANGED <<workers, queues, calls, life, stop, ops>>

QuiesceTimesOut ==
    /\ quiescer = "wait"
    /\ quiescer' = "idle"
    /\ UNCHANGED <<workers, queues, calls, life, stop, ops, changed>>

QuiesceStep == SignalStop \/ LookAtLeases \/ LookAtWorkers \/ Wake

-----------------------------------------------------------------------------
EventLogNext ==
    \/ \E c \in Calls : CallerStep(c) \/ AckTimesOut(c)
    \/ LogStep \/ TextStep
    \/ BeginQuiesce \/ QuiesceStep \/ QuiesceTimesOut

\* The workers, and the callers and the stop that are under way, are tasks that run.
\* Nobody has to call, and no deadline has to expire.
LogFairness ==
    /\ \A c \in Calls : WF_logVars(c \in Made /\ CallerStep(c))
    /\ WF_logVars(LogStep) /\ WF_logVars(TextStep) /\ WF_logVars(QuiesceStep)

LogSpec == EventLogInit /\ [][EventLogNext]_logVars
FairLogSpec == LogSpec /\ LogFairness

-----------------------------------------------------------------------------
EventLogTypeOK ==
    /\ life \in {"open", "closing", "closed"} /\ ops \in Nat
    /\ {stop, failed, changed, logDone, textDone, file} \subseteq BOOLEAN
    /\ {queued, projected} \subseteq 0 .. QueueLength /\ durable \in Seq(Durable)
    /\ log \in {"turn", "persist", "release", "plain", "stop", "close", "gone"}
    /\ item \in Durable \cup {None}
    /\ text \in {"receive", "look", "recheck", "leave", "gone"}
    /\ at \in [Calls -> Places] /\ tries \in [Durable -> 0 .. Attempts]
    /\ refs \in [Durable -> Nat] /\ acked \in [Durable -> BOOLEAN]
    /\ quiescer \in {"idle", "signal", "leases", "workers", "wait"}

InQueue(c) == \E i \in 1 .. Len(durable) : durable[i] = c
CallerUses(c) == at[c] \notin {"new", "done"}
WorkerUses(c) == InQueue(c) \/ item = c

\* A request of a durable event is deleted by the last of the two that use it, the
\* caller and the worker, whichever of them is late, and never under the other
\* (release_durable_request() and the references of event_log_write_durable()).
RequestsAreOwned ==
    \A c \in Durable :
        refs[c] = (IF CallerUses(c) THEN 1 ELSE 0) + (IF WorkerUses(c) THEN 1 ELSE 0)

\* Once the log is closed no call is admitted and no worker is left, whatever a caller
\* had read before: nothing of the log touches the card that is unmounted next
\* (OperationLease and event_log_quiesce()).
NothingAfterClosed ==
    life = "closed" =>
        /\ \A c \in Calls : at[c] \notin {"admitted", "sent", "unsent"}
        /\ log = "gone" /\ text = "gone" /\ ~file

\* A log that is closed has written out every projection that was queued, although the
\* binary worker may queue one between the time-out and the last test of the text
\* worker (text_log_task()).
ProjectionIsDrained == life = "closed" => projected = 0

\* The stop returns, with the leases and the workers gone, even when no deadline ever
\* expires: it misses no signal, and nobody waits for the acknowledgement of a worker
\* that is gone while the stop waits for him (event_log_quiesce(), and the wait outside
\* the lease in event_log_write_durable()).
QuiesceReturns == (quiescer # "idle") ~> (quiescer = "idle")

\* What event_log.h says of event_log_quiesce(): it "drains admitted callers and
\* workers".  An admitted event is not in a queue of a closed log.
AdmittedAreDrained == life = "closed" => queued = 0 /\ durable = <<>>
=============================================================================
