--------------------------- MODULE NetCoordinator ---------------------------
(***************************************************************************)
(* The pure coordinator of Wi-Fi and SSH teardown:                         *)
(* platform/networking/cyberdeck_net_coordinator.  Every method is an      *)
(* operator on the coordinator's record, so that a caller which makes      *)
(* several calls under one lock can compose them.                          *)
(***************************************************************************)
EXTENDS Naturals, Sequences

CONSTANTS
    Capacity,         \* QUEUE_CAPACITY
    CriticalReserve,  \* CRITICAL_RESERVE: places kept for commands and teardown
    MaxErrors         \* model bound on the accepted socket errors

ASSUME CapacityAssumption ==
    /\ Capacity \in Nat /\ CriticalReserve \in Nat
    /\ 4 <= CriticalReserve /\ CriticalReserve <= Capacity
ASSUME MaxErrorsAssumption == MaxErrors \in Nat

VARIABLES
    coord,    \* the coordinator object
    errors,   \* socket errors it took
    notices   \* SSH_OFFLINE notices its sink was called with

vars == <<coord, errors, notices>>

Phases == {"OFFLINE", "CONNECTING", "ONLINE", "TEARDOWN_IN_PROGRESS", "TEARDOWN_DONE", "OFFLINE_ERROR"}
Items == {"TEARDOWN_SSH", "TEARDOWN_WIFI", "RUN_SCAN", "RUN_RETRY", "CANCEL_CONNECT",
          "WIFI_DISCONNECT", "SSH_OFFLINE"}
Coordinators == [phase : Phases, active : BOOLEAN, queue : Seq(Items), sink : BOOLEAN]

\* A new object, and what reset() leaves.
NewCoordinator == [phase |-> "OFFLINE", active |-> TRUE, queue |-> <<>>, sink |-> FALSE]

-----------------------------------------------------------------------------
(* The methods *)

\* contains(), has_pending_work(work), has_pending_notice()
Pending(k, item) == \E i \in DOMAIN k.queue : k.queue[i] = item

HasRoom(k, critical) ==
    /\ Len(k.queue) < Capacity
    /\ critical \/ Len(k.queue) < Capacity - CriticalReserve

Enqueue(k, item, critical) ==
    IF HasRoom(k, critical) THEN [k EXCEPT !.queue = Append(@, item)] ELSE k

EnqueueOnce(k, item, critical) ==
    IF Pending(k, item) THEN k ELSE Enqueue(k, item, critical)

TearingDown(k) == k.phase = "TEARDOWN_IN_PROGRESS"

AcceptsWork(k) == k.active /\ ~TearingDown(k)

OnSessionConnecting(k) ==
    IF k.active /\ k.phase \in {"OFFLINE", "OFFLINE_ERROR"} THEN [k EXCEPT !.phase = "CONNECTING"] ELSE k

OnSessionOnline(k) ==
    IF k.active /\ k.phase = "CONNECTING" THEN [k EXCEPT !.phase = "ONLINE"] ELSE k

TakesSocketError(k) == k.active /\ k.phase \in {"CONNECTING", "ONLINE"}

\* Slip: the notice is queued again for every report of the same error.
OnSocketErrorRepeating(k) ==
    IF k.active /\ k.phase \in {"CONNECTING", "ONLINE", "OFFLINE_ERROR"}
    THEN Enqueue([k EXCEPT !.phase = "OFFLINE_ERROR"], "SSH_OFFLINE", FALSE)
    ELSE k

OnSocketError(k) ==
    IF TakesSocketError(k)
    THEN EnqueueOnce([k EXCEPT !.phase = "OFFLINE_ERROR"], "SSH_OFFLINE", FALSE)
    ELSE k

\* Slip: a repeated disconnect queues the pair again.
RequestDisconnectAgain(k) ==
    IF k.active
    THEN Enqueue(Enqueue([k EXCEPT !.phase = "TEARDOWN_IN_PROGRESS"], "TEARDOWN_SSH", TRUE), "TEARDOWN_WIFI", TRUE)
    ELSE k

RequestDisconnect(k) ==
    IF AcceptsWork(k)
    THEN Enqueue(Enqueue([k EXCEPT !.phase = "TEARDOWN_IN_PROGRESS"], "TEARDOWN_SSH", TRUE), "TEARDOWN_WIFI", TRUE)
    ELSE k

\* request_wifi_disconnect, request_scan, request_retry, request_cancel_connect
RequestWork(k, item, critical) == IF AcceptsWork(k) THEN EnqueueOnce(k, item, critical) ELSE k

RequestWifiDisconnect(k) == RequestWork(k, "WIFI_DISCONNECT", TRUE)
RequestScan(k) == RequestWork(k, "RUN_SCAN", FALSE)
RequestRetry(k) == RequestWork(k, "RUN_RETRY", FALSE)

\* Slip: cancelling is queued like ordinary work.
RequestCancelOrdinary(k) == RequestWork(k, "CANCEL_CONNECT", FALSE)

RequestCancelConnect(k) == RequestWork(k, "CANCEL_CONNECT", TRUE)

OnScanTimerTick(k, enabled, saved, connected) ==
    IF enabled /\ ~saved /\ ~connected THEN RequestScan(k) ELSE k
OnRetryTimerTick(k, enabled, saved, connected) ==
    IF enabled /\ saved /\ ~connected THEN RequestRetry(k) ELSE k

CanDrain(k) == k.active /\ k.queue # <<>>

\* drain_pending() hands out Head(queue); the teardown of Wi-Fi is the last act.
DrainPending(k) ==
    LET rest == [k EXCEPT !.queue = Tail(@)]
    IN IF Head(k.queue) = "TEARDOWN_WIFI"
       THEN [rest EXCEPT !.phase = "TEARDOWN_DONE", !.active = FALSE]
       ELSE rest

-----------------------------------------------------------------------------
Init ==
    coord = NewCoordinator /\ errors = 0 /\ notices = 0

SetNotify == coord' = [coord EXCEPT !.sink = TRUE] /\ UNCHANGED <<errors, notices>>

Reset == coord' = NewCoordinator /\ errors' = 0 /\ notices' = 0

SessionConnecting == coord' = OnSessionConnecting(coord) /\ UNCHANGED <<errors, notices>>
SessionOnline == coord' = OnSessionOnline(coord) /\ UNCHANGED <<errors, notices>>

SocketError ==
    /\ errors < MaxErrors
    /\ coord' = OnSocketError(coord)
    /\ errors' = IF TakesSocketError(coord) THEN errors + 1 ELSE errors
    /\ UNCHANGED notices

Disconnect == coord' = RequestDisconnect(coord) /\ UNCHANGED <<errors, notices>>
WifiDisconnect == coord' = RequestWifiDisconnect(coord) /\ UNCHANGED <<errors, notices>>
CancelConnect == coord' = RequestCancelConnect(coord) /\ UNCHANGED <<errors, notices>>

Scan ==
    /\ \/ coord' = RequestScan(coord)
       \/ \E enabled, saved, connected \in BOOLEAN : coord' = OnScanTimerTick(coord, enabled, saved, connected)
    /\ UNCHANGED <<errors, notices>>

Retry ==
    /\ \/ coord' = RequestRetry(coord)
       \/ \E enabled, saved, connected \in BOOLEAN : coord' = OnRetryTimerTick(coord, enabled, saved, connected)
    /\ UNCHANGED <<errors, notices>>

Drain ==
    /\ CanDrain(coord)
    /\ coord' = DrainPending(coord)
    /\ notices' = IF Head(coord.queue) = "SSH_OFFLINE" /\ coord.sink THEN notices + 1 ELSE notices
    /\ UNCHANGED errors

Next ==
    \/ SetNotify \/ Reset
    \/ SessionConnecting \/ SessionOnline \/ SocketError
    \/ Disconnect \/ WifiDisconnect \/ CancelConnect
    \/ Scan \/ Retry \/ Drain

Spec == Init /\ [][Next]_vars

-----------------------------------------------------------------------------
(* Properties *)

TypeOK ==
    /\ coord \in Coordinators
    /\ Len(coord.queue) <= Capacity
    /\ coord.active <=> coord.phase # "TEARDOWN_DONE"
    /\ errors \in 0 .. MaxErrors
    /\ notices \in Nat

(* A teardown that was begun will finish: while it is in progress its Wi-Fi *)
(* item is the last of the queue and the SSH item, if still there, comes    *)
(* just before it.  An enqueue refused by a full queue would leave the      *)
(* coordinator in TEARDOWN_IN_PROGRESS for ever.                            *)
TeardownIsQueued ==
    LET q == coord.queue
    IN IF TearingDown(coord)
       THEN /\ q # <<>> /\ q[Len(q)] = "TEARDOWN_WIFI"
            /\ \A i \in DOMAIN q : q[i] = "TEARDOWN_SSH" => i = Len(q) - 1
            /\ \A i \in DOMAIN q : q[i] = "TEARDOWN_WIFI" => i = Len(q)
       ELSE ~Pending(coord, "TEARDOWN_SSH") /\ ~Pending(coord, "TEARDOWN_WIFI")

(* The commands of the user are always taken while the coordinator accepts  *)
(* work, whatever scans, retries and notices have piled up.                 *)
CommandsAreTaken ==
    AcceptsWork(coord) =>
        /\ Pending(RequestCancelConnect(coord), "CANCEL_CONNECT")
        /\ Pending(RequestWifiDisconnect(coord), "WIFI_DISCONNECT")

(* One error is announced at most once, however many tasks report it and    *)
(* however late the worker drains.                                          *)
AnnouncedAtMostOnce == notices + (IF Pending(coord, "SSH_OFFLINE") THEN 1 ELSE 0) <= errors

(* After the teardown the coordinator is inert until it is reset: no event, *)
(* tick or drain queues work, moves the phase or calls the sink.            *)
InertAfterTeardown ==
    [][coord.phase = "TEARDOWN_DONE" =>
        \/ coord' = NewCoordinator
        \/ coord' = [coord EXCEPT !.sink = coord'.sink] /\ notices' = notices]_vars

=============================================================================
