----------------------------- MODULE NetWorker -----------------------------
(***************************************************************************)
(* The Wi-Fi manager's net_worker (apps/wifi/wifi_mgr.cpp): SSH session    *)
(* events, timer flags and user commands feed the coordinator, and the     *)
(* worker drains one item per turn and runs it without the lock.  Turns,   *)
(* handlers and driver events are steps; a user command that stores a flag *)
(* and then takes the lock is two, and so is what changes the manager's    *)
(* view and then calls the driver, or looks at the view and then calls it. *)
(***************************************************************************)
EXTENDS Naturals, Sequences

CONSTANTS
    Capacity, CriticalReserve,
    SessionQueueLength,  \* NET_SESSION_EVENT_QUEUE_LENGTH
    SessionEvents,       \* the session events that occur
    Commands             \* the commands that the user gives

ASSUME BoundsAssumption ==
    /\ {Capacity, CriticalReserve, SessionQueueLength} \subseteq Nat
    /\ 4 <= CriticalReserve /\ CriticalReserve <= Capacity
    /\ Commands \subseteq {"connect", "forget", "switch"}
    /\ SessionEvents \subseteq {"SESSION_CONNECTING", "SESSION_ONLINE", "SESSION_SOCKET_ERROR"}

VARIABLES
    coord,     \* s_net_coordinator, under s_net_mutex
    sessions,  \* s_net_session_event_queue
    flags,     \* the s_*_pending atomics
    wifi,      \* the manager's view of the connection
    armed,     \* which of the three timers run
    worker,    \* "loop", the item that the worker carries out, or its call of the driver
    user,      \* "idle", or where the UI task is in a command
    driver,    \* the Wi-Fi driver
    asked      \* the prompt has cancelled the attempt and left its screen

vars == <<coord, sessions, flags, wifi, armed, worker, user, driver, asked>>

C == INSTANCE NetCoordinator WITH errors <- 0, notices <- 0, MaxErrors <- 0

TypeOK ==
    /\ coord \in C!Coordinators /\ Len(coord.queue) <= Capacity
    /\ sessions \in Seq(SessionEvents) /\ Len(sessions) <= SessionQueueLength
    /\ flags \in [retry : BOOLEAN, scan : BOOLEAN, timeout : BOOLEAN, cancel : BOOLEAN, disconnect : BOOLEAN]
    /\ wifi \in [enabled : BOOLEAN, saved : BOOLEAN, connected : BOOLEAN, ip : BOOLEAN,
                 manual : BOOLEAN, suppress : BOOLEAN]
    /\ armed \in [retry : BOOLEAN, scan : BOOLEAN, timeout : BOOLEAN]
    /\ worker \in {"loop", "join", "leave"} \cup C!Items
    /\ user \in {"idle", "join", "cancel", "disabling", "disconnect"}
    /\ driver \in {"idle", "joining", "associated", "leaving"}
    /\ asked \in BOOLEAN

\* A manager that has started: the radio's switch and the network come from
\* flash and from the card.
Init ==
    /\ coord = [C!NewCoordinator EXCEPT !.sink = TRUE]
    /\ sessions = <<>>
    /\ flags = [retry |-> FALSE, scan |-> FALSE, timeout |-> FALSE, cancel |-> FALSE, disconnect |-> FALSE]
    /\ \E enabled, saved \in BOOLEAN :
          /\ wifi = [enabled |-> enabled, saved |-> saved, connected |-> FALSE, ip |-> FALSE,
                     manual |-> FALSE, suppress |-> FALSE]
          /\ armed = [retry |-> FALSE, scan |-> enabled, timeout |-> FALSE]
    /\ worker = "loop" /\ user = "idle" /\ driver = "idle"
    /\ asked = TRUE

-----------------------------------------------------------------------------
(* The SSH task and the driver's event task *)

\* An event that finds the queue full is dropped.
SessionEvent(e) ==
    /\ Len(sessions) < SessionQueueLength
    /\ sessions' = Append(sessions, e)
    /\ UNCHANGED <<coord, flags, wifi, armed, worker, user, driver, asked>>

StaStart ==
    /\ wifi.enabled
    /\ coord' = IF wifi.saved THEN C!RequestRetry(coord) ELSE C!RequestScan(coord)
    /\ UNCHANGED <<sessions, flags, wifi, armed, worker, user, driver, asked>>

StaConnected ==
    /\ driver = "joining"
    /\ driver' = "associated"
    /\ wifi' = [wifi EXCEPT !.connected = TRUE, !.ip = FALSE]
    /\ armed' = [armed EXCEPT !.retry = FALSE]
    /\ UNCHANGED <<coord, sessions, flags, worker, user, asked>>

GotIp ==
    /\ driver = "associated"
    /\ wifi' = [wifi EXCEPT !.ip = TRUE]
    /\ armed' = [armed EXCEPT !.timeout = FALSE]
    /\ UNCHANGED <<coord, sessions, flags, worker, user, driver, asked>>

LostIp ==
    /\ driver = "associated"
    /\ wifi' = [wifi EXCEPT !.ip = FALSE]
    /\ UNCHANGED <<coord, sessions, flags, armed, worker, user, driver, asked>>

\* The end of an association, wanted or not; schedule_retry() needs a network.
StaDisconnected ==
    /\ driver # "idle"
    /\ driver' = "idle"
    /\ wifi' = [wifi EXCEPT !.connected = FALSE, !.ip = FALSE, !.manual = FALSE, !.suppress = FALSE]
    /\ armed' = [armed EXCEPT !.retry = @ \/ (wifi.enabled /\ ~wifi.manual /\ ~wifi.suppress /\ wifi.saved)]
    /\ UNCHANGED <<coord, sessions, flags, worker, user, asked>>

-----------------------------------------------------------------------------
(* Timer callbacks only store a flag *)

RetryTimer ==
    /\ armed.retry
    /\ armed' = [armed EXCEPT !.retry = FALSE]
    /\ flags' = [flags EXCEPT !.retry = TRUE]
    /\ UNCHANGED <<coord, sessions, wifi, worker, user, driver, asked>>

ScanTimer ==
    /\ armed.scan
    /\ flags' = [flags EXCEPT !.scan = TRUE]
    /\ UNCHANGED <<coord, sessions, wifi, armed, worker, user, driver, asked>>

ConnectTimeout ==
    /\ armed.timeout
    /\ armed' = [armed EXCEPT !.timeout = FALSE]
    /\ flags' = [flags EXCEPT !.timeout = TRUE]
    /\ UNCHANGED <<coord, sessions, wifi, worker, user, driver, asked>>

-----------------------------------------------------------------------------
(* Commands of the UI task *)

\* try_connect() looks for a network and then, without a lock, tells the driver
\* to join it, which may refuse the configuration.
Join == driver' \in {driver, "joining"}

Connect ==
    /\ user = "idle" /\ wifi.enabled /\ "connect" \in Commands
    /\ wifi' = [wifi EXCEPT !.saved = TRUE, !.manual = TRUE]
    /\ armed' = [armed EXCEPT !.retry = FALSE, !.timeout = TRUE]
    /\ user' = "join"
    /\ asked' = FALSE
    /\ UNCHANGED <<coord, sessions, flags, worker, driver>>

UserJoins ==
    /\ user = "join"
    /\ user' = "idle"
    /\ Join
    /\ UNCHANGED <<coord, sessions, flags, wifi, armed, worker, asked>>

\* The prompt cancels an attempt once and then leaves its connecting screen.
AskCancel ==
    /\ user = "idle" /\ ~asked
    /\ asked' = TRUE
    /\ flags' = [flags EXCEPT !.cancel = TRUE]
    /\ user' = "cancel"
    /\ UNCHANGED <<coord, sessions, wifi, armed, worker, driver>>

\* Slip: the submission does not wait for its place in the queue.
SubmitCancelUnlessBusy ==
    /\ user = "cancel"
    /\ user' = "idle"
    /\ coord' = IF coord.queue = <<>> THEN C!RequestCancelConnect(coord) ELSE coord
    /\ flags' = [flags EXCEPT !.cancel = FALSE]
    /\ UNCHANGED <<sessions, wifi, armed, worker, driver, asked>>

\* submit_cancel_connect_locked()
SubmitCancel ==
    /\ user = "cancel"
    /\ user' = "idle"
    /\ coord' = C!RequestCancelConnect(coord)
    /\ flags' = [flags EXCEPT !.cancel = @ /\ ~C!Pending(coord', "CANCEL_CONNECT")]
    /\ UNCHANGED <<sessions, wifi, armed, worker, driver, asked>>

\* wifi_mgr_disconnect() drops the credentials before it asks for the rest; it
\* is called when the radio is switched off and when the network in use is
\* forgotten.
AskDisconnect ==
    /\ user = "disabling" \/ ("forget" \in Commands /\ user = "idle" /\ (wifi.saved \/ wifi.connected))
    /\ wifi' = [wifi EXCEPT !.saved = FALSE]
    /\ flags' = [flags EXCEPT !.disconnect = TRUE]
    /\ user' = "disconnect"
    /\ UNCHANGED <<coord, sessions, armed, worker, driver, asked>>

\* Slip: nothing is submitted where the driver has nothing to leave.
SubmitDisconnectIfJoined ==
    /\ user = "disconnect"
    /\ user' = "idle"
    /\ coord' = IF driver = "idle" THEN coord ELSE C!RequestWifiDisconnect(coord)
    /\ flags' = [flags EXCEPT !.disconnect = FALSE]
    /\ wifi' = IF wifi.enabled THEN wifi ELSE [wifi EXCEPT !.saved = FALSE]
    /\ UNCHANGED <<sessions, armed, worker, driver, asked>>

\* submit_wifi_disconnect_locked(); wifi_mgr_set_enabled(false) wipes once more.
SubmitDisconnect ==
    /\ user = "disconnect"
    /\ user' = "idle"
    /\ coord' = C!RequestWifiDisconnect(coord)
    /\ flags' = [flags EXCEPT !.disconnect = @ /\ ~C!Pending(coord', "WIFI_DISCONNECT")]
    /\ wifi' = IF wifi.enabled THEN wifi ELSE [wifi EXCEPT !.saved = FALSE]
    /\ UNCHANGED <<sessions, armed, worker, driver, asked>>

\* Slip: the disconnect is left to the driver's own events.
DisableQuietly ==
    /\ user = "idle" /\ wifi.enabled /\ "switch" \in Commands
    /\ wifi' = [wifi EXCEPT !.enabled = FALSE, !.connected = FALSE, !.ip = FALSE]
    /\ armed' = [armed EXCEPT !.retry = FALSE, !.scan = FALSE]
    /\ UNCHANGED <<coord, sessions, flags, worker, user, driver, asked>>

Disable ==
    /\ user = "idle" /\ wifi.enabled /\ "switch" \in Commands
    /\ wifi' = [wifi EXCEPT !.enabled = FALSE, !.connected = FALSE, !.ip = FALSE]
    /\ armed' = [armed EXCEPT !.retry = FALSE, !.scan = FALSE]
    /\ user' = "disabling"
    /\ UNCHANGED <<coord, sessions, flags, worker, driver, asked>>

\* The network is read from storage again, which may have none.
Enable ==
    /\ user = "idle" /\ ~wifi.enabled /\ "switch" \in Commands
    /\ \/ wifi' = [wifi EXCEPT !.enabled = TRUE, !.saved = TRUE] /\ user' = "join"
       \/ wifi' = [wifi EXCEPT !.enabled = TRUE, !.saved = FALSE] /\ user' = "idle"
    /\ armed' = [armed EXCEPT !.scan = TRUE]
    /\ UNCHANGED <<coord, sessions, flags, worker, driver, asked>>

-----------------------------------------------------------------------------
(* net_worker *)

Apply(k, e) ==
    CASE e = "SESSION_CONNECTING" -> C!OnSessionConnecting(k)
      [] e = "SESSION_ONLINE" -> C!OnSessionOnline(k)
      [] e = "SESSION_SOCKET_ERROR" -> C!OnSocketError(k)

\* The timeout counts only for a manual attempt that has no address yet.
CancelWanted == flags.cancel \/ (flags.timeout /\ wifi.manual /\ ~wifi.ip)

\* The coordinator after the first n of the session events were told to it.
told[n \in 0 .. Len(sessions)] == IF n = 0 THEN coord ELSE Apply(told[n - 1], sessions[n])

\* What one turn under the lock makes of the coordinator before it drains.
Gathered ==
    LET heard == told[Len(sessions)]
        retried == IF flags.retry THEN C!OnRetryTimerTick(heard, wifi.enabled, wifi.saved, wifi.connected) ELSE heard
        scanned == IF flags.scan THEN C!OnScanTimerTick(retried, wifi.enabled, wifi.saved, wifi.connected) ELSE retried
        cancelled == IF CancelWanted THEN C!RequestCancelConnect(scanned) ELSE scanned
    IN IF flags.disconnect THEN C!RequestWifiDisconnect(cancelled) ELSE cancelled

WorkerTurn ==
    /\ worker = "loop"
    /\ IF C!CanDrain(Gathered)
       THEN /\ coord' = C!DrainPending(Gathered)
            /\ worker' = IF Head(Gathered.queue) = "SSH_OFFLINE" THEN "loop" ELSE Head(Gathered.queue)
       ELSE coord' = Gathered /\ UNCHANGED worker
    /\ sessions' = <<>>
    /\ flags' = [retry |-> FALSE, scan |-> FALSE, timeout |-> FALSE,
                 cancel |-> CancelWanted /\ ~C!Pending(Gathered, "CANCEL_CONNECT"),
                 disconnect |-> flags.disconnect /\ ~C!Pending(Gathered, "WIFI_DISCONNECT")]
    /\ UNCHANGED <<wifi, armed, user, driver, asked>>

\* wifi_mgr_disconnect_impl() and wifi_mgr_cancel_connection_impl() do the same
\* to the connection and then call the driver.
RunDisconnect ==
    /\ worker \in {"CANCEL_CONNECT", "WIFI_DISCONNECT", "TEARDOWN_WIFI"}
    /\ wifi' = [wifi EXCEPT !.saved = FALSE, !.connected = FALSE, !.ip = FALSE,
                            !.manual = FALSE, !.suppress = TRUE]
    /\ armed' = [armed EXCEPT !.retry = FALSE, !.timeout = FALSE]
    /\ worker' = "leave"
    /\ UNCHANGED <<coord, sessions, flags, user, driver, asked>>

\* esp_wifi_disconnect(): the driver reports the end of an association later.
WorkerLeaves ==
    /\ worker = "leave"
    /\ worker' = "loop"
    /\ driver' = IF driver = "idle" THEN "idle" ELSE "leaving"
    /\ UNCHANGED <<coord, sessions, flags, wifi, armed, user, asked>>

RunRetry ==
    /\ worker = "RUN_RETRY"
    /\ worker' = IF wifi.saved THEN "join" ELSE "loop"
    /\ UNCHANGED <<coord, sessions, flags, wifi, armed, user, driver, asked>>

WorkerJoins ==
    /\ worker = "join"
    /\ worker' = "loop"
    /\ Join
    /\ UNCHANGED <<coord, sessions, flags, wifi, armed, user, asked>>

\* wifi_mgr_scan() and ssh_client_disconnect() leave this state alone.
RunOther ==
    /\ worker \in {"RUN_SCAN", "TEARDOWN_SSH"}
    /\ worker' = "loop"
    /\ UNCHANGED <<coord, sessions, flags, wifi, armed, user, driver, asked>>

WorkerStep == WorkerTurn \/ RunDisconnect \/ WorkerLeaves \/ RunRetry \/ WorkerJoins \/ RunOther

UserFinishes == UserJoins \/ SubmitCancel \/ SubmitDisconnect \/ (user = "disabling" /\ AskDisconnect)

Next ==
    \/ \E e \in SessionEvents : SessionEvent(e)
    \/ StaStart \/ StaConnected \/ GotIp \/ LostIp \/ StaDisconnected
    \/ RetryTimer \/ ScanTimer \/ ConnectTimeout
    \/ Connect \/ UserJoins \/ AskCancel \/ SubmitCancel \/ AskDisconnect \/ SubmitDisconnect \/ Disable \/ Enable
    \/ WorkerStep

Spec == Init /\ [][Next]_vars

\* The worker task runs, a command that was begun goes on, and the driver
\* reports the end of an association it was told to end.
FairSpec ==
    /\ Spec
    /\ WF_vars(WorkerStep) /\ WF_vars(UserFinishes)
    /\ WF_vars(driver = "leaving" /\ StaDisconnected)

-----------------------------------------------------------------------------
(* Properties *)

(* wifi_mgr_cancel_connection() and wifi_mgr_disconnect() find their place: *)
(* the flag they leave is never needed, whatever else is queued.            *)
SubmissionSucceeds ==
    [][ /\ user = "cancel" /\ user' = "idle" => C!Pending(coord', "CANCEL_CONNECT")
        /\ user = "disconnect" /\ user' = "idle" => C!Pending(coord', "WIFI_DISCONNECT")]_vars

(* A join with the radio off does not last: a retry that had seen the       *)
(* network before it was wiped may still join it, but wherever the driver   *)
(* joins or is about to with the radio off, a disconnect is still to come.  *)
(* (try_connect() against wifi_mgr_set_enabled() and wifi_mgr_disconnect(), *)
(* which submits one whatever the driver does at that time.)                *)
Joins == driver \in {"joining", "associated"} \/ worker = "join"
DisconnectToCome ==
    user \in {"disabling", "disconnect"} \/ C!Pending(coord, "WIFI_DISCONNECT") \/ worker \in {"WIFI_DISCONNECT", "leave"}
OffIsCaughtUp == ~wifi.enabled /\ Joins => DisconnectToCome

(* Switching the radio off ends the association, unless it is switched on   *)
(* again first.                                                             *)
OffGoesQuiet == ~wifi.enabled ~> driver = "idle" \/ wifi.enabled
=============================================================================
