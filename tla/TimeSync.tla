------------------------------ MODULE TimeSync ------------------------------
(***************************************************************************)
(* The time synchronisation (cyberdeck_time_sync.cpp): a worker that sets  *)
(* the clock over the network once for each Wi-Fi connection.  It is asked *)
(* by the listener of the Wi-Fi manager (in the LVGL task), by start(), by *)
(* boot_ready() and by itself after a failed attempt.  All of them go      *)
(* through request_for_status(), without a lock: each store is a step.     *)
(*                                                                         *)
(* The manager is external: a connection has a token, which changes with   *)
(* the network but not when the same one comes back, and the listener gets *)
(* the newest status only.  The semaphore that wakes the worker is left    *)
(* out (it also wakes every 250 ms), and so are the servers' answers.      *)
(***************************************************************************)
EXTENDS Naturals

CONSTANTS
    Connections,    \* bound on connection tokens
    MaxAttempts,    \* kMaxAttemptsPerToken
    NoConnection    \* kNoConnectionToken

ASSUME SyncLimits ==
    /\ {Connections, MaxAttempts} \subseteq Nat \ {0}
    /\ NoConnection \notin Nat

VARIABLES
    linkUp,         \* Wi-Fi: there is an address
    linkToken,      \* Wi-Fi: the connection token
    changed,        \* Wi-Fi: its callback queue holds the newest status
    started,        \* ctx.started
    stop,           \* ctx.stop
    ready,          \* ctx.ready
    bootCompleted,  \* ctx.boot_completed
    requested,      \* ctx.requested
    requestedToken, \* ctx.requested_token
    completedToken, \* ctx.completed_token
    listening,      \* the callback is registered
    quiesced,       \* ctx.quiesced holds a token
    caller,         \* where each caller of request_for_status() is
    asked,          \* the token of the status it was called with
    control,        \* where start() or stop() is
    boot,           \* where cyberdeck_time_sync_boot_ready() is
    task,           \* where sync_task() is
    attemptToken,   \* attempt_token
    attempts,       \* attempts
    tried           \* history: an attempt began for this connection, or over it

wifi == <<linkUp, linkToken, changed>>
switches == <<started, stop, ready, bootCompleted>>
tokens == <<requested, requestedToken, completedToken>>
calls == <<caller, asked>>
lifecycle == <<listening, quiesced, control, boot>>
syncWorker == <<task, attemptToken, attempts>>
syncVars == <<wifi, switches, tokens, calls, lifecycle, syncWorker, tried>>

Callers == {"listener", "start", "boot", "worker"}
Tokens == 1 .. Connections

SyncInit ==
    /\ linkUp = FALSE /\ linkToken = 0 /\ changed = FALSE
    /\ started = FALSE /\ stop = FALSE /\ ready = FALSE /\ bootCompleted = FALSE
    /\ requested = FALSE /\ requestedToken = NoConnection /\ completedToken = NoConnection
    /\ caller = [c \in Callers |-> "out"] /\ asked = [c \in Callers |-> 0]
    /\ listening = FALSE /\ quiesced = FALSE /\ control = "idle" /\ boot = "before"
    /\ task = "gone" /\ attemptToken = NoConnection /\ attempts = 0
    /\ tried = FALSE

-----------------------------------------------------------------------------
(* The Wi-Fi manager.                                                      *)

Connect ==
    /\ ~linkUp
    /\ linkUp' = TRUE /\ changed' = TRUE
    /\ \/ linkToken < Connections /\ linkToken' = linkToken + 1 /\ tried' = FALSE
       \/ linkToken > 0 /\ UNCHANGED <<linkToken, tried>>
    /\ UNCHANGED <<switches, tokens, calls, lifecycle, syncWorker>>

Disconnect ==
    /\ linkUp
    /\ linkUp' = FALSE /\ changed' = TRUE
    /\ UNCHANGED <<linkToken, switches, tokens, calls, lifecycle, syncWorker, tried>>

-----------------------------------------------------------------------------
(* request_for_status(), called by c.  It does nothing for a status that   *)
(* has no address.                                                         *)

Ask(c) ==
    IF linkUp
    THEN caller' = [caller EXCEPT ![c] = "look"] /\ asked' = [asked EXCEPT ![c] = linkToken]
    ELSE UNCHANGED calls

Out(c) == caller[c] = "out"

Leave(c) ==
    /\ caller' = [caller EXCEPT ![c] = "out"]
    /\ asked' = [asked EXCEPT ![c] = 0]

IsNew(t) == ready /\ t \notin {completedToken, requestedToken}

Look(c) ==
    /\ caller[c] = "look"
    /\ IF IsNew(asked[c])
       THEN caller' = [caller EXCEPT ![c] = "store"] /\ UNCHANGED asked
       ELSE Leave(c)
    /\ UNCHANGED <<wifi, switches, tokens, lifecycle, syncWorker, tried>>

StoreToken(c) ==
    /\ caller[c] = "store"
    /\ requestedToken' = asked[c]
    /\ caller' = [caller EXCEPT ![c] = "raise"]
    /\ UNCHANGED <<wifi, switches, requested, completedToken, asked, lifecycle, syncWorker, tried>>

Raise(c) ==
    /\ caller[c] = "raise"
    /\ requested' = TRUE
    /\ Leave(c)
    /\ UNCHANGED <<wifi, switches, requestedToken, completedToken, lifecycle, syncWorker, tried>>

CallerStep(c) == Look(c) \/ StoreToken(c) \/ Raise(c)

\* The LVGL task calls the listener, under the mutex of the listeners.
Notify ==
    /\ changed /\ Out("listener")
    /\ changed' = FALSE
    /\ IF listening THEN Ask("listener") ELSE UNCHANGED calls
    /\ UNCHANGED <<linkUp, linkToken, switches, tokens, lifecycle, syncWorker, tried>>

-----------------------------------------------------------------------------
(* start() and stop(), which the application runtime calls one at a time,  *)
(* and boot_ready(), which the main task calls once.                       *)

Idle == control = "idle" /\ Out("start")

Reset ==
    /\ requested' = FALSE
    /\ requestedToken' = NoConnection
    /\ completedToken' = NoConnection

\* The worker is created, or that fails.
Start ==
    /\ Idle /\ ~started
    /\ stop' = FALSE /\ ready' = FALSE
    /\ Reset
    /\ \/ /\ started' = TRUE /\ control' = "register" /\ task' = "wait"
          /\ attemptToken' = NoConnection /\ attempts' = 0
          /\ tried' = FALSE
       \/ UNCHANGED <<started, control, syncWorker, tried>>
    /\ UNCHANGED <<wifi, bootCompleted, calls, listening, quiesced, boot>>

\* When the listeners are full start() goes on as stop().
Register ==
    /\ control = "register" /\ Out("listener")
    /\ \/ listening' = TRUE /\ control' = "boot"
       \/ listening' = FALSE /\ control' = "signal"
    /\ UNCHANGED <<wifi, switches, tokens, calls, quiesced, boot, syncWorker, tried>>

ReadBoot ==
    /\ control = "boot"
    /\ control' = IF bootCompleted THEN "ready" ELSE "unready"
    /\ UNCHANGED <<wifi, switches, tokens, calls, listening, quiesced, boot, syncWorker, tried>>

StoreReady ==
    /\ control \in {"ready", "unready"}
    /\ ready' = (control = "ready")
    /\ control' = "status"
    /\ UNCHANGED <<wifi, started, stop, bootCompleted, tokens, calls, listening, quiesced, boot,
                   syncWorker, tried>>

StartReadsStatus ==
    /\ control = "status"
    /\ control' = "idle"
    /\ IF ready THEN Ask("start") ELSE UNCHANGED calls
    /\ UNCHANGED <<wifi, switches, tokens, listening, quiesced, boot, syncWorker, tried>>

\* It waits for the mutex, and so for a callback that runs.
Stop ==
    /\ Idle /\ started /\ Out("listener")
    /\ listening' = FALSE
    /\ control' = "signal"
    /\ UNCHANGED <<wifi, switches, tokens, calls, quiesced, boot, syncWorker, tried>>

SignalStop ==
    /\ control = "signal"
    /\ ready' = FALSE /\ stop' = TRUE
    /\ control' = "join"
    /\ UNCHANGED <<wifi, started, bootCompleted, tokens, calls, listening, quiesced, boot,
                   syncWorker, tried>>

JoinSync ==
    /\ control = "join" /\ quiesced
    /\ quiesced' = FALSE
    /\ Reset
    /\ started' = FALSE
    /\ control' = "idle"
    /\ UNCHANGED <<wifi, stop, ready, bootCompleted, calls, listening, boot, syncWorker, tried>>

JoinSyncTimesOut ==
    /\ control = "join"
    /\ control' = "idle"
    /\ UNCHANGED <<wifi, switches, tokens, calls, listening, quiesced, boot, syncWorker, tried>>

BootCompletes ==
    /\ boot = "before"
    /\ bootCompleted' = TRUE
    /\ boot' = IF started THEN "ready" ELSE "done"
    /\ UNCHANGED <<wifi, started, stop, ready, tokens, calls, listening, quiesced, control,
                   syncWorker, tried>>

\* Mutant: the status is read while the requests are still refused.
BootAsksTooEarly ==
    /\ boot = "ready" /\ Out("boot")
    /\ ready' = TRUE
    /\ boot' = "done"
    /\ UNCHANGED <<wifi, started, stop, bootCompleted, tokens, calls, listening, quiesced, control,
                   syncWorker, tried>>

BootReady ==
    /\ boot = "ready"
    /\ ready' = TRUE
    /\ boot' = "status"
    /\ UNCHANGED <<wifi, started, stop, bootCompleted, tokens, calls, listening, quiesced, control,
                   syncWorker, tried>>

BootReadsStatus ==
    /\ boot = "status"
    /\ boot' = "done"
    /\ Ask("boot")
    /\ UNCHANGED <<wifi, switches, tokens, listening, quiesced, control, syncWorker, tried>>

LifecycleStep ==
    \/ Register \/ ReadBoot \/ StoreReady \/ StartReadsStatus
    \/ SignalStop \/ JoinSync
    \/ BootReady \/ BootReadsStatus

-----------------------------------------------------------------------------
(* sync_task()                                                             *)

Awake == task = "wait" /\ Out("worker")

TakeRequest ==
    /\ Awake /\ ~stop /\ requested
    /\ requested' = FALSE
    /\ task' = "take"
    /\ UNCHANGED <<wifi, switches, requestedToken, completedToken, calls, lifecycle, attemptToken,
                   attempts, tried>>

\* Fetching takes seconds; it begins over the connection there is, if any.
BeginAttempt ==
    /\ task = "take"
    /\ attemptToken' = requestedToken
    /\ attempts' = IF attemptToken # requestedToken THEN 1
                   ELSE IF attempts < MaxAttempts THEN attempts + 1 ELSE attempts
    /\ tried' = (tried \/ linkUp \/ requestedToken = linkToken)
    /\ task' = "fetch"
    /\ UNCHANGED <<wifi, switches, tokens, calls, lifecycle>>

\* The clock is set, and the log has confirmed it.
AttemptSucceeds ==
    /\ task = "fetch"
    /\ completedToken' = attemptToken
    /\ task' = "wait"
    /\ UNCHANGED <<wifi, switches, requested, requestedToken, calls, lifecycle, attemptToken,
                   attempts, tried>>

\* The log was late, a stop has begun, or the token has had its attempts.
AttemptGivenUp ==
    /\ task = "fetch"
    /\ task' = "wait"
    /\ UNCHANGED <<wifi, switches, tokens, calls, lifecycle, attemptToken, attempts, tried>>

AttemptFails ==
    /\ task = "fetch" /\ ~stop /\ attempts < MaxAttempts
    /\ requestedToken' = NoConnection
    /\ task' = "retry"
    /\ UNCHANGED <<wifi, switches, requested, completedToken, calls, lifecycle, attemptToken,
                   attempts, tried>>

Retry ==
    /\ task = "retry"
    /\ Ask("worker")
    /\ task' = "wait"
    /\ UNCHANGED <<wifi, switches, tokens, lifecycle, attemptToken, attempts, tried>>

TaskLeaves ==
    /\ Awake /\ stop
    /\ quiesced' = TRUE
    /\ task' = "gone"
    /\ UNCHANGED <<wifi, switches, tokens, calls, listening, control, boot, attemptToken, attempts,
                   tried>>

SyncStep ==
    \/ TakeRequest \/ BeginAttempt \/ AttemptSucceeds \/ AttemptGivenUp \/ AttemptFails \/ Retry
    \/ TaskLeaves

-----------------------------------------------------------------------------
SyncNext ==
    \/ Connect \/ Disconnect \/ Notify
    \/ \E c \in Callers : CallerStep(c)
    \/ Start \/ Stop \/ JoinSyncTimesOut \/ BootCompletes
    \/ LifecycleStep
    \/ SyncStep

SyncSpec == SyncInit /\ [][SyncNext]_syncVars

-----------------------------------------------------------------------------
SyncTypeOK ==
    /\ {linkUp, changed, started, stop, ready, bootCompleted} \subseteq BOOLEAN
    /\ {requested, listening, quiesced, tried} \subseteq BOOLEAN
    /\ linkToken \in 0 .. Connections
    /\ {requestedToken, completedToken, attemptToken} \subseteq Tokens \cup {NoConnection}
    /\ caller \in [Callers -> {"out", "look", "store", "raise"}]
    /\ asked \in [Callers -> 0 .. Connections]
    /\ control \in {"idle", "register", "boot", "ready", "unready", "status", "signal", "join"}
    /\ boot \in {"before", "ready", "status", "done"}
    /\ task \in {"gone", "wait", "take", "fetch", "retry"}
    /\ attempts \in 0 .. MaxAttempts

Serving == started /\ ready /\ ~stop /\ linkUp

\* No task is on its way to ask for an attempt or to make one.
AtRest ==
    /\ control = "idle" /\ boot \in {"before", "done"} /\ ~changed
    /\ \A c \in Callers : Out(c)
    /\ task = "wait" /\ ~requested

\* Whoever asked for it and whatever overtook the request, the tasks do not come to rest
\* over a connection for which no attempt to set the clock was begun: the worker takes
\* the flag and then the token and clears the token after a failure, while the callers
\* test and store (request_for_status() and sync_task()).
NoConnectionForgotten == Serving /\ AtRest => tried
=============================================================================
