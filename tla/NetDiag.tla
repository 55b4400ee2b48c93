------------------------------ MODULE NetDiag -------------------------------
(***************************************************************************)
(* The network diagnostics: the application (cyberdeck_netdiag_app.cpp),   *)
(* whose calls all come from the console one after the other, and its      *)
(* controller (cyberdeck_netdiag_controller.cpp), shared under a lock with *)
(* the one worker that a request creates.  The worker gives the lock up    *)
(* around each probe.  The application knows it as a handle until it has   *)
(* taken the semaphore that the worker gives last.                         *)
(*                                                                         *)
(* What is probed and found, durations, and the limit of one request in 30 *)
(* seconds (a command need not be typed) are left out.                     *)
(***************************************************************************)
EXTENDS Naturals, Sequences

CONSTANTS
    MaxGeneration   \* largest generation_, which wraps past 0

ASSUME DiagLimits == MaxGeneration \in Nat \ {0}

VARIABLES
    initialized,    \* initialized_
    stopPending,    \* stop_pending_
    handle,         \* worker_handle_ is not null
    workerToken,    \* worker_token_
    given,          \* synchronization_ holds a token
    joining,        \* stop() waits for the worker
    token,          \* snapshot_.token, which is generation_
    stage,          \* snapshot_.current_stage
    running,        \* running_
    workerActive,   \* worker_active_
    worker,         \* where the worker is
    probes          \* the stages it has still to make

application == <<initialized, stopPending, handle, workerToken, joining>>
controller == <<token, stage, running, workerActive>>
diagVars == <<application, given, controller, worker, probes>>

\* What each operation probes.
Operations == {<<"dns">>, <<"dns", "tcp">>, <<"https">>}
Terminal == {"complete", "failed", "cancelled"}

DiagInit ==
    /\ initialized = FALSE /\ stopPending = FALSE /\ handle = FALSE /\ workerToken = 0
    /\ given = FALSE /\ joining = FALSE
    /\ token = 0 /\ stage = "idle" /\ running = FALSE /\ workerActive = FALSE
    /\ worker = "gone" /\ probes = <<>>

-----------------------------------------------------------------------------
(* The application.                                                        *)

\* reap_worker(0) succeeds: there is no worker, or it has given its token.
Reaped == handle => given

Forget ==
    /\ handle' = FALSE
    /\ given' = (given /\ ~handle)

StartApplication ==
    /\ ~joining /\ Reaped
    /\ Forget
    /\ initialized' = TRUE /\ stopPending' = FALSE
    /\ workerToken' = IF initialized /\ ~stopPending THEN workerToken ELSE 0
    /\ UNCHANGED <<joining, controller, worker, probes>>

\* execute() is refused altogether once a stop has begun and no worker is left.
Available == ~joining /\ initialized /\ (stopPending => handle)

\* Any command but "result" and "cancel" reaps the worker first; this one does no more.
OtherCommand ==
    /\ Available /\ handle /\ given
    /\ Forget
    /\ UNCHANGED <<initialized, stopPending, workerToken, joining, controller, worker, probes>>

\* controller::submit()
Busy == running \/ workerActive \/ stage \in {"queued", "dns", "tcp", "https"}

Submit ==
    /\ ~Busy
    /\ token' = IF token = MaxGeneration THEN 1 ELSE token + 1
    /\ workerToken' = token'

\* The worker is created, or its creation fails and the request is cancelled.
Request(operation) ==
    /\ Available /\ Reaped /\ ~stopPending
    /\ Submit
    /\ given' = FALSE
    /\ \/ /\ handle' = TRUE /\ stage' = "queued" /\ running' = TRUE
          /\ worker' = "begin" /\ probes' = operation
       \/ /\ handle' = FALSE /\ stage' = "cancelled"
          /\ UNCHANGED <<running, worker, probes>>
    /\ UNCHANGED <<initialized, stopPending, joining, workerActive>>

\* controller::cancel() for the token of the application.
CancelRequest ==
    IF workerToken = 0 \/ workerToken # token \/ stage \in Terminal
    THEN UNCHANGED <<stage, running>>
    ELSE stage' = "cancelled" /\ running' = (running /\ workerActive)

CancelCommand ==
    /\ Available
    /\ CancelRequest
    /\ UNCHANGED <<application, given, token, workerActive, worker, probes>>

FinishStop == initialized' = FALSE /\ stopPending' = FALSE

BeginStop ==
    /\ ~joining /\ initialized
    /\ \/ /\ handle
          /\ stopPending' = TRUE /\ joining' = TRUE
          /\ CancelRequest
          /\ UNCHANGED initialized
       \/ /\ ~handle
          /\ FinishStop
          /\ UNCHANGED <<joining, stage, running>>
    /\ UNCHANGED <<handle, workerToken, given, token, workerActive, worker, probes>>

Join ==
    /\ joining /\ given
    /\ Forget
    /\ FinishStop
    /\ joining' = FALSE
    /\ UNCHANGED <<workerToken, controller, worker, probes>>

\* Mutant: the application is stopped although the worker has not come.
JoinTimesOutStopping ==
    /\ joining
    /\ joining' = FALSE /\ handle' = FALSE
    /\ FinishStop
    /\ UNCHANGED <<workerToken, given, controller, worker, probes>>

\* stop() has waited its six seconds: the stop is pending and may be tried again.
JoinTimesOut ==
    /\ joining
    /\ joining' = FALSE
    /\ UNCHANGED <<initialized, stopPending, handle, workerToken, given, controller, worker, probes>>

-----------------------------------------------------------------------------
(* The worker: controller::run(), one action for each section under the    *)
(* lock.                                                                   *)

Goes(place) == worker' = place

Begin ==
    /\ worker = "begin"
    /\ IF workerToken = token /\ running /\ ~workerActive
       THEN workerActive' = TRUE /\ Goes("copy")
       ELSE UNCHANGED workerActive /\ Goes("give")
    /\ UNCHANGED <<application, given, token, stage, running, probes>>

CopyRequest ==
    /\ worker = "copy"
    /\ Goes(IF workerToken = token /\ running THEN "stage" ELSE "release")
    /\ UNCHANGED <<application, given, controller, probes>>

\* The test that every lock of the worker begins with.
Wanted == workerToken = token /\ running /\ stage # "cancelled"

EnterStage ==
    /\ worker = "stage"
    /\ IF Wanted
       THEN stage' = Head(probes) /\ Goes("probe")
       ELSE UNCHANGED stage /\ Goes("release")
    /\ UNCHANGED <<application, given, token, running, workerActive, probes>>

ProbeSucceeds ==
    /\ worker = "probe"
    /\ probes' = Tail(probes)
    /\ Goes(IF probes' = <<>> THEN "complete" ELSE "stage")
    /\ UNCHANGED <<application, given, controller>>

End(result) ==
    IF Wanted
    THEN stage' = result /\ running' = FALSE
    ELSE UNCHANGED <<stage, running>>

\* The probe fails, or is late, or the grant has been revoked.
ProbeFails ==
    /\ worker = "probe"
    /\ End("failed")
    /\ Goes("release")
    /\ UNCHANGED <<application, given, token, workerActive, probes>>

Complete ==
    /\ worker = "complete"
    /\ End("complete")
    /\ Goes("release")
    /\ UNCHANGED <<application, given, token, workerActive, probes>>

\* Mutant: a request that was cancelled under its worker keeps the controller.
StillRunning == running
AfterWorker == running /\ stage \notin Terminal

ReleaseWorker ==
    /\ worker = "release"
    /\ workerActive' = FALSE
    /\ running' = AfterWorker
    /\ Goes("give")
    /\ UNCHANGED <<application, given, token, stage, probes>>

Give ==
    /\ worker = "give"
    /\ given' = TRUE
    /\ Goes("gone")
    /\ UNCHANGED <<application, controller, probes>>

DiagWorkerStep ==
    Begin \/ CopyRequest \/ EnterStage \/ ProbeSucceeds \/ ProbeFails \/ Complete \/ ReleaseWorker \/ Give

-----------------------------------------------------------------------------
DiagNext ==
    \/ StartApplication \/ OtherCommand \/ CancelCommand
    \/ \E operation \in Operations : Request(operation)
    \/ BeginStop \/ Join \/ JoinTimesOut
    \/ DiagWorkerStep

DiagSpec == DiagInit /\ [][DiagNext]_diagVars

-----------------------------------------------------------------------------
DiagTypeOK ==
    /\ {initialized, stopPending, handle, given, joining, running, workerActive} \subseteq BOOLEAN
    /\ {token, workerToken} \subseteq 0 .. MaxGeneration
    /\ stage \in {"idle", "queued", "dns", "tcp", "https"} \cup Terminal
    /\ worker \in {"begin", "copy", "stage", "probe", "complete", "release", "give", "gone"}
    /\ probes \in Seq({"dns", "tcp", "https"})

\* When the application holds no worker there is none, and the controller takes the
\* next request; a stopped application holds none.  It is so however cancellation, a
\* stop that lost patience and its retry, a new start and the end of the worker meet
\* (reap_worker(), stop(), and release_worker of controller::run()): a worker that was
\* forgotten would probe for an application that is stopped, and a controller that
\* stays busy refuses every request until the next boot.
NoWorkerNoRequest ==
    /\ ~handle => worker = "gone" /\ ~Busy
    /\ ~initialized => ~handle
=============================================================================
