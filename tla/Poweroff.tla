------------------------------ MODULE Poweroff ------------------------------
(***************************************************************************)
(* The shutdown of the deck: platform/power/cyberdeck_poweroff composed    *)
(* with the SD gate of SdIo.  The requester (the UI task), the shutdown    *)
(* task, its watchdog, the lease holders, the tasks that use the card      *)
(* without a lease, the event logger and the clock interleave.             *)
(*                                                                         *)
(* controller::execute is the "worker": Enter is the admission of a stage, *)
(* the actions named after a stage its ports::run, and the checks that     *)
(* follow run are in Passed.  A stage that stops an owner may succeed,     *)
(* fail, or not return: every owner's stop function waits on other tasks.  *)
(***************************************************************************)
EXTENDS SdIo, Sequences

CONSTANTS
    Controller,     \* the one closer: fence_owner is token[Controller]
    Budget,         \* 45000 ms: the watchdog's deadline and execute's budget
    SignalReserve,  \* 1000 ms that must remain when the signal stage starts
    PulseTime,      \* 600 ms that must remain at the first high level
    Cycles,         \* 3 high/low cycles of the factory signal
    ClockBound      \* model bound: the clock stops there

ASSUME ControllerAssumption == Controller \in Closers
ASSUME BudgetAssumption == Budget \in Nat /\ Budget > 0
ASSUME SignalAssumption ==
    /\ SignalReserve \in Nat /\ PulseTime \in Nat
    /\ PulseTime <= SignalReserve /\ SignalReserve < Budget
    /\ Cycles \in Nat \ {0}
ASSUME ClockBoundAssumption == ClockBound \in Nat /\ ClockBound >= Budget

Order == <<"ui", "fence", "serial", "screen_nvs", "cat", "music", "audit", "time_sync",
           "ssh", "http", "ble", "wifi", "drain", "log", "storage", "signal">>
Stages == {"ui", "fence", "serial", "screen_nvs", "cat", "music", "audit", "time_sync",
           "ssh", "http", "ble", "wifi", "drain", "log", "storage", "signal"}
Owners == Stages \ {"fence", "drain", "log", "storage", "signal"}

\* Owners that read or write the card without asking the gate for a lease.
Unleased == {"ui", "music"}

ASSUME UsersDistinctAssumption == Users \cap Unleased = {}

VARIABLES
    status,     \* state_ of the controller
    pos,        \* position in Order of the stage in stage_, 0 for stage::idle
    now,        \* the millisecond clock, since the request
    deadline,   \* shutdown_deadline_ms
    started,    \* execute's local
    requester,  \* program counter of cyberdeck_poweroff_request
    worker,     \* program counter of shutdown_task
    watchdog,   \* program counter of shutdown_watchdog
    quiesced,   \* owners whose stop function has returned success
    busy,       \* unleased owners with an SD operation in progress
    logging,    \* the event log still accepts and writes records
    mounted,    \* the FAT volume is mounted
    edges       \* level changes made on the rail signal so far

ctlVars == <<status, pos, now, deadline, started, requester, worker, watchdog>>
devVars == <<quiesced, busy, logging, mounted, edges>>
vars == <<sdVars, ctlVars, devVars>>

Statuses == {"idle", "queued", "running", "signaling", "failed", "signal_sent"}
RequesterPCs == {"ready", "fence", "watchdog", "task", "done"}
WorkerPCs == {"none", "created", "enter", "stage", "drain_wait", "flushed", "pulse", "done"}
WatchdogPCs == {"none", "waiting", "expired", "late"}

TypeOK ==
    /\ SdTypeOK
    /\ status \in Statuses
    /\ pos \in 0 .. 16
    /\ now \in Nat /\ deadline \in Nat /\ started \in Nat
    /\ requester \in RequesterPCs
    /\ worker \in WorkerPCs
    /\ watchdog \in WatchdogPCs
    /\ quiesced \in SUBSET Owners
    /\ busy \in SUBSET Unleased
    /\ logging \in BOOLEAN
    /\ mounted \in BOOLEAN
    /\ edges \in 0 .. 2 * Cycles

Init ==
    /\ SdInit
    /\ status = "idle" /\ pos = 0
    /\ now = 0 /\ deadline = 0 /\ started = 0
    /\ requester = "ready" /\ worker = "none" /\ watchdog = "none"
    /\ quiesced = {} /\ busy = {}
    /\ logging = TRUE /\ mounted = TRUE
    /\ edges = 0

-----------------------------------------------------------------------------
(* The controller's state word *)

Stage == IF pos = 0 THEN "idle" ELSE Order[pos]

ExpirableQueued == status = "queued"                       \* mutant: a running stage is not expired
Expirable == status \in {"queued", "running"}

\* expire(): a compare-and-swap from queued or running; no other state moves.
Expire == status' = IF Expirable THEN "failed" ELSE status

-----------------------------------------------------------------------------
(* cyberdeck_poweroff_request on the UI task *)

\* Runs in a command of the UI task, which then has no SD operation open.
\* Any later call finds a state other than idle and changes nothing.
Request ==
    /\ requester = "ready"
    /\ status = "idle"
    /\ "ui" \notin busy
    /\ status' = "queued"
    /\ deadline' = now + Budget
    /\ requester' = "fence"
    /\ UNCHANGED <<sdVars, pos, now, started, worker, watchdog, devVars>>

RaiseFence ==
    /\ requester = "fence"
    /\ BeginClose(Controller)
    /\ IF Admits
       THEN requester' = "watchdog" /\ UNCHANGED status
       ELSE requester' = "done" /\ Expire
    /\ UNCHANGED <<pos, now, deadline, started, worker, watchdog, devVars>>

CreateWatchdog ==
    /\ requester = "watchdog"
    /\ \/ /\ watchdog' = "waiting"
          /\ requester' = "task"
          /\ UNCHANGED status
       \/ /\ requester' = "done"
          /\ Expire
          /\ UNCHANGED watchdog
    /\ UNCHANGED <<sdVars, pos, now, deadline, started, worker, devVars>>

CreateTask ==
    /\ requester = "task"
    /\ \/ worker' = "created" /\ UNCHANGED status
       \/ Expire /\ UNCHANGED worker
    /\ requester' = "done"
    /\ UNCHANGED <<sdVars, pos, now, deadline, started, watchdog, devVars>>

-----------------------------------------------------------------------------
(* shutdown_watchdog and the clock *)

WatchdogFires ==
    /\ watchdog = "waiting"
    /\ now >= deadline
    /\ watchdog' = IF Expirable THEN "expired" ELSE "late"
    /\ Expire
    /\ UNCHANGED <<sdVars, pos, now, deadline, started, requester, worker, devVars>>

\* Time before the request is irrelevant; ClockBound only bounds the model.
Tick ==
    /\ status # "idle"
    /\ now < ClockBound
    /\ now' = now + 1
    /\ UNCHANGED <<sdVars, status, pos, deadline, started, requester, worker, watchdog, devVars>>

-----------------------------------------------------------------------------
(* controller::execute on the shutdown task *)

\* The task's first step: queued -> running, unless the watchdog was faster.
Begin ==
    /\ worker = "created"
    /\ IF status = "queued"
       THEN status' = "running" /\ started' = now /\ worker' = "enter"
       ELSE worker' = "done" /\ UNCHANGED <<status, started>>
    /\ UNCHANGED <<sdVars, pos, now, deadline, requester, watchdog, devVars>>

\* The plain store of line 63, whatever the word holds by then.
Abort == status' = "failed" /\ worker' = "done"

InBudget == now - started < Budget

AdmittedLate == InBudget   \* mutant: the state word and the deadline are not consulted
\* What must hold for ports::run to do the stage's work at all.
Admitted == InBudget /\ status = "running" /\ now < deadline

\* stage_, the budget, the state word (claimed for good before the signal)
\* and the deadline that firmware_ports::run reads first.
Enter ==
    /\ worker = "enter"
    /\ pos' = pos + 1
    /\ IF Admitted
       THEN /\ worker' = "stage"
            /\ status' = IF Order[pos + 1] = "signal" THEN "signaling" ELSE "running"
       ELSE Abort
    /\ UNCHANGED <<sdVars, now, deadline, started, requester, watchdog, devVars>>

\* run() returned true: the word and the budget are checked once more.
Passed ==
    IF status = "running" /\ InBudget
    THEN worker' = "enter" /\ UNCHANGED status
    ELSE Abort

AtStage(s) == worker = "stage" /\ Stage = s

\* run() returns false: a stop that timed out, an I/O or an I2C error.
StageFails ==
    /\ worker = "stage"
    /\ Stage \notin {"fence", "drain"}
    /\ Abort
    /\ UNCHANGED <<sdVars, pos, now, deadline, started, requester, watchdog, devVars>>

QuiesceOwner ==
    /\ worker = "stage"
    /\ Stage \in Owners \ busy
    /\ quiesced' = quiesced \cup {Stage}
    /\ Passed
    /\ UNCHANGED <<sdVars, pos, now, deadline, started, requester, watchdog,
                   busy, logging, mounted, edges>>

CheckFence ==
    /\ AtStage("fence")
    /\ IF token[Controller] # 0 /\ gate = "closing" THEN Passed ELSE Abort
    /\ UNCHANGED <<sdVars, pos, now, deadline, started, requester, watchdog, devVars>>

StartDrain ==
    /\ AtStage("drain")
    /\ DrainEnter(Controller)
    /\ worker' = "drain_wait"
    /\ UNCHANGED <<status, pos, now, deadline, started, requester, watchdog, devVars>>

FinishDrain ==
    /\ worker = "drain_wait"
    /\ DrainDone(Controller)
    /\ IF persistFailed THEN Abort ELSE Passed
    /\ UNCHANGED <<pos, now, deadline, started, requester, watchdog, devVars>>

\* remaining_ms is what is left to the deadline, which the budget never precedes.
DrainExpires ==
    /\ worker = "drain_wait"
    /\ now >= deadline
    /\ DrainTimedOut(Controller)
    /\ Abort
    /\ UNCHANGED <<pos, now, deadline, started, requester, watchdog, devVars>>

\* Mutant: the log keeps writing after its stage.
QuiesceLogLeaking ==
    /\ AtStage("log")
    /\ Passed
    /\ UNCHANGED <<sdVars, pos, now, deadline, started, requester, watchdog, devVars>>

\* event_log_write_durable, then event_log_quiesce waits for both log tasks.
QuiesceLog ==
    /\ AtStage("log")
    /\ logging' = FALSE
    /\ Passed
    /\ UNCHANGED <<sdVars, pos, now, deadline, started, requester, watchdog,
                   quiesced, busy, mounted, edges>>

StorageReady == gate = "closed" /\ active = 0 /\ ~persistFailed

\* flush_metadata: an error the wrapped disk driver sees is latched in the
\* gate even when FatFS masks it, so success needs both.
FlushMetadata ==
    /\ AtStage("storage")
    /\ StorageReady
    /\ \E diskError \in BOOLEAN :
          /\ persistFailed' = diskError
          /\ IF diskError THEN Abort ELSE worker' = "flushed" /\ UNCHANGED status
    /\ UNCHANGED <<gate, nextId, closeOwner, active, lease, token, fencing, waiting,
                   pos, now, deadline, started, requester, watchdog, devVars>>

StorageNotReady ==
    /\ AtStage("storage")
    /\ ~StorageReady
    /\ Abort
    /\ UNCHANGED <<sdVars, pos, now, deadline, started, requester, watchdog, devVars>>

\* Mutant: a disk error that the unmount masks is not looked for.
UnmountMasked ==
    /\ worker = "flushed"
    /\ mounted' = FALSE
    /\ persistFailed' \in {persistFailed, TRUE}
    /\ Passed
    /\ UNCHANGED <<gate, nextId, closeOwner, active, lease, token, fencing, waiting,
                   pos, now, deadline, started, requester, watchdog,
                   quiesced, busy, logging, edges>>

Unmount ==
    /\ worker = "flushed"
    /\ \/ /\ Abort                                   \* bsp_sdcard_unmount failed
          /\ UNCHANGED <<mounted, persistFailed>>
       \/ /\ mounted' = FALSE
          /\ persistFailed' \in {persistFailed, TRUE}
          /\ IF persistFailed' THEN Abort ELSE Passed
    /\ UNCHANGED <<gate, nextId, closeOwner, active, lease, token, fencing, waiting,
                   pos, now, deadline, started, requester, watchdog,
                   quiesced, busy, logging, edges>>

\* configure(): the expander pin becomes a low push-pull output.
ConfigureSignal ==
    /\ AtStage("signal")
    /\ IF SignalReserve <= deadline - now /\ now + PulseTime <= deadline
       THEN worker' = "pulse" /\ UNCHANGED status
       ELSE Abort
    /\ UNCHANGED <<sdVars, pos, now, deadline, started, requester, watchdog, devVars>>

\* set_level: the first one high rechecks that the whole train still fits.
SetLevel ==
    /\ worker = "pulse"
    /\ edges < 2 * Cycles
    /\ IF edges = 0 /\ now + PulseTime > deadline
       THEN Abort /\ UNCHANGED edges
       ELSE edges' = edges + 1 /\ UNCHANGED <<status, worker>>
    /\ UNCHANGED <<sdVars, pos, now, deadline, started, requester, watchdog,
                   quiesced, busy, logging, mounted>>

\* The I2C transfer of a level change fails: emit_factory_signal gives up.
SetLevelFails ==
    /\ worker = "pulse"
    /\ edges < 2 * Cycles
    /\ Abort
    /\ UNCHANGED <<sdVars, pos, now, deadline, started, requester, watchdog, devVars>>

SignalSent ==
    /\ worker = "pulse"
    /\ edges = 2 * Cycles
    /\ status' = "signal_sent"
    /\ worker' = "done"
    /\ UNCHANGED <<sdVars, pos, now, deadline, started, requester, watchdog, devVars>>

-----------------------------------------------------------------------------
(* The users of the card *)

UseLeased ==
    /\ \E u \in Users : SdUserStep(u)
    /\ UNCHANGED <<ctlVars, devVars>>

\* The UI task admits no command once cyberdeck_poweroff_pending().
StartUnleased(o) ==
    /\ o \in Unleased \ (busy \cup quiesced)
    /\ o = "ui" => status = "idle"
    /\ busy' = busy \cup {o}
    /\ UNCHANGED <<sdVars, ctlVars, quiesced, logging, mounted, edges>>

EndUnleased(o) ==
    /\ o \in busy
    /\ busy' = busy \ {o}
    /\ UNCHANGED <<sdVars, ctlVars, quiesced, logging, mounted, edges>>

\* A record the event log writes without a lease meets a disk error.
LogWriteFails ==
    /\ logging
    /\ persistFailed' = TRUE
    /\ UNCHANGED <<gate, nextId, closeOwner, active, lease, token, fencing, waiting,
                   ctlVars, devVars>>

-----------------------------------------------------------------------------
RequesterStep == Request \/ RaiseFence \/ CreateWatchdog \/ CreateTask

StorageStep == FlushMetadata \/ StorageNotReady \/ Unmount
SignalStep == ConfigureSignal \/ SetLevel \/ SetLevelFails \/ SignalSent
WorkerStep ==
    \/ Begin \/ Enter \/ StageFails
    \/ QuiesceOwner \/ CheckFence
    \/ StartDrain \/ FinishDrain \/ DrainExpires
    \/ QuiesceLog \/ StorageStep \/ SignalStep

UserStep ==
    \/ UseLeased
    \/ \E o \in Unleased : StartUnleased(o) \/ EndUnleased(o)
    \/ LogWriteFails

Next == RequesterStep \/ WatchdogFires \/ Tick \/ WorkerStep \/ UserStep

Spec == Init /\ [][Next]_vars

(* The scheduler runs the requester, the watchdog and the clock, and every *)
(* delay and I2C transfer of the signal returns.  Nothing is assumed of    *)
(* the stages that stop an owner: their calls may never return.            *)
Fairness ==
    /\ WF_vars(RaiseFence \/ CreateWatchdog \/ CreateTask)
    /\ WF_vars(WatchdogFires)
    /\ WF_vars(Tick)
    /\ WF_vars(SignalStep)

FairSpec == Spec /\ Fairness

-----------------------------------------------------------------------------
(* Properties *)

(* The volume is unmounted under nobody's feet: when it is gone no lease is *)
(* held, no unleased user is inside the card, the log has stopped and every *)
(* owner has confirmed that it stopped.                                     *)
UnmountIsExclusive ==
    ~mounted => /\ gate = "closed" /\ Holders = {}
                /\ busy = {} /\ ~logging
                /\ quiesced = Owners

(* The power rail is touched only after a clean unmount: no level changes   *)
(* while the volume is mounted or after any disk error was recorded, even   *)
(* one that FatFS masked.                                                   *)
CutIsSafe == edges > 0 => ~mounted /\ ~persistFailed

(* Once the watchdog has declared the shutdown dead ("live resources        *)
(* retained, reboot required") the rail is never touched, however late the  *)
(* shutdown task resumes.                                                   *)
ExpiredNeverPulses == watchdog = "expired" => edges = 0 /\ status = "failed"

(* "Signal sent" is only reported for the complete train of cycles.         *)
SentIsComplete == status = "signal_sent" => edges = 2 * Cycles

(* The request is one-shot: no step lowers the fence again, not even when   *)
(* the task or the watchdog could not be created.                           *)
FenceIsPermanent == [][(gate # "open") => (gate' # "open" /\ closeOwner' = closeOwner)]_vars

(* A verdict is final: the plain stores at the end of execute never turn a  *)
(* failure into a success or back, whoever else wrote the word.             *)
VerdictIsFinal == [][(status \in {"failed", "signal_sent"}) => status' = status]_vars

(* Every request is answered by a verdict although any owner may hang.      *)
RequestResolves == status = "queued" ~> status \in {"failed", "signal_sent"}

-----------------------------------------------------------------------------
(* What the shutdown promises the rest of the system *)

Verdict ==
    CASE status = "idle" -> "none"
      [] status \in {"queued", "running", "signaling"} -> "pending"
      [] status = "failed" -> "failed"
      [] status = "signal_sent" -> "sent"

Barred == (IF gate = "open" THEN {} ELSE Users) \cup (Unleased \cap quiesced)

Cut == INSTANCE PowerCut WITH
    Clients <- Users \cup Unleased,
    Train <- 2 * Cycles,
    verdict <- Verdict,
    using <- Holders \cup busy,
    barred <- Barred

(* The shutdown implements PowerCut: clients are barred one by one, the     *)
(* volume goes away only under barred and idle clients, and the rail moves  *)
(* only between the unmount and the verdict.                                *)
RefinesPowerCut == Cut!Spec
=============================================================================
