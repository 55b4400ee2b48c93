---------------------------- MODULE LvglDispatch ----------------------------
(***************************************************************************)
(* Handing a function to the LVGL task and waiting for it with a budget:   *)
(* platform/display/cyberdeck_lvgl_dispatch(.cpp, _state.cpp).  One Job    *)
(* slot is shared by all callers; the binary semaphore s_admission decides *)
(* whose it is.  A caller that runs out of budget leaves a running         *)
(* callback "detached", and the callback then gives the admission back in  *)
(* its place.  Every atomic operation on Job::status is an action; an      *)
(* expired wait is an alternative that is always possible.                 *)
(***************************************************************************)
EXTENDS Integers, FiniteSets

CONSTANTS
    Callers,        \* tasks that call run(), each with a frame buffer as ctx
    TokenSpace,     \* k_token_mask + 1: tokens are stored modulo this
    MaxTokens       \* model bound on s_generation

ASSUME CallersAssumption == IsFiniteSet(Callers)
ASSUME TokenSpaceAssumption == TokenSpace \in Nat /\ TokenSpace > 1
ASSUME MaxTokensAssumption == MaxTokens \in Nat

VARIABLES
    jobStatus,  \* Job::status: state and masked token in one word
    result,     \* Job::result
    payload,    \* Job::payload: whose ctx, published for which operation
    admission,  \* s_admission, 1 when free
    doneSem,    \* s_done
    generation, \* s_generation
    async,      \* tokens of the lv_async_call callbacks that have not run
    pc,         \* where each caller is in run()
    op,         \* its local token
    success,    \* what its last run() returned
    frame,      \* the operation that last wrote the caller's buffer
    cb,         \* where dispatch_callback is
    cbPayload,  \* its copy of the payload
    cbOwner     \* what finish() told it

jobVars == <<jobStatus, result, payload>>
semVars == <<admission, doneSem>>
callerVars == <<pc, op, success>>
cbVars == <<async, frame, cb, cbPayload, cbOwner>>
dispatchVars == <<jobVars, semVars, generation, callerVars, cbVars>>

JobStates == {"idle", "queued", "running", "detached", "finishing", "finishing_detached",
              "done", "cancelled"}
Terminal == {"idle", "done", "cancelled"}

Ops == 0 .. MaxTokens
NoPayload == [ctx |-> "none", op |-> 0]
Payloads == [ctx : Callers, op : Ops] \cup {NoPayload}

CallerPCs == {"idle", "admitted", "store", "publish", "lock", "submit", "check", "block", "expired",
              "grace_check", "grace_block", "detach", "verify", "collect", "abandon", "refused", "reading"}
CallbackPCs == {"idle", "claimed", "call", "finish", "store", "publish", "signal", "release"}

DispatchTypeOK ==
    /\ jobStatus \in [state : JobStates, token : 0 .. TokenSpace - 1]
    /\ result \in BOOLEAN
    /\ payload \in Payloads
    /\ admission \in {0, 1} /\ doneSem \in {0, 1}
    /\ generation \in Ops
    /\ async \in SUBSET Ops
    /\ pc \in [Callers -> CallerPCs]
    /\ op \in [Callers -> Ops]
    /\ success \in [Callers -> BOOLEAN]
    /\ frame \in [Callers -> Ops]
    /\ cb \in CallbackPCs
    /\ cbPayload \in Payloads
    /\ cbOwner \in {"caller", "callback"}

DispatchInit ==
    /\ jobStatus = [state |-> "idle", token |-> 0]
    /\ result = FALSE
    /\ payload = NoPayload
    /\ admission = 1 /\ doneSem = 0
    /\ generation = 0
    /\ async = {}
    /\ pc = [c \in Callers |-> "idle"]
    /\ op = [c \in Callers |-> 0]
    /\ success = [c \in Callers |-> FALSE]
    /\ frame = [c \in Callers |-> 0]
    /\ cb = "idle" /\ cbPayload = NoPayload /\ cbOwner = "caller"

-----------------------------------------------------------------------------
(* Job, the state word *)

InState(s) == jobStatus.state = s
Move(s) == jobStatus' = [jobStatus EXCEPT !.state = s]
CallerAt(c, p) == pc[c] = p
Goto(c, p) == pc' = [pc EXCEPT ![c] = p]

\* xSemaphoreGive of a binary semaphore that is already given changes nothing.
Give(sem) == sem' = 1

Return(c, value) ==
    /\ Goto(c, IF value THEN "reading" ELSE "idle")
    /\ success' = [success EXCEPT ![c] = value]

-----------------------------------------------------------------------------
(* run() on a worker task *)

TakeAdmission(c) ==
    /\ CallerAt(c, "idle")
    /\ generation < MaxTokens
    /\ admission = 1
    /\ admission' = 0
    /\ Goto(c, "admitted")
    /\ UNCHANGED <<jobVars, doneSem, generation, op, success, cbVars>>

\* The budget ends in the wait for the admission.
AdmissionTimeout(c) ==
    /\ CallerAt(c, "idle")
    /\ admission = 0
    /\ success' = [success EXCEPT ![c] = FALSE]
    /\ UNCHANGED <<jobVars, semVars, generation, pc, op, cbVars>>

\* next_token() skips the values whose stored token would be 0.
NextRaw == IF (generation + 1) % TokenSpace = 0 THEN generation + 2 ELSE generation + 1

\* A done signal left over by an earlier operation is drained first.
DrainAndNumber(c) ==
    /\ CallerAt(c, "admitted")
    /\ NextRaw <= MaxTokens
    /\ doneSem' = 0
    /\ generation' = NextRaw
    /\ op' = [op EXCEPT ![c] = NextRaw]
    /\ Goto(c, "store")
    /\ UNCHANGED <<jobVars, admission, success, cbVars>>

\* queue(): result and payload are written before the word is swapped.
QueueStore(c) ==
    /\ CallerAt(c, "store")
    /\ IF jobStatus.state \in Terminal
       THEN /\ result' = FALSE
            /\ payload' = [ctx |-> c, op |-> op[c]]
            /\ Goto(c, "publish")
       ELSE Goto(c, "refused") /\ UNCHANGED <<result, payload>>
    /\ UNCHANGED <<jobStatus, semVars, generation, op, success, cbVars>>

QueuePublish(c) ==
    /\ CallerAt(c, "publish")
    /\ IF jobStatus.state \in Terminal
       THEN /\ jobStatus' = [state |-> "queued", token |-> op[c] % TokenSpace]
            /\ Goto(c, "lock")
       ELSE Goto(c, "store") /\ UNCHANGED jobStatus
    /\ UNCHANGED <<result, payload, semVars, generation, op, success, cbVars>>

\* bsp_display_lock with its own bound.
LockDisplay(c) ==
    /\ CallerAt(c, "lock")
    /\ Goto(c, "submit") \/ Goto(c, "abandon")
    /\ UNCHANGED <<jobVars, semVars, generation, op, success, cbVars>>

Submit(c) ==
    /\ CallerAt(c, "submit")
    /\ \/ async' = async \cup {op[c]} /\ Goto(c, "check")
       \/ Goto(c, "abandon") /\ UNCHANGED async
    /\ UNCHANGED <<jobVars, semVars, generation, op, success, frame, cb, cbPayload, cbOwner>>

\* The loop condition of a wait; the budget may be used up when it is evaluated.
CheckDone(c, check, block, done, expired) ==
    /\ CallerAt(c, check)
    /\ IF InState("done") THEN Goto(c, done) ELSE Goto(c, block) \/ Goto(c, expired)
    /\ UNCHANGED <<jobVars, semVars, generation, op, success, cbVars>>

\* xSemaphoreTake(s_done, left): a signal ends the wait, and so may the clock.
BlockOnDone(c, check, block, expired) ==
    /\ CallerAt(c, block)
    /\ IF doneSem = 1
       THEN doneSem' = 0 /\ Goto(c, check)
       ELSE Goto(c, expired) /\ UNCHANGED doneSem
    /\ UNCHANGED <<jobVars, admission, generation, op, success, cbVars>>

\* Slip: the wait after the budget has no bound of its own.
WaitUnbounded(c) ==
    \/ CheckDone(c, "check", "block", "collect", "expired")
    \/ BlockOnDone(c, "check", "block", "expired")
    \/ CallerAt(c, "grace_check") /\ InState("done") /\ CheckDone(c, "grace_check", "grace_block", "detach", "detach")
    \/ BlockOnDone(c, "grace_check", "grace_block", "detach")

Wait(c) ==
    \/ CheckDone(c, "check", "block", "collect", "expired")
    \/ BlockOnDone(c, "check", "block", "expired")
    \/ CheckDone(c, "grace_check", "grace_block", "detach", "detach")
    \/ BlockOnDone(c, "grace_check", "grace_block", "detach")

\* Slip: cancel() withdraws a job that is already running.
ExpireCancelsRunning(c) ==
    /\ CallerAt(c, "expired")
    /\ \/ InState("done") /\ Goto(c, "collect") /\ UNCHANGED <<jobStatus, admission, success>>
       \/ jobStatus.state \in {"queued", "running"} /\ Move("cancelled") /\ Give(admission) /\ Return(c, FALSE)
       \/ jobStatus.state \notin {"done", "queued", "running"} /\ Goto(c, "grace_check")
             /\ UNCHANGED <<jobStatus, admission, success>>
    /\ UNCHANGED <<result, payload, doneSem, generation, op, cbVars>>

\* The budget is over: a late result is still taken, a queued job is withdrawn.
ExpireWait(c) ==
    /\ CallerAt(c, "expired")
    /\ \/ InState("done") /\ Goto(c, "collect") /\ UNCHANGED <<jobStatus, admission, success>>
       \/ InState("queued") /\ Move("cancelled") /\ Give(admission) /\ Return(c, FALSE)
       \/ jobStatus.state \notin {"done", "queued"} /\ Goto(c, "grace_check")
             /\ UNCHANGED <<jobStatus, admission, success>>
    /\ UNCHANGED <<result, payload, doneSem, generation, op, cbVars>>

CallbackKeepsAdmission == jobStatus.state \in {"running", "detached", "finishing_detached"}

\* detach_or_observe_done() after the grace: a finishing callback is waited
\* for by a bounded spin, so the caller may give up on it and keep the release.
Detach(c) ==
    /\ CallerAt(c, "detach")
    /\ IF CallbackKeepsAdmission
       THEN /\ IF InState("running") THEN Move("detached") ELSE UNCHANGED jobStatus
            /\ Return(c, FALSE)
       ELSE Goto(c, "verify") /\ UNCHANGED <<jobStatus, success>>
    /\ UNCHANGED <<result, payload, semVars, generation, op, cbVars>>

\* The caller keeps the release: is_done() decides whether result counts.
Verify(c) ==
    /\ CallerAt(c, "verify")
    /\ Give(admission)
    /\ Return(c, InState("done") /\ result)
    /\ UNCHANGED <<jobVars, doneSem, generation, op, cbVars>>

Collect(c) ==
    /\ CallerAt(c, "collect")
    /\ Give(admission)
    /\ Return(c, result)
    /\ UNCHANGED <<jobVars, doneSem, generation, op, cbVars>>

\* abandon(true): the job was published but never reached LVGL.
\* abandon(false): queue() was rejected, the slot is somebody else's.
Abandon(c) ==
    /\ \/ /\ CallerAt(c, "abandon") /\ InState("queued")
          /\ Move("cancelled")
          /\ Give(admission)
       \/ /\ CallerAt(c, "refused") \/ ~InState("queued")
          /\ pc[c] \in {"abandon", "refused"}
          /\ IF InState("running") THEN Move("detached") ELSE UNCHANGED jobStatus
          /\ IF CallbackKeepsAdmission THEN UNCHANGED admission ELSE Give(admission)
    /\ Return(c, FALSE)
    /\ UNCHANGED <<result, payload, doneSem, generation, op, cbVars>>

\* The caller copies the frame after a successful run() and is free again.
FinishReading(c) ==
    /\ CallerAt(c, "reading")
    /\ Goto(c, "idle")
    /\ UNCHANGED <<jobVars, semVars, generation, op, success, cbVars>>

-----------------------------------------------------------------------------
(* dispatch_callback on the LVGL task *)

\* Slip: the claim compares the token and not the state.
CallbackStartAnyState(t) ==
    /\ cb = "idle"
    /\ t \in async
    /\ async' = async \ {t}
    /\ IF jobStatus.token = t % TokenSpace
       THEN Move("running") /\ cb' = "claimed"
       ELSE UNCHANGED <<jobStatus, cb>>
    /\ UNCHANGED <<result, payload, semVars, generation, callerVars, frame, cbPayload, cbOwner>>

\* A callback whose token was cancelled or superseded loses the claim and ends.
CallbackStart(t) ==
    /\ cb = "idle"
    /\ t \in async
    /\ async' = async \ {t}
    /\ IF jobStatus = [state |-> "queued", token |-> t % TokenSpace]
       THEN Move("running") /\ cb' = "claimed"
       ELSE UNCHANGED <<jobStatus, cb>>
    /\ UNCHANGED <<result, payload, semVars, generation, callerVars, frame, cbPayload, cbOwner>>

ClaimPayload ==
    /\ cb = "claimed"
    /\ cbPayload' = payload
    /\ cb' = "call"
    /\ UNCHANGED <<jobVars, semVars, generation, callerVars, async, frame, cbOwner>>

\* payload.fn(payload.ctx) writes the caller's buffer.
CallFn ==
    /\ cb = "call"
    /\ frame' = [frame EXCEPT ![cbPayload.ctx] = cbPayload.op]
    /\ cb' = "finish"
    /\ UNCHANGED <<jobVars, semVars, generation, callerVars, async, cbPayload, cbOwner>>

FinishClaim ==
    /\ cb = "finish"
    /\ \/ InState("running") /\ Move("finishing") /\ cbOwner' = "caller" /\ cb' = "store"
       \/ InState("detached") /\ Move("finishing_detached") /\ cbOwner' = "callback" /\ cb' = "store"
       \/ jobStatus.state \notin {"running", "detached"} /\ cbOwner' = "caller" /\ cb' = "signal"
             /\ UNCHANGED jobStatus
    /\ UNCHANGED <<result, payload, semVars, generation, callerVars, async, frame, cbPayload>>

FinishStore ==
    /\ cb = "store"
    /\ result' = TRUE
    /\ cb' = "publish"
    /\ UNCHANGED <<jobStatus, payload, semVars, generation, callerVars, async, frame, cbPayload, cbOwner>>

FinishPublish ==
    /\ cb = "publish"
    /\ Move("done")
    /\ cb' = "signal"
    /\ UNCHANGED <<result, payload, semVars, generation, callerVars, async, frame, cbPayload, cbOwner>>

\* Slip: only a callback that has to give the admission back signals.
SignalDoneNotDetached ==
    /\ cb = "signal"
    /\ IF cbOwner = "callback" THEN Give(doneSem) ELSE UNCHANGED doneSem
    /\ cb' = IF cbOwner = "callback" THEN "release" ELSE "idle"
    /\ UNCHANGED <<jobVars, admission, generation, callerVars, async, frame, cbPayload, cbOwner>>

\* Slip: the callback never gives the admission back.
SignalDoneKeeping ==
    /\ cb = "signal"
    /\ Give(doneSem)
    /\ cb' = "idle"
    /\ UNCHANGED <<jobVars, admission, generation, callerVars, async, frame, cbPayload, cbOwner>>

SignalDone ==
    /\ cb = "signal"
    /\ Give(doneSem)
    /\ cb' = IF cbOwner = "callback" THEN "release" ELSE "idle"
    /\ UNCHANGED <<jobVars, admission, generation, callerVars, async, frame, cbPayload, cbOwner>>

CallbackRelease ==
    /\ cb = "release"
    /\ Give(admission)
    /\ cb' = "idle"
    /\ cbOwner' = "caller"
    /\ UNCHANGED <<jobVars, doneSem, generation, callerVars, async, frame, cbPayload>>

-----------------------------------------------------------------------------
RunStep(c) ==
    \/ DrainAndNumber(c) \/ QueueStore(c) \/ QueuePublish(c)
    \/ LockDisplay(c) \/ Submit(c) \/ Wait(c) \/ ExpireWait(c)
    \/ Detach(c) \/ Verify(c) \/ Collect(c) \/ Abandon(c)

CallerStep(c) ==
    TakeAdmission(c) \/ AdmissionTimeout(c) \/ RunStep(c) \/ FinishReading(c)

CallbackStep ==
    \/ \E t \in async : CallbackStart(t)
    \/ ClaimPayload \/ CallFn
    \/ FinishClaim \/ FinishStore \/ FinishPublish
    \/ SignalDone \/ CallbackRelease

DispatchNext == CallbackStep \/ \E c \in Callers : CallerStep(c)

DispatchSpec == DispatchInit /\ [][DispatchNext]_dispatchVars

\* The scheduler runs every worker task; the LVGL task may be stuck in a callback.
CallersRun == \A c \in Callers : WF_dispatchVars(RunStep(c))
CallerFairSpec == DispatchSpec /\ CallersRun

\* The LVGL task runs as well and every callback function returns.
CallbackRuns == WF_dispatchVars(CallbackStep)

-----------------------------------------------------------------------------
(* Properties *)

HoldingPCs == CallerPCs \ {"idle", "reading"}
AdmittedCallers == {c \in Callers : pc[c] \in HoldingPCs}

\* The callback will give the admission back in the place of a caller that left.
CallbackOwes == jobStatus.state = "detached" \/ cbOwner = "callback"

(* The slot has exactly one owner at any time: it is free, or one caller    *)
(* holds it, or a detached callback owes its release.  Two releases or a    *)
(* lost one, in whatever order caller and callback settle, would break it.  *)
OneAdmission ==
    /\ \A c, d \in AdmittedCallers : c = d
    /\ admission = 1 => AdmittedCallers = {} /\ ~CallbackOwes
    /\ CallbackOwes => AdmittedCallers = {}
    /\ admission = 0 => AdmittedCallers # {} \/ CallbackOwes

(* A caller that is told "success" finds in its buffer what its own         *)
(* operation wrote, and nobody writes that buffer while it is being read:   *)
(* neither a stale callback nor one that was detached by an earlier call.   *)
FrameIsOwn ==
    \A c \in Callers : CallerAt(c, "reading") =>
        /\ frame[c] = op[c]
        /\ ~(cb \in {"claimed", "call"} /\ payload.ctx = c)

(* The payload the callback runs is the one of the operation it claimed,    *)
(* even when the slot was cancelled and armed again in between.             *)
ClaimedPayloadIsCurrent ==
    cb \in {"call", "finish"} => cbPayload = payload

(* A caller never sleeps through its own completion: when the job is done   *)
(* and the callback has gone on, the signal is there to be taken.           *)
NoLostWakeup ==
    \A c \in Callers :
        pc[c] \in {"block", "grace_block"} /\ InState("done") => doneSem = 1 \/ cb = "signal"

(* run() always comes back, even when the LVGL task is stuck for ever.      *)
RunReturns == \A c \in Callers : pc[c] \in HoldingPCs ~> pc[c] \notin HoldingPCs

(* When the LVGL task runs, the slot always becomes free again, whoever     *)
(* timed out in the meantime.                                               *)
AdmissionComesBack == CallbackRuns => (admission = 0 ~> admission = 1)
=============================================================================
