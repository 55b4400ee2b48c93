--------------------------- MODULE ScreenTimeout ----------------------------
(***************************************************************************)
(* How the time-out of the screen reaches the flash (screen_off.cpp): the  *)
(* command changes the policy at once and hands a copy of it to a task,    *)
(* through a gate and a queue that it does not wait for; the shutdown      *)
(* closes the gate, follows the copies with a stop through the same queue, *)
(* and waits for the task to reach it.  The two keys of a copy are written *)
(* one after the other, and a reset may come in between; the next boot     *)
(* takes what it finds, or the default.                                    *)
(*                                                                         *)
(* Switching the screen on and off, and the check of the argument, are     *)
(* left out.  Commands come one after the other, under the display lock.   *)
(***************************************************************************)
EXTENDS Naturals, Sequences

CONSTANTS
    Minutes,            \* the time-outs the user may choose
    Default,            \* default_timeout_minutes
    QueueCapacity       \* PERSISTENCE_QUEUE_CAPACITY

ASSUME ScreenLimits ==
    /\ Minutes \subseteq Nat /\ Default \in Minutes \ {0}
    /\ QueueCapacity \in Nat \ {0}

VARIABLES
    policy,     \* s_state: the time-out in force and the last one that was not 0
    flash,      \* the two keys in the NVS
    copies,     \* s_persistence_queue: copies of the policy, then perhaps the stop
    closing,    \* s_persistence_closing
    failed,     \* s_persistence_failed
    gate,       \* who has s_persistence_gate
    command,    \* where screen_off_set_timeout_minutes() is
    saving,     \* where persistence_task() is
    copy,       \* the copy it handles
    stopped,    \* s_persistence_stopped holds a token
    quiesce,    \* where screen_off_quiesce() is, or what it returned
    accepted    \* history: the last copy that a command returned ESP_OK for

screenVars == <<policy, flash, copies, closing, failed, gate, command, saving, copy, stopped,
                quiesce, accepted>>

Timeouts == [effective : Minutes, positive : Minutes]
StopRequest == [stop |-> TRUE]
DefaultPolicy == [effective |-> Default, positive |-> Default]

\* state::restore(), and the default when it refuses.
Restored(value) ==
    IF value.positive # 0 /\ value.effective \in {0, value.positive} THEN value ELSE DefaultPolicy

ScreenInit ==
    /\ flash = DefaultPolicy
    /\ policy = Restored(flash)
    /\ copies = <<>>
    /\ closing = FALSE /\ failed = FALSE
    /\ gate = "free" /\ command = "idle"
    /\ saving = "receive" /\ copy = DefaultPolicy
    /\ stopped = FALSE /\ quiesce = "none"
    /\ accepted = policy

-----------------------------------------------------------------------------
(* A command of the user.                                                  *)

SetPolicy(minutes) ==
    policy' = [effective |-> minutes, positive |-> IF minutes = 0 THEN policy.positive ELSE minutes]

SetTimeout(minutes) ==
    /\ command = "idle" /\ ~closing
    /\ SetPolicy(minutes)
    /\ command' = "enter"
    /\ UNCHANGED <<flash, copies, closing, failed, gate, saving, copy, stopped, quiesce, accepted>>

\* The gate is not waited for.
EnterGate ==
    /\ command = "enter"
    /\ IF closing \/ gate # "free"
       THEN command' = "idle" /\ UNCHANGED gate
       ELSE command' = "inside" /\ gate' = "command"
    /\ UNCHANGED <<policy, flash, copies, closing, failed, saving, copy, stopped, quiesce, accepted>>

LeaveGate == command' = "idle" /\ gate' = "free"

LookAgain ==
    /\ command = "inside"
    /\ IF closing THEN LeaveGate ELSE command' = "send" /\ UNCHANGED gate
    /\ UNCHANGED <<policy, flash, copies, closing, failed, saving, copy, stopped, quiesce, accepted>>

SendCopy ==
    /\ command = "send"
    /\ LeaveGate
    /\ IF Len(copies) < QueueCapacity
       THEN copies' = Append(copies, policy) /\ accepted' = policy
       ELSE UNCHANGED <<copies, accepted>>
    /\ UNCHANGED <<policy, flash, closing, failed, saving, copy, stopped, quiesce>>

CommandStep == EnterGate \/ LookAgain \/ SendCopy

-----------------------------------------------------------------------------
(* persistence_task()                                                      *)

ReceiveCopy ==
    /\ saving = "receive" /\ copies # <<>>
    /\ copies' = Tail(copies)
    /\ IF Head(copies) = StopRequest
       THEN stopped' = TRUE /\ saving' = "gone" /\ UNCHANGED copy
       ELSE copy' = Head(copies) /\ saving' = "effective" /\ UNCHANGED stopped
    /\ UNCHANGED <<policy, flash, closing, failed, gate, command, quiesce, accepted>>

SavesKey(key, value, next) ==
    \/ /\ flash' = [flash EXCEPT ![key] = value]
       /\ saving' = next
       /\ UNCHANGED failed
    \/ /\ failed' = TRUE
       /\ saving' = "receive"
       /\ UNCHANGED flash

SaveEffective ==
    /\ saving = "effective"
    /\ SavesKey("effective", copy.effective, "positive")
    /\ UNCHANGED <<policy, copies, closing, gate, command, copy, stopped, quiesce, accepted>>

SavePositive ==
    /\ saving = "positive"
    /\ SavesKey("positive", copy.positive, "receive")
    /\ UNCHANGED <<policy, copies, closing, gate, command, copy, stopped, quiesce, accepted>>

TaskStep == ReceiveCopy \/ SaveEffective \/ SavePositive

-----------------------------------------------------------------------------
(* screen_off_quiesce(), which the shutdown calls once; each wait of it    *)
(* may expire.                                                             *)

CloseScreen ==
    /\ quiesce = "none"
    /\ closing' = TRUE
    /\ quiesce' = "gate"
    /\ UNCHANGED <<policy, flash, copies, failed, gate, command, saving, copy, stopped, accepted>>

\* Mutant: the shutdown does not wait for the command that is inside the gate.
GateIsIgnored == gate \in {"free", "command"}

\* The gate is given back at once: who enters it from now on finds it closed.
GateIsPassed == gate = "free"

PassGate ==
    /\ quiesce = "gate" /\ GateIsPassed
    /\ quiesce' = "send"
    /\ UNCHANGED <<policy, flash, copies, closing, failed, gate, command, saving, copy, stopped, accepted>>

SendStop ==
    /\ quiesce = "send" /\ Len(copies) < QueueCapacity
    /\ copies' = Append(copies, StopRequest)
    /\ quiesce' = "join"
    /\ UNCHANGED <<policy, flash, closing, failed, gate, command, saving, copy, stopped, accepted>>

JoinTask ==
    /\ quiesce = "join" /\ stopped
    /\ stopped' = FALSE
    /\ quiesce' = IF failed THEN "failed" ELSE "ok"
    /\ UNCHANGED <<policy, flash, copies, closing, failed, gate, command, saving, copy, accepted>>

QuiesceExpires ==
    /\ quiesce \in {"gate", "send", "join"}
    /\ quiesce' = "late"
    /\ UNCHANGED <<policy, flash, copies, closing, failed, gate, command, saving, copy, stopped, accepted>>

\* The power is cut, or the device resets at any moment; the flash is what it was.
ScreenReset ==
    /\ policy' = Restored(flash) /\ accepted' = policy'
    /\ copies' = <<>>
    /\ closing' = FALSE /\ failed' = FALSE
    /\ gate' = "free" /\ command' = "idle"
    /\ saving' = "receive" /\ copy' = DefaultPolicy
    /\ stopped' = FALSE /\ quiesce' = "none"
    /\ UNCHANGED flash

-----------------------------------------------------------------------------
ScreenNext ==
    \/ \E minutes \in Minutes : SetTimeout(minutes)
    \/ CommandStep
    \/ TaskStep
    \/ CloseScreen \/ PassGate \/ SendStop \/ JoinTask \/ QuiesceExpires
    \/ ScreenReset

ScreenSpec == ScreenInit /\ [][ScreenNext]_screenVars

-----------------------------------------------------------------------------
ScreenTypeOK ==
    /\ {policy, flash, copy, accepted} \subseteq Timeouts
    /\ copies \in Seq(Timeouts \cup {StopRequest})
    /\ {closing, failed, stopped} \subseteq BOOLEAN
    /\ gate \in {"free", "command"} /\ command \in {"idle", "enter", "inside", "send"}
    /\ saving \in {"receive", "effective", "positive", "gone"}
    /\ quiesce \in {"none", "gate", "send", "join", "ok", "failed", "late"}

\* When the shutdown is told that the time-outs are saved, and may cut the power, the
\* next boot restores the last one that a command reported as set: none was still before
\* the gate, inside it, behind the stop in the queue, half written, or failed earlier
\* (screen_off_quiesce(), queue_timeout_persistence() and persistence_task()).
QuiescedIsStored == quiesce = "ok" => Restored(flash) = accepted
=============================================================================
