------------------------------ MODULE Recovery ------------------------------
(***************************************************************************)
(* The boot sequence (main/app_main.cpp) and the record of interrupted     *)
(* boots it rests on (apps/system/cyberdeck_recovery.cpp and               *)
(* cyberdeck_recovery_policy.cpp).  A boot stores a pending record before  *)
(* anything else runs; only a readiness checkpoint or the operator clears  *)
(* it.  A record found pending is an interrupted boot, and after Limit of  *)
(* them safe mode is latched.  The device may reset between any two steps, *)
(* the record may be unreadable, and a save may fail before or after the   *)
(* flash took it.                                                          *)
(***************************************************************************)
EXTENDS Naturals

CONSTANTS
    Limit,      \* k_interrupted_boot_limit
    MaxCount    \* UINT32_MAX, where the counter saturates

ASSUME LimitAssumption == Limit \in Nat \ {0} /\ MaxCount \in Nat /\ Limit < MaxCount

VARIABLES
    nvs,        \* the record in flash; a missing one reads as Fresh
    ram,        \* s_state
    available,  \* s_available
    stage,      \* how far app_main() came
    mode,       \* the services app_main() chose to start
    begun,      \* history: boots in a row that stored a pending record, none acknowledged
    counted     \* history: this boot is one of them

recoveryVars == <<nvs, ram, available, stage, mode, begun, counted>>

Records == [count : 0 .. MaxCount, pending : BOOLEAN, latch : BOOLEAN]
Fresh == [count |-> 0, pending |-> FALSE, latch |-> FALSE]
Stages == {"reset", "loaded", "mounted", "recovered", "starting", "ready"}

RecoveryTypeOK ==
    /\ nvs \in Records /\ ram \in Records
    /\ available \in BOOLEAN /\ counted \in BOOLEAN
    /\ stage \in Stages
    /\ mode \in {"none", "safe", "normal"}
    /\ begun \in 0 .. Limit + 1

RecoveryInit ==
    /\ nvs = Fresh /\ ram = Fresh
    /\ available = FALSE /\ counted = FALSE
    /\ stage = "reset" /\ mode = "none"
    /\ begun = 0

-----------------------------------------------------------------------------
(* Transitions of the record: cyberdeck_recovery_policy.cpp *)

Interrupted(r) == IF r.pending /\ r.count < MaxCount THEN r.count + 1 ELSE r.count

\* Slip: the latch needs one boot more.
BeginBootLate(r) ==
    [count |-> Interrupted(r), pending |-> TRUE, latch |-> r.latch \/ Interrupted(r) > Limit]

BeginBoot(r) ==
    [count |-> Interrupted(r), pending |-> TRUE, latch |-> r.latch \/ Interrupted(r) >= Limit]

\* Slip: a finished boot takes the latch away too.
AcknowledgedUnlatched(r) == Fresh

Acknowledged(r) == [count |-> 0, pending |-> FALSE, latch |-> r.latch]
Cleared(r) == Fresh

SafeMode == ~available \/ ram.latch

\* save(): a reported success is stored, a failure may be stored all the same.
Save(r, ok) == \E stored \in BOOLEAN :
    /\ ok => stored
    /\ nvs' = IF stored THEN r ELSE nvs
    /\ counted' = (counted \/ stored)
    /\ begun' = IF ~stored THEN begun
                ELSE IF ~r.pending THEN 0
                ELSE IF counted \/ begun > Limit THEN begun ELSE begun + 1

\* save_after_transition(): memory follows the flash only when the save is reported good.
SaveTransition(r) == \E ok \in BOOLEAN :
    /\ Save(r, ok)
    /\ ram' = IF ok THEN r ELSE ram

-----------------------------------------------------------------------------
(* app_main() *)

\* init(): the record is used even when it could not be saved.
LoadRecord ==
    /\ stage = "reset"
    /\ stage' = "loaded" /\ available' = TRUE
    /\ ram' = BeginBoot(nvs)
    /\ \E ok \in BOOLEAN : Save(BeginBoot(nvs), ok)
    /\ UNCHANGED mode

\* The flash or the record cannot be read: never erased, never written in this boot.
RecordUnreadable ==
    /\ stage = "reset"
    /\ stage' = "loaded" /\ available' = FALSE
    /\ UNCHANGED <<nvs, ram, mode, begun, counted>>

MountCard ==
    /\ stage = "loaded"
    /\ stage' = "mounted"
    /\ UNCHANGED <<nvs, ram, available, mode, begun, counted>>

RecoverStorage ==
    /\ stage = "mounted"
    /\ stage' = "recovered"
    /\ UNCHANGED <<nvs, ram, available, mode, begun, counted>>

ChooseServices ==
    /\ stage = "recovered"
    /\ stage' = "starting"
    /\ mode' = IF SafeMode THEN "safe" ELSE "normal"
    /\ UNCHANGED <<nvs, ram, available, begun, counted>>

\* record_app_error() of a service that did not start.
RecordAppError ==
    /\ stage = "starting" /\ available
    /\ SaveTransition(ram)
    /\ UNCHANGED <<available, stage, mode>>

\* cyberdeck_system_apps_commit_ready(); a record that is not pending is refused.
Checkpoint ==
    /\ stage = "starting"
    /\ stage' = "ready"
    /\ IF available /\ ram.pending THEN SaveTransition(Acknowledged(ram))
       ELSE UNCHANGED <<nvs, ram, begun, counted>>
    /\ UNCHANGED <<available, mode>>

\* An essential service did not start: the boot stays pending.
CheckpointDeferred ==
    /\ stage = "starting"
    /\ stage' = "ready"
    /\ UNCHANGED <<nvs, ram, available, mode, begun, counted>>

\* "sys.safe_mode.clear", from the moment the serial bridge runs.
ClearSafeMode ==
    /\ stage \in {"starting", "ready"} /\ available
    /\ SaveTransition(Cleared(ram))
    /\ UNCHANGED <<available, stage, mode>>

\* An abort of app_main(), a watchdog, the button or the battery.
Reset ==
    /\ stage # "reset"
    /\ stage' = "reset" /\ mode' = "none" /\ available' = FALSE
    /\ ram' = Fresh /\ counted' = FALSE
    /\ UNCHANGED <<nvs, begun>>

\* Everything but the steps that touch the files too.
RecoveryStep ==
    \/ LoadRecord \/ RecordUnreadable \/ MountCard \/ ChooseServices
    \/ RecordAppError \/ Checkpoint \/ CheckpointDeferred \/ ClearSafeMode

-----------------------------------------------------------------------------
\* Limit boots in a row that were begun and never acknowledged latch safe mode
\* for the next one, in flash and in what this boot decides by, although
\* saves and reads fail now and then (cyberdeck_recovery_policy.cpp:22).
BootLoopCaught ==
    /\ begun > Limit => nvs.latch /\ (stage # "reset" => SafeMode)
    /\ begun = Limit /\ stage # "reset" /\ ~counted => SafeMode

\* The latch in flash disappears by the operator's command only: no checkpoint,
\* error record or boot with older memory writes it away (cyberdeck_recovery.cpp:85).
LatchOnlyClearedByOperator == [][nvs.latch /\ ~nvs'.latch => ClearSafeMode]_recoveryVars
=============================================================================
