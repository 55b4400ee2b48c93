--------------------------- MODULE StorageProofs ---------------------------
(***************************************************************************)
(* Proofs about what must outlive an interruption: the boot record and the *)
(* save transaction, for every limit, every number of contents and every   *)
(* schedule of resets and failures, and the time-out of the screen, for    *)
(* any length of its queue.                                                *)
(***************************************************************************)
EXTENDS SafeSave, ScreenTimeout, TLAPS

-----------------------------------------------------------------------------
(* The boot record *)

\* What the record in flash and the one in memory know of the boots begun.
LatchInv ==
    /\ ~nvs.pending => begun = 0
    /\ nvs.pending => begun <= nvs.count + 1
    /\ begun > Limit => nvs.latch
    /\ stage = "reset" => ~counted
    /\ stage # "reset" /\ ~available => ~counted
    /\ stage # "reset" /\ available /\ ~counted => ram = BeginBoot(nvs)
    /\ stage # "reset" /\ available /\ counted =>
        /\ ~ram.pending => begun = 0
        /\ ram.pending => begun <= ram.count + 1
        /\ begun > Limit => ram.latch
        /\ nvs.latch => ram.latch

BootInv == RecoveryTypeOK /\ LatchInv

\* begin_boot() keeps the type of a record, counts the interrupted boot and latches at the limit.
LEMMA BeginBootFacts ==
    ASSUME NEW r \in Records
    PROVE  /\ BeginBoot(r) \in Records
           /\ BeginBoot(r).pending
           /\ r.latch => BeginBoot(r).latch
           /\ r.pending => BeginBoot(r).count = MaxCount \/ BeginBoot(r).count = r.count + 1
           /\ BeginBoot(r).count >= Limit => BeginBoot(r).latch
<1>1. r.count \in 0 .. MaxCount /\ r.pending \in BOOLEAN /\ r.latch \in BOOLEAN
    BY DEF Records
<1>2. Interrupted(r) \in 0 .. MaxCount
    BY <1>1, LimitAssumption DEF Interrupted
<1>3. (r.latch \/ Interrupted(r) >= Limit) \in BOOLEAN
    OBVIOUS
<1>4. BeginBoot(r) \in Records
    BY <1>2, <1>3 DEF Records, BeginBoot
<1>5. r.pending => Interrupted(r) = MaxCount \/ Interrupted(r) = r.count + 1
    BY <1>1, LimitAssumption DEF Interrupted
<1>6. QED BY <1>4, <1>5 DEF BeginBoot

\* The flash never knows of a latch that the memory of a booted device lacks.
LEMMA MemoryKnowsLatch ==
    ASSUME BootInv, stage # "reset", available, nvs.latch
    PROVE  ram.latch
<1>1. CASE counted
    BY <1>1 DEF BootInv, LatchInv
<1>2. CASE ~counted
    BY <1>2, BeginBootFacts DEF BootInv, LatchInv, RecoveryTypeOK
<1>3. QED BY <1>1, <1>2

\* save() of a record that knows at least what was begun.
LEMMA SaveStep ==
    ASSUME NEW r \in Records, NEW ok \in BOOLEAN, Save(r, ok),
           RecoveryTypeOK, LatchInv,
           r.pending /\ counted => begun <= r.count + 1,
           r.pending /\ ~counted => begun <= r.count /\ (begun >= Limit => r.latch),
           r.pending /\ begun > Limit => r.latch
    PROVE  /\ nvs' \in Records /\ counted' \in BOOLEAN /\ begun' \in 0 .. Limit + 1
           /\ ~nvs'.pending => begun' = 0
           /\ nvs'.pending => begun' <= nvs'.count + 1
           /\ begun' > Limit => nvs'.latch
           /\ r.pending => /\ begun' <= r.count + 1
                           /\ begun' > Limit => r.latch
           /\ ~r.pending /\ nvs' = r => begun' = 0
           /\ ok => nvs' = r /\ counted'
           /\ (nvs' = r /\ counted') \/ (nvs' = nvs /\ begun' = begun /\ counted' = counted)
<1>1. PICK stored \in BOOLEAN :
        /\ ok => stored
        /\ nvs' = IF stored THEN r ELSE nvs
        /\ counted' = (counted \/ stored)
        /\ begun' = IF ~stored THEN begun
                    ELSE IF ~r.pending THEN 0
                    ELSE IF counted \/ begun > Limit THEN begun ELSE begun + 1
    BY Zenon DEF Save
<1>2. /\ r.count \in Nat /\ r.pending \in BOOLEAN /\ r.latch \in BOOLEAN
      /\ nvs.count \in Nat /\ nvs.pending \in BOOLEAN /\ nvs.latch \in BOOLEAN
      /\ begun \in 0 .. Limit + 1 /\ counted \in BOOLEAN /\ Limit \in Nat \ {0}
    BY LimitAssumption DEF RecoveryTypeOK, Records
<1>3. CASE stored
  <2>1. CASE ~r.pending
    <3>1. nvs' = r /\ counted' /\ begun' = 0
      BY <1>1, <1>3, <2>1
    <3>2. QED BY <1>1, <1>2, <2>1, <3>1
  <2>2. CASE r.pending /\ counted
    BY <1>1, <1>2, <1>3, <2>2
  <2>3. CASE r.pending /\ ~counted /\ begun > Limit
    BY <1>1, <1>2, <1>3, <2>3
  <2>4. CASE r.pending /\ ~counted /\ begun <= Limit
    <3>1. nvs' = r /\ counted' /\ begun' = begun + 1
      <4>1. nvs' = r /\ counted'
        BY <1>1, <1>3
      <4>2. ~(begun > Limit)
        BY <1>2, <2>4
      <4>3. begun' = begun + 1
        BY <1>1, <1>3, <2>4, <4>2
      <4>4. QED BY <4>1, <4>3
    <3>2. begun <= r.count /\ (begun >= Limit => r.latch)
      BY <2>4
    <3>3. begun' \in 0 .. Limit + 1 /\ begun' <= r.count + 1
      BY <1>2, <2>4, <3>1, <3>2
    <3>4. begun' > Limit => r.latch
      BY <1>2, <3>1, <3>2
    <3>5. QED BY <1>1, <1>2, <2>4, <3>1, <3>3, <3>4
  <2>5. QED BY <1>2, <2>1, <2>2, <2>3, <2>4
<1>4. CASE ~stored
  <2>1. nvs' = nvs /\ begun' = begun /\ counted' = counted /\ ~ok
    BY <1>1, <1>2, <1>4
  <2>2. /\ ~nvs.pending => begun = 0
        /\ nvs.pending => begun <= nvs.count + 1
        /\ begun > Limit => nvs.latch
    BY DEF LatchInv
  <2>3. r.pending => begun <= r.count + 1 /\ (begun > Limit => r.latch)
    BY <1>2
  <2>4. nvs = r => (~r.pending => begun = 0)
    BY <2>2
  <2>5. nvs \in Records
    BY DEF RecoveryTypeOK
  <2>6. QED BY <1>2, <2>1, <2>2, <2>3, <2>4, <2>5
<1>5. QED BY <1>3, <1>4

\* What a booted device holds in memory counts every boot begun so far.
LEMMA MemoryCounts ==
    ASSUME BootInv, stage # "reset", available
    PROVE  /\ ram.pending /\ counted => begun <= ram.count + 1
           /\ ram.pending /\ ~counted => begun <= ram.count /\ (begun >= Limit => ram.latch)
           /\ ram.pending /\ begun > Limit => ram.latch
           /\ ~ram.pending => begun = 0 /\ counted
           /\ nvs.latch => ram.latch
<1>1. /\ ram \in Records /\ nvs \in Records /\ begun \in 0 .. Limit + 1 /\ counted \in BOOLEAN
      /\ Limit \in Nat \ {0} /\ available \in BOOLEAN
    BY LimitAssumption DEF BootInv, RecoveryTypeOK
<1>2. /\ nvs.count \in Nat /\ nvs.pending \in BOOLEAN /\ ram.count \in Nat /\ ram.pending \in BOOLEAN
      /\ nvs.latch \in BOOLEAN /\ ram.latch \in BOOLEAN
    BY <1>1 DEF Records
<1>3. CASE counted
    BY <1>3, <1>1, <1>2 DEF BootInv, LatchInv
<1>4. CASE ~counted
  <2>1. ram = BeginBoot(nvs)
    BY <1>4 DEF BootInv, LatchInv
  <2>2. /\ ram.pending /\ (nvs.pending => ram.count = MaxCount \/ ram.count = nvs.count + 1)
        /\ (ram.count >= Limit => ram.latch) /\ (nvs.latch => ram.latch)
    BY <1>1, <2>1, BeginBootFacts
  <2>3. begun <= ram.count
    <3>1. CASE nvs.pending /\ ram.count = nvs.count + 1
      BY <1>1, <1>2, <3>1 DEF BootInv, LatchInv
    <3>2. CASE ram.count = MaxCount
      BY <1>1, <3>2, LimitAssumption
    <3>3. CASE ~nvs.pending
      BY <1>1, <1>2, <3>3 DEF BootInv, LatchInv
    <3>4. QED BY <2>2, <3>1, <3>2, <3>3
  <2>4. begun >= Limit => ram.latch
    BY <1>1, <1>2, <2>2, <2>3
  <2>5. QED BY <1>1, <1>4, <2>2, <2>3, <2>4
<1>5. QED BY <1>1, <1>3, <1>4

\* A save of what memory holds, as it is or acknowledged.
LEMMA TransitionStep ==
    ASSUME NEW r \in Records, BootInv, stage # "reset", available, SaveTransition(r),
           r = ram \/ ~r.pending, r.latch => ram.latch,
           stage' \in Stages \ {"reset"}, available' = available, mode' = mode
    PROVE  BootInv'
<1>1. PICK ok \in BOOLEAN : Save(r, ok) /\ ram' = IF ok THEN r ELSE ram
    BY Zenon DEF SaveTransition
<1>2. RecoveryTypeOK /\ LatchInv
    BY DEF BootInv
<1>3. /\ r.pending /\ counted => begun <= r.count + 1
      /\ r.pending /\ ~counted => begun <= r.count /\ (begun >= Limit => r.latch)
      /\ r.pending /\ begun > Limit => r.latch
    BY MemoryCounts
<1>4. /\ nvs' \in Records /\ counted' \in BOOLEAN /\ begun' \in 0 .. Limit + 1
      /\ ~nvs'.pending => begun' = 0
      /\ nvs'.pending => begun' <= nvs'.count + 1
      /\ begun' > Limit => nvs'.latch
      /\ r.pending => /\ begun' <= r.count + 1
                      /\ begun' > Limit => r.latch
      /\ ~r.pending /\ nvs' = r => begun' = 0
      /\ ok => nvs' = r /\ counted'
      /\ (nvs' = r /\ counted') \/ (nvs' = nvs /\ begun' = begun /\ counted' = counted)
    BY <1>1, <1>2, <1>3, SaveStep, Zenon
<1>5. RecoveryTypeOK'
    BY <1>1, <1>2, <1>4 DEF RecoveryTypeOK
<1>6. CASE ok
  <2>1. ram' = r /\ nvs' = r /\ counted'
    BY <1>1, <1>4, <1>6
  <2>2. ~ram'.pending => begun' = 0
    BY <1>4, <2>1
  <2>3. ram'.pending => begun' <= ram'.count + 1
    BY <1>4, <2>1
  <2>4. begun' > Limit => ram'.latch
    BY <1>4, <2>1
  <2>5. QED BY <1>4, <1>5, <2>1, <2>2, <2>3, <2>4 DEF BootInv, LatchInv
<1>7. CASE ~ok
  <2>1. ram' = ram
    BY <1>1, <1>7
  <2>2. CASE nvs' = nvs /\ begun' = begun /\ counted' = counted
    BY <1>2, <1>5, <2>1, <2>2 DEF BootInv, LatchInv
  <2>3. CASE nvs' = r /\ counted'
    <3>1. nvs'.latch => ram.latch
      BY <2>3
    <3>2. ~ram.pending => begun' = 0
      <4>1. ~ram.pending => ~r.pending
        OBVIOUS
      <4>2. QED BY <1>4, <2>3, <4>1
    <3>3. ram.pending => begun' <= ram.count + 1
      <4>1. CASE r = ram
        BY <1>4, <4>1
      <4>2. CASE ~r.pending
        BY <1>4, <1>2, <2>3, <4>2 DEF RecoveryTypeOK, Records
      <4>3. QED BY <4>1, <4>2
    <3>4. begun' > Limit => ram.latch
      <4>1. begun' > Limit => nvs'.latch
        BY <1>4
      <4>2. QED BY <3>1, <4>1
    <3>5. QED BY <1>4, <1>5, <2>1, <2>3, <3>1, <3>2, <3>3, <3>4 DEF BootInv, LatchInv
  <2>4. QED BY <1>4, <2>2, <2>3
<1>8. QED BY <1>6, <1>7

\* Every step of the boot sequence and of the services keeps the boot invariant.
LEMMA BootStep ==
    ASSUME BootInv, [RecoveryStep \/ RecoverStorage \/ Reset]_recoveryVars
    PROVE  BootInv'
<1> USE DEF BootInv
<1>0. RecoveryTypeOK /\ LatchInv
    OBVIOUS
<1>1. CASE LoadRecord
  <2>1. BeginBoot(nvs) \in Records /\ BeginBoot(nvs).pending /\ (nvs.latch => BeginBoot(nvs).latch)
        /\ (nvs.pending => BeginBoot(nvs).count = MaxCount \/ BeginBoot(nvs).count = nvs.count + 1)
        /\ (BeginBoot(nvs).count >= Limit => BeginBoot(nvs).latch)
    BY BeginBootFacts DEF RecoveryTypeOK
  <2>2. ~counted /\ begun \in 0 .. Limit + 1 /\ Limit \in Nat /\ nvs.count \in Nat /\ nvs.pending \in BOOLEAN
        /\ BeginBoot(nvs).count \in Nat
    BY <1>1, <2>1, LimitAssumption DEF LoadRecord, LatchInv, RecoveryTypeOK, Records
  <2>3. begun <= BeginBoot(nvs).count
    <3>1. CASE nvs.pending
      BY <2>1, <2>2, <3>1, LimitAssumption DEF LatchInv
    <3>2. CASE ~nvs.pending
      BY <2>2, <3>2 DEF LatchInv
    <3>3. QED BY <2>2, <3>1, <3>2
  <2>4. (begun >= Limit => BeginBoot(nvs).latch) /\ (begun > Limit => BeginBoot(nvs).latch)
    BY <2>1, <2>2, <2>3
  <2>5. PICK ok \in BOOLEAN : Save(BeginBoot(nvs), ok)
    BY <1>1 DEF LoadRecord
  <2> DEFINE r == BeginBoot(nvs)
  <2>6. /\ nvs' \in Records /\ counted' \in BOOLEAN /\ begun' \in 0 .. Limit + 1
        /\ ~nvs'.pending => begun' = 0
        /\ nvs'.pending => begun' <= nvs'.count + 1
        /\ begun' > Limit => nvs'.latch
        /\ begun' <= r.count + 1 /\ (begun' > Limit => r.latch)
        /\ (nvs' = r /\ counted') \/ (nvs' = nvs /\ begun' = begun /\ counted' = counted)
    <3>1. r.pending /\ counted => begun <= r.count + 1
      BY <2>2
    <3>2. r.pending /\ ~counted => begun <= r.count /\ (begun >= Limit => r.latch)
      BY <2>3, <2>4
    <3> HIDE DEF r
    <3>3. r \in Records /\ r.pending
      BY <2>1 DEF r
    <3>4. Save(r, ok) /\ (r.pending /\ begun > Limit => r.latch)
      BY <2>4, <2>5 DEF r
    <3>5. QED BY <1>0, <2>5, <3>1, <3>2, <3>3, <3>4, SaveStep, Zenon
  <2>7. ram' = r /\ available' /\ stage' = "loaded" /\ mode' = mode
    BY <1>1 DEF LoadRecord
  <2>8. RecoveryTypeOK'
    BY <1>1, <2>1, <2>6, <2>7 DEF LoadRecord, RecoveryTypeOK, Stages
  <2>9. ~counted' => ram' = BeginBoot(nvs')
    BY <2>2, <2>6, <2>7
  <2>10. counted' => (nvs'.latch => ram'.latch)
    BY <2>2, <2>6, <2>7
  <2>11. ram'.pending /\ begun' <= ram'.count + 1 /\ (begun' > Limit => ram'.latch)
    BY <2>1, <2>6, <2>7
  <2>12. QED BY <2>6, <2>7, <2>8, <2>9, <2>10, <2>11 DEF LatchInv
<1>2. CASE RecordUnreadable
    BY <1>0, <1>2 DEF RecordUnreadable, RecoveryTypeOK, LatchInv, Stages
<1>3. CASE MountCard
    BY <1>0, <1>3 DEF MountCard, RecoveryTypeOK, LatchInv, Stages, BeginBoot, Interrupted
<1>4. CASE ChooseServices
  <2>1. mode' \in {"none", "safe", "normal"}
    BY <1>4 DEF ChooseServices
  <2>2. QED BY <1>0, <1>4, <2>1 DEF ChooseServices, RecoveryTypeOK, LatchInv, Stages, BeginBoot, Interrupted
<1>5. CASE RecordAppError
  <2>1. ram \in Records
    BY DEF RecoveryTypeOK
  <2>2. stage # "reset" /\ available /\ SaveTransition(ram) /\ UNCHANGED <<available, stage, mode>>
        /\ stage' \in Stages \ {"reset"}
    BY <1>5 DEF RecordAppError, RecoveryTypeOK, Stages
  <2>3. QED BY <2>1, <2>2, TransitionStep, Zenon
<1>6. CASE Checkpoint
  <2>1. CASE available /\ ram.pending
    <3>1. Acknowledged(ram) \in Records /\ ~Acknowledged(ram).pending
          /\ Acknowledged(ram).latch = ram.latch
      <4>1. ram.latch \in BOOLEAN /\ 0 \in 0 .. MaxCount
        BY LimitAssumption DEF RecoveryTypeOK, Records
      <4>2. QED BY <4>1 DEF Records, Acknowledged
    <3>2. stage # "reset" /\ SaveTransition(Acknowledged(ram)) /\ UNCHANGED <<available, mode>>
          /\ stage' \in Stages \ {"reset"}
      BY <1>6, <2>1 DEF Checkpoint, Stages
    <3>3. QED BY <2>1, <3>1, <3>2, TransitionStep, Zenon
  <2>2. CASE ~(available /\ ram.pending)
    BY <1>0, <1>6, <2>2 DEF Checkpoint, RecoveryTypeOK, LatchInv, Stages, BeginBoot, Interrupted
  <2>3. QED BY <2>1, <2>2
<1>7. CASE CheckpointDeferred
    BY <1>0, <1>7 DEF CheckpointDeferred, RecoveryTypeOK, LatchInv, Stages, BeginBoot, Interrupted
<1>8. CASE ClearSafeMode
  <2>1. Cleared(ram) \in Records /\ ~Cleared(ram).pending /\ ~Cleared(ram).latch
    BY LimitAssumption DEF Records, Cleared, Fresh
  <2>2. stage # "reset" /\ available /\ SaveTransition(Cleared(ram)) /\ UNCHANGED <<available, stage, mode>>
        /\ stage' \in Stages \ {"reset"}
    BY <1>8 DEF ClearSafeMode, RecoveryTypeOK, Stages
  <2>3. QED BY <2>1, <2>2, TransitionStep, Zenon
<1>9. CASE RecoverStorage
    BY <1>0, <1>9 DEF RecoverStorage, RecoveryTypeOK, LatchInv, Stages, BeginBoot, Interrupted
<1>10. CASE Reset
  <2>1. Fresh \in Records
    BY LimitAssumption DEF Fresh, Records
  <2>2. RecoveryTypeOK'
    BY <1>0, <1>10, <2>1 DEF Reset, RecoveryTypeOK, Stages
  <2>3. LatchInv'
    BY <1>0, <1>10 DEF Reset, LatchInv
  <2>4. QED BY <2>2, <2>3
<1>11. CASE UNCHANGED recoveryVars
    BY <1>0, <1>11 DEF recoveryVars, RecoveryTypeOK, LatchInv, BeginBoot, Interrupted
<1>12. QED BY <1>1, <1>2, <1>3, <1>4, <1>5, <1>6, <1>7, <1>8, <1>9, <1>10, <1>11 DEF RecoveryStep

-----------------------------------------------------------------------------
(* The save transaction *)

\* What is where while the editor is between two calls.
SaveInv ==
    /\ pc # "idle" => stage = "ready"
    /\ pc \in {"unlink", "undo", "drop_tmp", "drop_dest", "drop_side"} /\ ~Exists("dest") => removed
    /\ pc \in {"unlink", "undo", "drop_side"} /\ Kept => file["dest"] = committed
    /\ pc \in {"unlink", "drop_tmp", "drop_dest"} /\ Kept => file["side"] = committed

IInv == BootInv /\ TypeOK /\ SaveInv /\ NothingLost

LEMMA InitIInv == Init => IInv
<1> SUFFICES ASSUME Init PROVE IInv
  OBVIOUS
<1>1. Fresh \in Records
  BY LimitAssumption DEF Fresh, Records
<1>2. BootInv
  <2>1. nvs = Fresh /\ ram = Fresh /\ available = FALSE /\ counted = FALSE /\ stage = "reset"
        /\ mode = "none" /\ begun = 0
    BY DEF Init, RecoveryInit
  <2>2. RecoveryTypeOK
    <3>1. begun \in 0 .. Limit + 1
      BY <2>1, LimitAssumption
    <3>2. QED BY <1>1, <2>1, <3>1 DEF RecoveryTypeOK, Stages
  <2>3. LatchInv
    BY <2>1, LimitAssumption DEF LatchInv, Fresh
  <2>4. QED BY <2>2, <2>3 DEF BootInv
<1>3. TypeOK
  BY <1>2 DEF Init, TypeOK, BootInv, Names, Contents, Steps
<1>4. SaveInv /\ NothingLost
  BY DEF Init, SaveInv, NothingLost, Kept
<1>5. QED BY <1>2, <1>3, <1>4 DEF IInv

\* Every step keeps the types of the files and of the save.
LEMMA FileTypeStep ==
    ASSUME TypeOK, Next
    PROVE  /\ file' \in [Names -> Contents]
           /\ pc' \in Steps /\ backed' \in BOOLEAN /\ removed' \in BOOLEAN
           /\ version' \in Nat /\ bridge' \in Nat /\ written' \in Nat /\ committed' \in Nat
<1> USE DEF TypeOK, Put, Exists, LinkDone, LinkFails, Saving, GoTo, AfterFailure, Contents, Names, Steps
<1>1. CASE WriteTemp
  BY <1>1 DEF WriteTemp
<1>2. CASE Flush \/ LookUp
  BY <1>2 DEF Flush, LookUp
<1>3. CASE Backup
  BY <1>3 DEF Backup
<1>4. CASE UnlinkOld \/ UndoBackup
  BY <1>4 DEF UnlinkOld, UndoBackup
<1>5. CASE LinkNew
  BY <1>5 DEF LinkNew
<1>6. CASE DropTemp
  BY <1>6 DEF DropTemp
<1>7. CASE DropDest
  BY <1>7 DEF DropDest
<1>8. CASE Rollback
  BY <1>8 DEF Rollback
<1>9. CASE DropSide
  BY <1>9 DEF DropSide
<1>10. CASE BridgeTemp
  BY <1>10 DEF BridgeTemp
<1>11. CASE BridgePublish
  <2>1. removed' \in BOOLEAN
    BY <1>11 DEF BridgePublish
  <2>2. file' \in [Names -> Contents] /\ committed' \in Nat
    BY <1>11 DEF BridgePublish
  <2>3. QED BY <1>11, <2>1, <2>2 DEF BridgePublish
<1>12. CASE Remove
  BY <1>12 DEF Remove
<1>13. CASE Restore
  BY <1>13 DEF Restore
<1>14. CASE RestoreFails \/ (RecoveryStep /\ UNCHANGED fileVars)
  <2>1. UNCHANGED <<file, pc, backed, version, bridge, written, committed, removed>>
    BY <1>14 DEF RestoreFails, fileVars
  <2>2. QED BY <2>1
<1>15. CASE Crash
  BY <1>15 DEF Crash
<1>16. QED BY <1>1, <1>2, <1>3, <1>4, <1>5, <1>6, <1>7, <1>8, <1>9, <1>10, <1>11, <1>12, <1>13, <1>14,
              <1>15 DEF Next, EditorStep

LEMMA SaveStepInv ==
    ASSUME TypeOK, SaveInv, NothingLost, Next
    PROVE  SaveInv' /\ NothingLost'
<1> USE ContentAssumption
    DEF TypeOK, SaveInv, NothingLost, Kept, Put, Exists, LinkDone, LinkFails, Saving, Serving, GoTo,
        AfterFailure, Contents, Names, Steps, recoveryVars
<1>1. CASE WriteTemp
  BY <1>1 DEF WriteTemp
<1>2. CASE Flush \/ LookUp
  BY <1>2 DEF Flush, LookUp
<1>3. CASE Backup
  BY <1>3 DEF Backup
<1>4. CASE UnlinkOld
  BY <1>4 DEF UnlinkOld
<1>5. CASE UndoBackup
  BY <1>5 DEF UndoBackup
<1>6. CASE LinkNew
  BY <1>6 DEF LinkNew
<1>7. CASE DropTemp
  BY <1>7 DEF DropTemp
<1>8. CASE DropDest
  BY <1>8 DEF DropDest
<1>9. CASE Rollback
  BY <1>9 DEF Rollback
<1>10. CASE DropSide
  BY <1>10 DEF DropSide
<1>11. CASE BridgeTemp
  BY <1>11 DEF BridgeTemp
<1>12. CASE BridgePublish
  BY <1>12 DEF BridgePublish
<1>13. CASE Remove
  BY <1>13 DEF Remove
<1>14. CASE Restore
  BY <1>14 DEF Restore, RecoverStorage
<1>15. CASE RestoreFails
  BY <1>15 DEF RestoreFails, RecoverStorage, fileVars
<1>16. CASE Crash
  BY <1>16 DEF Crash
<1>17. CASE RecoveryStep /\ UNCHANGED fileVars
  BY <1>17 DEF RecoveryStep, fileVars, LoadRecord, RecordUnreadable, MountCard, ChooseServices,
            RecordAppError, Checkpoint, CheckpointDeferred, ClearSafeMode
<1>18. QED BY <1>1, <1>2, <1>3, <1>4, <1>5, <1>6, <1>7, <1>8, <1>9, <1>10, <1>11, <1>12, <1>13, <1>14,
              <1>15, <1>16, <1>17 DEF Next, EditorStep

-----------------------------------------------------------------------------
\* What a step of the whole does to the boot record.
LEMMA NextBoots ==
    ASSUME [Next]_vars PROVE [RecoveryStep \/ RecoverStorage \/ Reset]_recoveryVars
<1>1. CASE EditorStep
  BY <1>1 DEF EditorStep, WriteTemp, Flush, LookUp, Backup, UnlinkOld, UndoBackup, LinkNew, DropTemp,
              DropDest, Rollback, DropSide, Saving
<1>2. CASE BridgeTemp \/ BridgePublish \/ Remove
  BY <1>2 DEF BridgeTemp, BridgePublish, Remove, Serving
<1>3. CASE Restore \/ RestoreFails
  BY <1>3 DEF Restore, RestoreFails
<1>4. CASE Crash
  BY <1>4 DEF Crash
<1>5. CASE RecoveryStep
  BY <1>5
<1>6. CASE UNCHANGED vars
  BY <1>6 DEF vars
<1>7. QED BY <1>1, <1>2, <1>3, <1>4, <1>5, <1>6 DEF Next

LEMMA StepIInv == IInv /\ [Next]_vars => IInv'
<1> SUFFICES ASSUME IInv, [Next]_vars PROVE IInv'
  OBVIOUS
<1>1. BootInv /\ TypeOK /\ SaveInv /\ NothingLost
  BY DEF IInv
<1>2. BootInv'
  BY <1>1, NextBoots, BootStep
<1>3. CASE Next
  <2>1. TypeOK'
    BY <1>1, <1>2, <1>3, FileTypeStep DEF BootInv, TypeOK
  <2>2. SaveInv' /\ NothingLost'
    BY <1>1, <1>3, SaveStepInv
  <2>3. QED BY <1>2, <2>1, <2>2 DEF IInv
<1>4. CASE UNCHANGED vars
  <2>1. TypeOK'
    BY <1>1, <1>2, <1>4 DEF BootInv, TypeOK, vars, fileVars
  <2>2. SaveInv' /\ NothingLost'
    BY <1>1, <1>4 DEF SaveInv, NothingLost, Kept, Exists, vars, fileVars, recoveryVars
  <2>3. QED BY <1>2, <2>1, <2>2 DEF IInv
<1>5. QED BY <1>3, <1>4

LEMMA Inductive == Spec => []IInv
BY InitIInv, StepIInv, PTL DEF Spec

\* The types of the boot record, the files and the save hold for every limit
\* and every number of contents.
THEOREM TypeCorrect == Spec => []TypeOK
<1>1. IInv => TypeOK
  BY DEF IInv
<1>2. QED BY Inductive, <1>1, PTL

\* What was reported as saved is under the name or in the sidecar, whatever
\* fails and whenever the device resets.
THEOREM SavedIsKept == Spec => []NothingLost
<1>1. IInv => NothingLost
  BY DEF IInv
<1>2. QED BY Inductive, <1>1, PTL

\* A boot loop reaches safe mode at the limit, for every limit and saturation.
THEOREM LoopIsCaught == Spec => []BootLoopCaught
<1>1. ASSUME IInv PROVE BootLoopCaught
  <2>1. BootInv /\ RecoveryTypeOK /\ LatchInv
    BY <1>1 DEF IInv, BootInv
  <2>2. begun \in Nat /\ Limit \in Nat \ {0}
    BY <2>1, LimitAssumption DEF RecoveryTypeOK
  <2>3. ASSUME begun > Limit, stage # "reset" PROVE SafeMode
    <3>1. nvs.latch
      BY <2>1, <2>3 DEF LatchInv
    <3>2. QED BY <2>1, <2>3, <3>1, MemoryKnowsLatch DEF SafeMode
  <2>4. ASSUME begun = Limit, stage # "reset", ~counted PROVE SafeMode
    <3>1. CASE available
      <4>1. ram.pending /\ (begun >= Limit => ram.latch)
        BY <2>1, <2>4, <3>1, MemoryCounts
      <4>2. QED BY <2>2, <2>4, <4>1 DEF SafeMode
    <3>2. QED BY <3>1 DEF SafeMode
  <2>5. begun > Limit => nvs.latch
    BY <2>1 DEF LatchInv
  <2>6. QED BY <2>3, <2>4, <2>5 DEF BootLoopCaught
<1>2. QED BY Inductive, <1>1, PTL

\* A save of a record that knows the latch keeps it in flash.
LEMMA SaveKeepsLatch ==
    ASSUME NEW r, NEW ok, Save(r, ok), nvs.latch, r.latch PROVE nvs'.latch
BY DEF Save

LEMMA LatchStep ==
    ASSUME IInv, [Next]_vars, nvs.latch, ~nvs'.latch PROVE ClearSafeMode
<1>1. BootInv /\ nvs \in Records
  BY DEF IInv, BootInv, RecoveryTypeOK
<1>2. CASE LoadRecord
  <2>1. PICK ok \in BOOLEAN : Save(BeginBoot(nvs), ok)
    BY <1>2 DEF LoadRecord
  <2>2. QED BY <1>1, <2>1, BeginBootFacts, SaveKeepsLatch
<1>3. CASE RecordAppError
  <2>1. ram.latch
    BY <1>1, <1>3, MemoryKnowsLatch DEF RecordAppError
  <2>2. PICK ok \in BOOLEAN : Save(ram, ok)
    BY <1>3 DEF RecordAppError, SaveTransition
  <2>3. QED BY <2>1, <2>2, SaveKeepsLatch
<1>4. CASE Checkpoint
  <2>1. CASE available /\ ram.pending
    <3>1. Acknowledged(ram).latch
      BY <1>1, <1>4, <2>1, MemoryKnowsLatch DEF Checkpoint, Acknowledged
    <3>2. PICK ok \in BOOLEAN : Save(Acknowledged(ram), ok)
      BY <1>4, <2>1 DEF Checkpoint, SaveTransition
    <3>3. QED BY <3>1, <3>2, SaveKeepsLatch
  <2>2. CASE ~(available /\ ram.pending)
    BY <1>4, <2>2 DEF Checkpoint
  <2>3. QED BY <2>1, <2>2
<1>5. CASE RecordUnreadable \/ MountCard \/ ChooseServices \/ CheckpointDeferred \/ RecoverStorage \/ Reset
  BY <1>5 DEF RecordUnreadable, MountCard, ChooseServices, CheckpointDeferred, RecoverStorage, Reset
<1>6. CASE UNCHANGED recoveryVars
  BY <1>6 DEF recoveryVars
<1>7. QED BY <1>2, <1>3, <1>4, <1>5, <1>6, NextBoots DEF RecoveryStep

\* Only the operator's command takes the latch out of the flash.
THEOREM OnlyTheOperatorClears == Spec => LatchOnlyClearedByOperator
<1>1. IInv /\ [Next]_vars => [nvs.latch /\ ~nvs'.latch => ClearSafeMode]_recoveryVars
  BY LatchStep
<1>2. QED BY Inductive, <1>1, PTL DEF Spec, LatchOnlyClearedByOperator

\* What the recovery puts under a name that a reset left missing is the last
\* content that was reported as saved.
THEOREM TheSavedComesBack == Spec => VanishedComesBack
<1>1. IInv /\ [Next]_vars => [Kept /\ ~Exists("dest") /\ Restore => file'["dest"] = committed]_vars
  BY ContentAssumption DEF IInv, TypeOK, NothingLost, Kept, Exists, Restore, Names, Contents
<1>2. QED BY Inductive, <1>1, PTL DEF Spec, VanishedComesBack

-----------------------------------------------------------------------------
(* The time-out of the screen.                                             *)

\* A policy that the boot takes as it is.
Policies == {p \in Timeouts : p.positive # 0 /\ p.effective \in {0, p.positive}}

\* The command would still put a copy into the queue.
Writes == command \in {"inside", "send"}

\* The stop was put into the queue: the gate was closed and passed before, for good.
StopIsSent == closing /\ ~Writes /\ quiesce \in {"join", "ok", "failed", "late"}

ScreenTypes ==
    /\ policy \in Policies /\ accepted \in Policies /\ copy \in Policies
    /\ flash \in Timeouts
    /\ copies \in Seq(Policies \cup {StopRequest})
    /\ closing \in BOOLEAN /\ failed \in BOOLEAN /\ stopped \in BOOLEAN
    /\ gate \in {"free", "command"} /\ command \in {"idle", "enter", "inside", "send"}
    /\ saving \in {"receive", "effective", "positive", "gone"}
    /\ quiesce \in {"none", "gate", "send", "join", "ok", "failed", "late"}

\* The gate is held by the command inside it; once it was passed closed, nobody is inside.
GateIsHeld ==
    /\ Writes => gate = "command"
    /\ quiesce # "none" => closing
    /\ quiesce \in {"send", "join", "ok", "failed"} => ~Writes

\* The stop is the last of the queue, and the task goes with it.
StopIsLast ==
    /\ \A i \in 1 .. Len(copies) : copies[i] = StopRequest => i = Len(copies) /\ StopIsSent
    /\ saving = "gone" => copies = <<>> /\ StopIsSent
    /\ stopped => saving = "gone"
    /\ quiesce = "ok" => saving = "gone" /\ ~failed

IsSaved == saving \in {"effective", "positive"}

\* As long as every save succeeded, the last accepted policy is the last copy of the
\* queue, or the copy being saved, or in the flash.
LatestIsKept ==
    ~failed =>
        /\ \A i \in 1 .. Len(copies) :
             copies[i] # StopRequest /\ (i = Len(copies) \/ copies[i + 1] = StopRequest)
                 => copies[i] = accepted
        /\ (\A i \in 1 .. Len(copies) : copies[i] = StopRequest) =>
             /\ IsSaved => copy = accepted
             /\ ~IsSaved => Restored(flash) = accepted

\* Between the two keys of a copy the first is written.
FirstKeyIsWritten == saving = "positive" => flash.effective = copy.effective

ScreenInv == ScreenTypes /\ GateIsHeld /\ StopIsLast /\ LatestIsKept /\ FirstKeyIsWritten

LEMMA PolicyFacts ==
    /\ DefaultPolicy \in Policies
    /\ \A v \in Timeouts : Restored(v) \in Policies
    /\ \A p \in Policies : Restored(p) = p
    /\ \A p \in Policies : p \in Timeouts /\ p # StopRequest
<1>1. DefaultPolicy \in Policies
    BY ScreenLimits DEF DefaultPolicy, Policies, Timeouts
<1>2. \A v \in Timeouts : Restored(v) \in Policies
    BY <1>1 DEF Restored, Policies
<1>3. \A p \in Policies : Restored(p) = p
    BY DEF Restored, Policies
<1>4. ASSUME NEW p \in Timeouts
      PROVE  p # StopRequest
  <2>1. DOMAIN p = {"effective", "positive"}
    BY DEF Timeouts
  <2>2. DOMAIN StopRequest = {"stop"}
    BY DEF StopRequest
  <2>3. QED
    BY <2>1, <2>2
<1>5. QED
    BY <1>1, <1>2, <1>3, <1>4 DEF Policies

LEMMA SetPolicyKeeps ==
    ASSUME policy \in Policies, NEW minutes \in Minutes, SetPolicy(minutes)
    PROVE  policy' \in Policies
<1>1. Minutes \subseteq Nat
    BY ScreenLimits
<1>2. CASE minutes = 0
    BY <1>2 DEF SetPolicy, Policies, Timeouts
<1>3. CASE minutes # 0
    BY <1>1, <1>3 DEF SetPolicy, Policies, Timeouts
<1>4. QED
    BY <1>2, <1>3

LEMMA FlashTyped ==
    ASSUME ScreenTypes, SaveEffective \/ SavePositive
    PROVE  flash' \in Timeouts
<1>1. copy \in Timeouts /\ flash \in Timeouts
    BY PolicyFacts DEF ScreenTypes
<1>2. QED
    BY <1>1 DEF SaveEffective, SavePositive, SavesKey, Timeouts

LEMMA CopiesTyped ==
    ASSUME ScreenTypes, ScreenNext
    PROVE  /\ copies' \in Seq(Policies \cup {StopRequest})
           /\ copy' \in Policies
<1>1. copies \in Seq(Policies \cup {StopRequest}) /\ policy \in Policies /\ copy \in Policies
    BY DEF ScreenTypes
<1>2. CASE SendCopy
    BY <1>1, <1>2 DEF SendCopy
<1>3. CASE SendStop
    BY <1>1, <1>3 DEF SendStop
<1>4. CASE ReceiveCopy
  <2>1. Head(copies) \in Policies \cup {StopRequest} /\ copies' \in Seq(Policies \cup {StopRequest})
    BY <1>1, <1>4 DEF ReceiveCopy
  <2>2. QED
    BY <1>1, <1>4, <2>1 DEF ReceiveCopy
<1>5. CASE ScreenReset
    BY <1>5, PolicyFacts DEF ScreenReset
<1>6. CASE \/ \E minutes \in Minutes : SetTimeout(minutes)
           \/ EnterGate \/ LookAgain \/ SaveEffective \/ SavePositive
           \/ CloseScreen \/ PassGate \/ JoinTask \/ QuiesceExpires
    BY <1>1, <1>6 DEF SetTimeout, EnterGate, LookAgain, SaveEffective, SavePositive,
                      CloseScreen, PassGate, JoinTask, QuiesceExpires
<1>7. QED
    BY <1>2, <1>3, <1>4, <1>5, <1>6 DEF ScreenNext, CommandStep, TaskStep

LEMMA ScreenTypesKept ==
    ASSUME ScreenTypes, ScreenNext
    PROVE  ScreenTypes'
<1>1. copies' \in Seq(Policies \cup {StopRequest}) /\ copy' \in Policies
    BY CopiesTyped
<1>2. policy' \in Policies /\ accepted' \in Policies /\ flash' \in Timeouts
  <2>1. CASE \E minutes \in Minutes : SetTimeout(minutes)
    BY <2>1, SetPolicyKeeps DEF ScreenTypes, SetTimeout
  <2>2. CASE SaveEffective \/ SavePositive
    BY <2>2, FlashTyped DEF ScreenTypes, SaveEffective, SavePositive
  <2>3. CASE ScreenReset
    BY <2>3, PolicyFacts DEF ScreenTypes, ScreenReset
  <2>4. CASE CommandStep \/ ReceiveCopy \/ CloseScreen \/ PassGate \/ SendStop \/ JoinTask
             \/ QuiesceExpires
    BY <2>4 DEF ScreenTypes, CommandStep, EnterGate, LookAgain, SendCopy, ReceiveCopy,
                CloseScreen, PassGate, SendStop, JoinTask, QuiesceExpires
  <2>5. QED
    BY <2>1, <2>2, <2>3, <2>4 DEF ScreenNext, TaskStep
<1>3. /\ closing' \in BOOLEAN /\ failed' \in BOOLEAN /\ stopped' \in BOOLEAN
      /\ gate' \in {"free", "command"} /\ command' \in {"idle", "enter", "inside", "send"}
      /\ saving' \in {"receive", "effective", "positive", "gone"}
      /\ quiesce' \in {"none", "gate", "send", "join", "ok", "failed", "late"}
  <2>1. CASE (\E minutes \in Minutes : SetTimeout(minutes)) \/ CommandStep
    BY <2>1 DEF ScreenTypes, SetTimeout, CommandStep, EnterGate, LookAgain, SendCopy, LeaveGate
  <2>2. CASE TaskStep
    BY <2>2 DEF ScreenTypes, TaskStep, ReceiveCopy, SaveEffective, SavePositive, SavesKey
  <2>3. CASE CloseScreen \/ PassGate \/ SendStop \/ JoinTask \/ QuiesceExpires \/ ScreenReset
    BY <2>3 DEF ScreenTypes, CloseScreen, PassGate, SendStop, JoinTask, QuiesceExpires, ScreenReset
  <2>4. QED
    BY <2>1, <2>2, <2>3 DEF ScreenNext
<1>4. QED
    BY <1>1, <1>2, <1>3 DEF ScreenTypes

LEMMA GateIsHeldKept ==
    ASSUME ScreenTypes, GateIsHeld, ScreenNext
    PROVE  GateIsHeld'
<1> USE DEF GateIsHeld, Writes
<1>1. CASE (\E minutes \in Minutes : SetTimeout(minutes)) \/ CommandStep
    BY <1>1 DEF ScreenTypes, SetTimeout, CommandStep, EnterGate, LookAgain, SendCopy, LeaveGate
<1>2. CASE TaskStep
    BY <1>2 DEF TaskStep, ReceiveCopy, SaveEffective, SavePositive
<1>3. CASE CloseScreen \/ PassGate \/ SendStop \/ JoinTask \/ QuiesceExpires
    BY <1>3 DEF ScreenTypes, CloseScreen, PassGate, GateIsPassed, SendStop, JoinTask, QuiesceExpires
<1>4. CASE ScreenReset
    BY <1>4 DEF ScreenReset
<1>5. QED
    BY <1>1, <1>2, <1>3, <1>4 DEF ScreenNext

LEMMA FirstKeyKept ==
    ASSUME ScreenTypes, FirstKeyIsWritten, ScreenNext
    PROVE  FirstKeyIsWritten'
<1> USE DEF FirstKeyIsWritten
<1>1. CASE SaveEffective
    BY <1>1 DEF ScreenTypes, SaveEffective, SavesKey, Timeouts
<1>2. CASE SavePositive
    BY <1>2 DEF SavePositive, SavesKey
<1>3. CASE (\E minutes \in Minutes : SetTimeout(minutes)) \/ CommandStep \/ ReceiveCopy
           \/ CloseScreen \/ PassGate \/ SendStop \/ JoinTask \/ QuiesceExpires \/ ScreenReset
    BY <1>3 DEF SetTimeout, CommandStep, EnterGate, LookAgain, SendCopy, ReceiveCopy,
                CloseScreen, PassGate, SendStop, JoinTask, QuiesceExpires, ScreenReset
<1>4. QED
    BY <1>1, <1>2, <1>3 DEF ScreenNext, TaskStep

\* The stop stays what it was: the gate is not given up again.
LEMMA SentStaysSent ==
    ASSUME ScreenTypes, GateIsHeld, StopIsSent, ScreenNext
    PROVE  StopIsSent' \/ ScreenReset
<1> USE DEF StopIsSent, Writes
<1>1. CASE (\E minutes \in Minutes : SetTimeout(minutes)) \/ CommandStep
    BY <1>1 DEF ScreenTypes, SetTimeout, CommandStep, EnterGate, LookAgain, SendCopy
<1>2. CASE TaskStep
    BY <1>2 DEF TaskStep, ReceiveCopy, SaveEffective, SavePositive
<1>3. CASE CloseScreen \/ PassGate \/ SendStop \/ JoinTask \/ QuiesceExpires
    BY <1>3 DEF CloseScreen, PassGate, SendStop, JoinTask, QuiesceExpires
<1>4. QED
    BY <1>1, <1>2, <1>3 DEF ScreenNext

LEMMA StopIsLastKept ==
    ASSUME ScreenTypes, GateIsHeld, StopIsLast, ScreenNext
    PROVE  StopIsLast'
<1>0. copies \in Seq(Policies \cup {StopRequest}) /\ Len(copies) \in Nat
    BY DEF ScreenTypes
<1>1. CASE ScreenReset
    BY <1>1 DEF ScreenReset, StopIsLast
<1>2. CASE SendCopy
  <2>1. ~StopIsSent /\ saving # "gone" /\ ~stopped /\ quiesce # "ok"
    BY <1>2 DEF SendCopy, StopIsSent, Writes, StopIsLast
  <2>2. \A i \in 1 .. Len(copies) : copies[i] # StopRequest
    BY <2>1 DEF StopIsLast
  <2>3. policy # StopRequest /\ policy \in Policies
    BY PolicyFacts DEF ScreenTypes
  <2>4. \A i \in 1 .. Len(copies') : copies'[i] # StopRequest
    BY <1>0, <1>2, <2>2, <2>3 DEF SendCopy
  <2>5. QED
    BY <1>2, <2>1, <2>4 DEF SendCopy, StopIsLast
<1>3. CASE SendStop
  <2>1. ~StopIsSent /\ saving # "gone" /\ ~stopped /\ quiesce' # "ok"
    BY <1>3 DEF SendStop, StopIsSent, StopIsLast
  <2>2. \A i \in 1 .. Len(copies) : copies[i] # StopRequest
    BY <2>1 DEF StopIsLast
  <2>3. StopIsSent'
    BY <1>3 DEF SendStop, StopIsSent, GateIsHeld, Writes
  <2>4. Len(copies') = Len(copies) + 1 /\ \A i \in 1 .. Len(copies) : copies'[i] = copies[i]
    BY <1>0, <1>3 DEF SendStop
  <2>5. \A i \in 1 .. Len(copies') : copies'[i] = StopRequest => i = Len(copies')
    BY <1>0, <2>2, <2>4
  <2>6. QED
    BY <1>3, <2>1, <2>3, <2>5 DEF SendStop, StopIsLast
<1>4. CASE ReceiveCopy
  <2>1. /\ Len(copies) > 0 /\ Len(copies') = Len(copies) - 1
        /\ \A i \in 1 .. Len(copies') : copies'[i] = copies[i + 1]
        /\ Head(copies) = copies[1]
    BY <1>0, <1>4 DEF ReceiveCopy
  <2>2. StopIsSent => StopIsSent'
    BY <1>4 DEF ReceiveCopy, StopIsSent, Writes
  <2>3. \A i \in 1 .. Len(copies') : copies'[i] = StopRequest => i = Len(copies') /\ StopIsSent'
    BY <1>0, <2>1, <2>2 DEF StopIsLast
  <2>4. CASE Head(copies) = StopRequest
    <3>1. StopIsSent /\ Len(copies) = 1
      BY <1>0, <2>1, <2>4 DEF StopIsLast
    <3>2. copies' = <<>>
      BY <1>0, <1>4, <2>1, <3>1 DEF ReceiveCopy
    <3>3. QED
      BY <1>4, <2>1, <2>2, <2>3, <2>4, <3>1, <3>2 DEF ReceiveCopy, StopIsLast
  <2>5. CASE Head(copies) # StopRequest
    BY <1>4, <2>3, <2>5 DEF ReceiveCopy, StopIsLast
  <2>6. QED
    BY <2>4, <2>5
<1>5. CASE JoinTask
  <2>1. StopIsSent'
    BY <1>5 DEF JoinTask, StopIsLast, StopIsSent, Writes
  <2>2. QED
    BY <1>5, <2>1 DEF JoinTask, StopIsLast
<1>6. CASE SaveEffective \/ SavePositive
  <2>1. saving' # "gone" /\ saving # "gone" /\ UNCHANGED <<copies, closing, command, quiesce, stopped>>
    BY <1>6 DEF SaveEffective, SavePositive, SavesKey
  <2>2. QED
    BY <2>1 DEF StopIsLast, StopIsSent, Writes
<1>7. CASE \/ \E minutes \in Minutes : SetTimeout(minutes)
           \/ EnterGate \/ LookAgain \/ CloseScreen \/ PassGate \/ QuiesceExpires
  <2>1. StopIsSent => StopIsSent'
    BY <1>7, SentStaysSent DEF ScreenNext, CommandStep, ScreenReset,
           SetTimeout, EnterGate, LookAgain, CloseScreen, PassGate, QuiesceExpires,
           StopIsSent, Writes
  <2>2. UNCHANGED <<copies, saving, stopped, failed>>
    BY <1>7 DEF SetTimeout, EnterGate, LookAgain, CloseScreen, PassGate, QuiesceExpires
  <2>3. quiesce' = "ok" => quiesce = "ok"
    BY <1>7 DEF SetTimeout, EnterGate, LookAgain, CloseScreen, PassGate, QuiesceExpires
  <2>4. QED
    BY <2>1, <2>2, <2>3 DEF StopIsLast
<1>8. QED
    BY <1>1, <1>2, <1>3, <1>4, <1>5, <1>6, <1>7 DEF ScreenNext, CommandStep, TaskStep

LEMMA LatestIsKeptKept ==
    ASSUME ScreenInv, ScreenNext
    PROVE  LatestIsKept'
<1>0. /\ copies \in Seq(Policies \cup {StopRequest}) /\ Len(copies) \in Nat
      /\ policy \in Policies /\ copy \in Policies /\ flash \in Timeouts
      /\ policy # StopRequest
      /\ LatestIsKept /\ StopIsLast
    BY PolicyFacts DEF ScreenInv, ScreenTypes
<1>1. CASE ScreenReset
    BY <1>1 DEF ScreenReset, LatestIsKept, IsSaved
<1>2. CASE SendCopy
  <2>1. CASE UNCHANGED <<copies, accepted>>
    BY <1>0, <1>2, <2>1 DEF SendCopy, LatestIsKept, IsSaved
  <2>2. CASE copies' = Append(copies, policy) /\ accepted' = policy
    <3>1. ~StopIsSent
      BY <1>2 DEF SendCopy, StopIsSent, Writes
    <3>2. \A i \in 1 .. Len(copies) : copies[i] # StopRequest
      BY <1>0, <3>1 DEF StopIsLast
    <3>3. /\ Len(copies') = Len(copies) + 1 /\ copies'[Len(copies) + 1] = policy
          /\ \A i \in 1 .. Len(copies) : copies'[i] = copies[i]
      BY <1>0, <2>2
    <3>4. \A i \in 1 .. Len(copies') : copies'[i] # StopRequest
      BY <1>0, <3>2, <3>3
    <3>5. \A i \in 1 .. Len(copies') : i = Len(copies') \/ copies'[i + 1] = StopRequest
            => copies'[i] = accepted'
      BY <1>0, <2>2, <3>3, <3>4
    <3>6. Len(copies') \in 1 .. Len(copies')
      BY <1>0, <3>3
    <3>7. QED
      BY <3>4, <3>5, <3>6 DEF LatestIsKept
  <2>3. QED
    BY <1>2, <2>1, <2>2 DEF SendCopy
<1>3. CASE SendStop
  <2>1. /\ Len(copies') = Len(copies) + 1 /\ copies'[Len(copies) + 1] = StopRequest
        /\ \A i \in 1 .. Len(copies) : copies'[i] = copies[i]
        /\ UNCHANGED <<accepted, failed, saving, copy, flash>>
    BY <1>0, <1>3 DEF SendStop
  <2>2. ASSUME NEW i \in 1 .. Len(copies'), copies'[i] # StopRequest,
               i = Len(copies') \/ copies'[i + 1] = StopRequest, ~failed
        PROVE  copies'[i] = accepted'
    <3>1. i \in 1 .. Len(copies) /\ copies'[i] = copies[i]
      BY <1>0, <2>1, <2>2
    <3>2. i = Len(copies) \/ copies[i + 1] = StopRequest
      BY <1>0, <2>1, <2>2, <3>1
    <3>3. QED
      BY <1>0, <2>1, <2>2, <3>1, <3>2 DEF LatestIsKept
  <2>3. (\A i \in 1 .. Len(copies') : copies'[i] = StopRequest)
          => \A i \in 1 .. Len(copies) : copies[i] = StopRequest
    BY <1>0, <2>1
  <2>4. QED
    BY <1>0, <2>1, <2>2, <2>3 DEF LatestIsKept, IsSaved
<1>4. CASE ReceiveCopy
  <2>1. /\ Len(copies) > 0 /\ Len(copies') = Len(copies) - 1 /\ Len(copies') \in Nat
        /\ \A i \in 1 .. Len(copies') : copies'[i] = copies[i + 1]
        /\ Head(copies) = copies[1]
        /\ UNCHANGED <<accepted, failed, flash>>
    BY <1>0, <1>4 DEF ReceiveCopy
  <2>2. ASSUME NEW i \in 1 .. Len(copies'), copies'[i] # StopRequest,
               i = Len(copies') \/ copies'[i + 1] = StopRequest, ~failed
        PROVE  copies'[i] = accepted'
    <3>1. i + 1 \in 1 .. Len(copies) /\ copies[i + 1] # StopRequest /\ copies'[i] = copies[i + 1]
      BY <1>0, <2>1, <2>2
    <3>2. i + 1 = Len(copies) \/ copies[(i + 1) + 1] = StopRequest
      <4>1. CASE i = Len(copies')
        BY <1>0, <2>1, <4>1
      <4>2. CASE i # Len(copies')
        <5>1. i + 1 \in 1 .. Len(copies') /\ copies'[i + 1] = StopRequest
          BY <2>1, <2>2, <4>2
        <5>2. QED
          BY <2>1, <5>1
      <4>3. QED
        BY <4>1, <4>2
    <3>3. QED
      BY <1>0, <2>1, <2>2, <3>1, <3>2 DEF LatestIsKept
  <2>3. ASSUME \A i \in 1 .. Len(copies') : copies'[i] = StopRequest, ~failed
        PROVE  /\ IsSaved' => copy' = accepted'
               /\ ~IsSaved' => Restored(flash)' = accepted'
    <3>1. CASE Head(copies) = StopRequest
      <4>1. Len(copies) = 1
        BY <1>0, <2>1, <3>1 DEF StopIsLast
      <4>2. \A i \in 1 .. Len(copies) : copies[i] = StopRequest
        BY <1>0, <2>1, <3>1, <4>1
      <4>3. ~IsSaved /\ ~IsSaved'
        BY <1>4, <3>1 DEF ReceiveCopy, IsSaved
      <4>4. Restored(flash) = accepted
        BY <1>0, <2>3, <4>2, <4>3 DEF LatestIsKept
      <4>5. QED
        BY <2>1, <4>3, <4>4 DEF Restored
    <3>2. CASE Head(copies) # StopRequest
      <4>1. 1 = Len(copies) \/ copies[1 + 1] = StopRequest
        <5>1. CASE Len(copies) > 1
          <6>1. 1 \in 1 .. Len(copies')
            BY <1>0, <2>1, <5>1
          <6>2. QED
            BY <2>1, <2>3, <6>1
        <5>2. QED
          BY <1>0, <2>1, <5>1
      <4>2. copies[1] = accepted
        BY <1>0, <2>1, <2>3, <3>2, <4>1 DEF LatestIsKept
      <4>3. copy' = accepted' /\ IsSaved'
        BY <1>4, <2>1, <3>2, <4>2 DEF ReceiveCopy, IsSaved
      <4>4. QED
        BY <4>3
    <3>3. QED
      BY <3>1, <3>2
  <2>4. QED
    BY <2>1, <2>2, <2>3 DEF LatestIsKept
<1>5. CASE SaveEffective
  <2>1. failed' \/ (IsSaved /\ IsSaved' /\ UNCHANGED <<copies, accepted, copy, failed>>)
    BY <1>5 DEF SaveEffective, SavesKey, IsSaved
  <2>2. QED
    BY <1>0, <2>1 DEF LatestIsKept
<1>6. CASE SavePositive
  <2>1. failed' \/ (IsSaved /\ ~IsSaved' /\ UNCHANGED <<copies, accepted, copy, failed>> /\ flash' = copy)
    <3>1. flash.effective = copy.effective
      BY <1>6 DEF SavePositive, ScreenInv, FirstKeyIsWritten
    <3>2. [flash EXCEPT !.positive = copy.positive] = copy
      BY <1>0, <3>1 DEF Policies, Timeouts
    <3>3. QED
      BY <1>6, <3>2 DEF SavePositive, SavesKey, IsSaved
  <2>2. Restored(copy) = copy
    BY <1>0, PolicyFacts
  <2>3. ~failed' => Restored(flash)' = copy
    BY <2>1, <2>2 DEF IsSaved, Restored
  <2>4. QED
    BY <1>0, <2>1, <2>3 DEF LatestIsKept
<1>7. CASE \/ \E minutes \in Minutes : SetTimeout(minutes)
           \/ EnterGate \/ LookAgain \/ CloseScreen \/ PassGate \/ JoinTask \/ QuiesceExpires
  <2>1. UNCHANGED <<copies, accepted, copy, failed, saving, flash>>
    BY <1>7 DEF SetTimeout, EnterGate, LookAgain, CloseScreen, PassGate, JoinTask, QuiesceExpires
  <2>2. QED
    BY <1>0, <2>1 DEF LatestIsKept, IsSaved, Restored
<1>8. QED
    BY <1>1, <1>2, <1>3, <1>4, <1>5, <1>6, <1>7 DEF ScreenNext, CommandStep, TaskStep

LEMMA ScreenInitiallyRight == ScreenInit => ScreenInv
<1> SUFFICES ASSUME ScreenInit PROVE ScreenInv
    OBVIOUS
<1>1. DefaultPolicy \in Policies /\ DefaultPolicy \in Timeouts /\ Restored(DefaultPolicy) = DefaultPolicy
    BY PolicyFacts
<1>2. ScreenTypes
  <2>1. copies \in Seq(Policies \cup {StopRequest})
    BY DEF ScreenInit
  <2>2. policy \in Policies /\ accepted \in Policies /\ copy \in Policies /\ flash \in Timeouts
    BY <1>1 DEF ScreenInit
  <2>3. QED
    BY <2>1, <2>2 DEF ScreenInit, ScreenTypes
<1>3. GateIsHeld /\ StopIsLast /\ FirstKeyIsWritten
    BY DEF ScreenInit, GateIsHeld, Writes, StopIsLast, FirstKeyIsWritten
<1>4. LatestIsKept
    BY <1>1 DEF ScreenInit, LatestIsKept, IsSaved
<1>5. QED
    BY <1>2, <1>3, <1>4 DEF ScreenInv

\* What the parts of the invariant say holds in every state.
LEMMA ScreenInvHolds == ScreenSpec => []ScreenInv
<1>1. ScreenInv /\ [ScreenNext]_screenVars => ScreenInv'
  <2> SUFFICES ASSUME ScreenInv, [ScreenNext]_screenVars PROVE ScreenInv'
    OBVIOUS
  <2>1. CASE ScreenNext
    BY <2>1, ScreenTypesKept, GateIsHeldKept, StopIsLastKept, LatestIsKeptKept, FirstKeyKept
       DEF ScreenInv
  <2>2. CASE UNCHANGED screenVars
    BY <2>2 DEF screenVars, ScreenInv, ScreenTypes, GateIsHeld, Writes, StopIsLast, StopIsSent,
                LatestIsKept, IsSaved, FirstKeyIsWritten, Restored
  <2>3. QED
    BY <2>1, <2>2
<1>2. QED
    BY <1>1, ScreenInitiallyRight, PTL DEF ScreenSpec

\* The variables of the time-out keep their type; every policy but the one in the flash,
\* which a reset may tear, is one that the boot takes as it is (state::restore()).
THEOREM ScreenTypeCorrect == ScreenSpec => []ScreenTypeOK
<1>1. ScreenInv => ScreenTypeOK
  <2> SUFFICES ASSUME ScreenInv PROVE ScreenTypeOK
    OBVIOUS
  <2>1. Policies \subseteq Timeouts
    BY PolicyFacts
  <2>2. {policy, flash, copy, accepted} \subseteq Timeouts
    BY <2>1 DEF ScreenInv, ScreenTypes
  <2>3. copies \in Seq(Timeouts \cup {StopRequest})
    BY <2>1 DEF ScreenInv, ScreenTypes
  <2>4. QED
    BY <2>2, <2>3 DEF ScreenInv, ScreenTypes, ScreenTypeOK
<1>2. QED
    BY <1>1, ScreenInvHolds, PTL

\* When the shutdown is told that the time-outs are saved, the next boot restores the last
\* one that a command reported as set, for any length of the queue and wherever a command
\* and the task were when the gate was closed (screen_off_quiesce() and persistence_task()).
THEOREM TheAcceptedIsStored == ScreenSpec => []QuiescedIsStored
<1>1. ScreenInv => QuiescedIsStored
    BY DEF ScreenInv, StopIsLast, LatestIsKept, IsSaved, QuiescedIsStored
<1>2. QED
    BY <1>1, ScreenInvHolds, PTL
=============================================================================
