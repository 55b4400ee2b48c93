--------------------------- MODULE ShutdownProofs ---------------------------
(***************************************************************************)
(* Proofs about the shutdown for any users, closers and width of the id    *)
(* counter, any budget and any pulse train.  First the SD gate: the lease  *)
(* count is exact, a closed gate is drained, ids are never reused and the  *)
(* fence belongs to one closer at a time.  Then the power-off controller   *)
(* that closes it: the unmount is exclusive, the cut safe, the verdict     *)
(* final, and the shutdown implements PowerCut.                            *)
(***************************************************************************)
EXTENDS Poweroff, FiniteSetTheorems, TLAPS

\* Every id in use was issued before nextId, or the counter has wrapped.
IdsIssued ==
    nextId # 0 => /\ \A u \in Users : lease[u] < nextId
                  /\ \A c \in Closers : token[c] < nextId

\* Only the closer that holds the fence waits for it to drain.
WaiterOwnsFence == \A c \in waiting : c \in fencing /\ gate = "closing"

GateInv == SdTypeOK /\ LeaseAccounting /\ ClosedIsDrained
OwnershipInv == IdsIssued /\ IdsNeverReused /\ FenceIsExclusive /\ WaiterOwnsFence

-----------------------------------------------------------------------------
(* Lemmas about single operations, also used for the composition *)

\* The holders of leases are finitely many.
LEMMA HoldersFinite == IsFiniteSet(Holders)
BY UsersAssumption, FS_Subset DEF Holders

\* The next identifier is one more, or zero for ever.
LEMMA NextIdStep ==
    ASSUME SdTypeOK, nextId # 0, BumpId
    PROVE  nextId' \in Ids /\ (nextId' = 0 \/ nextId' = nextId + 1)
<1>1. nextId \in 1 .. IdSpace - 1
  BY IdSpaceAssumption DEF SdTypeOK, Ids
<1>2. CASE nextId + 1 = IdSpace
  BY <1>1, <1>2, IdSpaceAssumption DEF BumpId, Ids
<1>3. CASE nextId + 1 < IdSpace
  BY <1>1, <1>3, IdSpaceAssumption DEF BumpId, Ids
<1>4. QED
  BY <1>1, <1>2, <1>3, IdSpaceAssumption

\* A step that touches neither the gate nor the leases keeps the gate's invariant.
LEMMA GateInvStutters ==
    ASSUME GateInv, SdTypeOK', UNCHANGED <<gate, active, lease>>
    PROVE  GateInv'
<1>1. Holders' = Holders
  BY DEF Holders
<1>2. QED
  BY <1>1 DEF GateInv, LeaseAccounting, ClosedIsDrained

\* An acquire preserves the invariant of the gate.
LEMMA AcquireKeepsGateInv ==
    ASSUME GateInv, NEW u \in Users, Acquire(u)
    PROVE  GateInv'
<1>1. SdTypeOK'
  BY NextIdStep DEF GateInv, SdTypeOK, Acquire, Admits
<1>2. u \notin Holders /\ Holders' = Holders \cup {u}
  BY DEF GateInv, SdTypeOK, Acquire, Admits, Holders
<1>3. Cardinality(Holders') = Cardinality(Holders) + 1
  BY <1>2, HoldersFinite, FS_AddElement
<1>4. LeaseAccounting'
  BY <1>3 DEF GateInv, LeaseAccounting, Acquire
<1>5. ClosedIsDrained'
  BY DEF ClosedIsDrained, Acquire, Admits
<1>6. QED
  BY <1>1, <1>4, <1>5 DEF GateInv

\* A release preserves the invariant of the gate.
LEMMA ReleaseKeepsGateInv ==
    ASSUME GateInv, NEW u \in Users, Release(u)
    PROVE  GateInv'
<1>1. SdTypeOK'
  BY IdSpaceAssumption DEF GateInv, SdTypeOK, Release, Ids
<1>2. u \in Holders /\ Holders' = Holders \ {u}
  BY DEF GateInv, SdTypeOK, Release, Holders
<1>3. Cardinality(Holders') = Cardinality(Holders) - 1 /\ Cardinality(Holders) \in Nat
  BY <1>2, HoldersFinite, FS_RemoveElement, FS_CardinalityType
<1>4. Cardinality(Holders) # 0
  BY <1>2, HoldersFinite, FS_EmptySet
<1>5. LeaseAccounting'
  BY <1>3, <1>4 DEF GateInv, LeaseAccounting, Release
<1>6. ClosedIsDrained'
  BY <1>2 DEF GateInv, ClosedIsDrained, Release
<1>7. QED
  BY <1>1, <1>5, <1>6 DEF GateInv

\* The begin of a close preserves the invariant of the gate.
LEMMA BeginCloseKeepsGateInv ==
    ASSUME GateInv, NEW c \in Closers, BeginClose(c)
    PROVE  GateInv'
<1>1. SdTypeOK'
  BY NextIdStep, IdSpaceAssumption DEF GateInv, SdTypeOK, BeginClose, Admits, Gates, Ids
<1>2. Holders' = Holders
  BY DEF Holders, BeginClose
<1>3. QED
  BY <1>1, <1>2 DEF GateInv, LeaseAccounting, ClosedIsDrained, BeginClose

\* A drain that ends preserves the invariant of the gate.
LEMMA DrainDoneKeepsGateInv ==
    ASSUME GateInv, NEW c \in Closers, DrainDone(c)
    PROVE  GateInv'
<1>1. SdTypeOK'
  BY DEF GateInv, SdTypeOK, DrainDone, Gates
<1>2. Holders' = Holders /\ Cardinality(Holders) = 0
  BY DEF Holders, DrainDone, GateInv, LeaseAccounting
<1>3. Holders = {}
  BY <1>2, HoldersFinite, FS_EmptySet
<1>4. QED
  BY <1>1, <1>2, <1>3 DEF GateInv, LeaseAccounting, ClosedIsDrained, DrainDone

-----------------------------------------------------------------------------
(* The lease count *)

\* The open gate satisfies its invariant.
LEMMA GateInvInit == ASSUME SdInit PROVE GateInv
<1>1. Holders = {}
  BY DEF SdInit, Holders
<1>2. SdTypeOK
  <2>1. 0 \in Ids /\ 1 \in Ids
    BY IdSpaceAssumption DEF Ids
  <2>2. QED
    BY <2>1 DEF SdInit, SdTypeOK, Gates
<1>3. QED
  BY <1>1, <1>2, FS_EmptySet DEF GateInv, LeaseAccounting, ClosedIsDrained, SdInit

\* Every step preserves the invariant of the gate.
LEMMA GateInvStep == ASSUME GateInv, [SdNext]_sdVars PROVE GateInv'
<1>1. ASSUME NEW u \in Users, RecordPersistenceFailure(u) PROVE GateInv'
  BY <1>1, GateInvStutters DEF GateInv, SdTypeOK, RecordPersistenceFailure
<1>2. ASSUME NEW c \in Closers, DrainEnter(c) PROVE GateInv'
  BY <1>2, GateInvStutters DEF GateInv, SdTypeOK, DrainEnter
<1>3. ASSUME NEW c \in Closers, DrainTimedOut(c) PROVE GateInv'
  BY <1>3, GateInvStutters DEF GateInv, SdTypeOK, DrainTimedOut
<1>4. ASSUME NEW c \in Closers, Reopen(c) PROVE GateInv'
  <2>1. SdTypeOK' /\ Holders' = Holders
    BY <1>4, IdSpaceAssumption DEF GateInv, SdTypeOK, Reopen, Gates, Ids, Holders
  <2>2. QED
    BY <1>4, <2>1 DEF GateInv, LeaseAccounting, ClosedIsDrained, Reopen
<1>5. CASE UNCHANGED sdVars
  BY <1>5, GateInvStutters DEF GateInv, SdTypeOK, sdVars
<1>6. QED
  BY <1>1, <1>2, <1>3, <1>4, <1>5, AcquireKeepsGateInv, ReleaseKeepsGateInv,
     BeginCloseKeepsGateInv, DrainDoneKeepsGateInv
  DEF SdNext, SdUserStep

(* Whatever users and closers do, in any order, active_ is the number of   *)
(* live leases and a closed gate has none.                                 *)
THEOREM LeasesAreCounted == SdSpec => [](SdTypeOK /\ LeaseAccounting /\ ClosedIsDrained)
<1>1. SdInit => GateInv
  BY GateInvInit
<1>2. GateInv /\ [SdNext]_sdVars => GateInv'
  BY GateInvStep
<1>3. QED
  BY <1>1, <1>2, PTL DEF SdSpec, GateInv

-----------------------------------------------------------------------------
(* Ids and the ownership of the fence *)

\* At the start no identifier is issued and nobody owns the fence.
LEMMA OwnershipInit == ASSUME SdInit PROVE OwnershipInv
BY DEF SdInit, OwnershipInv, IdsIssued, IdsNeverReused, FenceIsExclusive, WaiterOwnsFence, Holders

\* Every step preserves the ownership of the fence.
LEMMA OwnershipStep ==
    ASSUME GateInv, OwnershipInv, [SdNext]_sdVars
    PROVE  OwnershipInv'
<1> USE DEF OwnershipInv
<1>t. SdTypeOK
  BY DEF GateInv
<1>1. ASSUME NEW u \in Users, Acquire(u) PROVE OwnershipInv'
  <2>1. nextId' = 0 \/ nextId' = nextId + 1
    BY <1>1, <1>t, NextIdStep DEF Acquire, Admits
  <2>2. IdsIssued'
    BY <1>1, <1>t, <2>1 DEF IdsIssued, Acquire, Admits, SdTypeOK, Ids
  <2>3. IdsNeverReused'
    BY <1>1, <1>t DEF IdsIssued, IdsNeverReused, Acquire, Admits, SdTypeOK, Ids, Holders
  <2>4. FenceIsExclusive' /\ WaiterOwnsFence'
    BY <1>1 DEF FenceIsExclusive, WaiterOwnsFence, Acquire
  <2>5. QED
    BY <2>2, <2>3, <2>4
<1>2. ASSUME NEW u \in Users, Release(u) PROVE OwnershipInv'
  BY <1>2, <1>t DEF Release, SdTypeOK, Ids, IdsIssued, IdsNeverReused, FenceIsExclusive,
     WaiterOwnsFence, Holders
<1>3. ASSUME NEW c \in Closers, BeginClose(c) PROVE OwnershipInv'
  <2>1. CASE Admits
    <3>1. nextId' = 0 \/ nextId' = nextId + 1
      BY <1>3, <1>t, <2>1, NextIdStep DEF BeginClose, Admits
    <3>2. IdsIssued'
      BY <1>3, <1>t, <2>1, <3>1 DEF IdsIssued, BeginClose, Admits, SdTypeOK, Ids
    <3>3. IdsNeverReused'
      BY <1>3, <1>t, <2>1 DEF IdsIssued, IdsNeverReused, BeginClose, Admits, SdTypeOK, Ids, Holders
    <3>4. FenceIsExclusive' /\ WaiterOwnsFence'
      BY <1>3, <1>t, <2>1 DEF FenceIsExclusive, WaiterOwnsFence, BeginClose, Admits, SdTypeOK
    <3>5. QED
      BY <3>2, <3>3, <3>4
  <2>2. CASE ~Admits
    BY <1>3, <1>t, <2>2 DEF BeginClose, SdTypeOK, Ids, IdsIssued, IdsNeverReused,
       FenceIsExclusive, WaiterOwnsFence, Holders
  <2>3. QED
    BY <2>1, <2>2
<1>4. ASSUME NEW c \in Closers, Reopen(c) PROVE OwnershipInv'
  <2>1. fencing = {c}
    BY <1>4, <1>t DEF Reopen, OwnsClosing, FenceIsExclusive, IdsNeverReused, SdTypeOK
  <2>2. waiting = {}
    BY <1>4, <1>t, <2>1 DEF Reopen, WaiterOwnsFence, SdTypeOK
  <2>3. FenceIsExclusive' /\ WaiterOwnsFence'
    BY <1>4, <2>1, <2>2 DEF Reopen, FenceIsExclusive, WaiterOwnsFence
  <2>4. IdsIssued' /\ IdsNeverReused'
    BY <1>4 DEF Reopen, IdsIssued, IdsNeverReused, Holders
  <2>5. QED
    BY <2>3, <2>4
<1>5. ASSUME NEW c \in Closers, DrainEnter(c) PROVE OwnershipInv'
  <2>1. c \in fencing /\ gate = "closing"
    BY <1>5, <1>t DEF DrainEnter, OwnsClosing, FenceIsExclusive, IdsNeverReused, SdTypeOK
  <2>2. QED
    BY <1>5, <2>1 DEF DrainEnter, IdsIssued, IdsNeverReused, FenceIsExclusive, WaiterOwnsFence, Holders
<1>6. ASSUME NEW c \in Closers, DrainDone(c) PROVE OwnershipInv'
  <2>1. gate = "closing" /\ waiting' = {}
    BY <1>6, <1>t DEF DrainDone, WaiterOwnsFence, FenceIsExclusive, SdTypeOK
  <2>2. QED
    BY <1>6, <2>1 DEF DrainDone, IdsIssued, IdsNeverReused, FenceIsExclusive, WaiterOwnsFence, Holders
<1>7. ASSUME NEW c \in Closers, DrainTimedOut(c) PROVE OwnershipInv'
  BY <1>7 DEF DrainTimedOut, IdsIssued, IdsNeverReused, FenceIsExclusive, WaiterOwnsFence, Holders
<1>8. ASSUME NEW u \in Users, RecordPersistenceFailure(u) PROVE OwnershipInv'
  BY <1>8 DEF RecordPersistenceFailure, IdsIssued, IdsNeverReused, FenceIsExclusive,
     WaiterOwnsFence, Holders
<1>9. CASE UNCHANGED sdVars
  BY <1>9 DEF sdVars, IdsIssued, IdsNeverReused, FenceIsExclusive, WaiterOwnsFence, Holders
<1>10. QED
  BY <1>1, <1>2, <1>3, <1>4, <1>5, <1>6, <1>7, <1>8, <1>9 DEF SdNext, SdUserStep

(* No id is issued twice, for any width of the counter, and therefore the  *)
(* fence has one owner: a stale token neither reopens nor drains it.       *)
THEOREM FenceHasOneOwner == SdSpec => [](IdsNeverReused /\ FenceIsExclusive)
<1>1. SdInit => GateInv /\ OwnershipInv
  BY GateInvInit, OwnershipInit
<1>2. GateInv /\ OwnershipInv /\ [SdNext]_sdVars => (GateInv /\ OwnershipInv)'
  BY GateInvStep, OwnershipStep
<1>3. QED
  BY <1>1, <1>2, PTL DEF SdSpec, OwnershipInv

-----------------------------------------------------------------------------
(* The inductive invariant *)

Working == worker \in {"enter", "stage", "drain_wait", "flushed", "pulse"}

\* The stages before this position have returned success.
Behind == IF worker = "enter" THEN pos + 1 ELSE pos

\* Where the shutdown task stands decides what the state word can be.
ControlInv ==
    /\ status = "idle" <=> requester = "ready"
    /\ requester # "done" => worker = "none"
    /\ worker = "none" => status \in {"idle", "queued", "failed"} /\ pos = 0
    /\ worker = "created" => status \in {"queued", "failed"} /\ pos = 0
    /\ Working /\ status # "signaling" => status \in {"running", "failed"}
    /\ status = "signaling" <=> worker = "pulse" \/ (worker = "stage" /\ pos = 16)
    /\ worker = "enter" => pos < 16
    /\ worker = "stage" => pos > 0
    /\ worker = "drain_wait" => pos = 13
    /\ worker = "flushed" => pos = 15
    /\ worker = "pulse" => pos = 16

\* What the stages behind the shutdown task have established, and keep.
ProgressInv ==
    /\ Working => \A i \in 1 .. 16 : i < Behind /\ Order[i] \in Owners => Order[i] \in quiesced
    /\ Working /\ Behind > 13 => gate = "closed"
    /\ Working /\ Behind > 14 => ~logging
    /\ Working /\ Behind > 15 => ~mounted /\ ~persistFailed
    /\ busy \cap quiesced = {}

\* The rail has moved only where the task is signaling or has reported.
EdgesInv ==
    /\ edges # 0 => worker \in {"pulse", "done"} /\ status \in {"signaling", "failed", "signal_sent"}
    /\ status = "signal_sent" => worker = "done"

IInv ==
    /\ TypeOK
    /\ LeaseAccounting
    /\ ClosedIsDrained
    /\ ControlInv
    /\ ProgressInv
    /\ EdgesInv
    /\ UnmountIsExclusive
    /\ CutIsSafe
    /\ ExpiredNeverPulses
    /\ SentIsComplete

\* The parts that the shutdown itself can disturb.
TaskTypeOK ==
    /\ status \in Statuses
    /\ pos \in 0 .. 16
    /\ now \in Nat /\ deadline \in Nat /\ started \in Nat
    /\ requester \in RequesterPCs
    /\ worker \in WorkerPCs
    /\ watchdog \in WatchdogPCs
    /\ quiesced \in SUBSET Owners
    /\ busy \in SUBSET Unleased
    /\ logging \in BOOLEAN
    /\ mounted \in BOOLEAN
    /\ edges \in 0 .. 2 * Cycles

TaskInv ==
    /\ TaskTypeOK
    /\ ControlInv
    /\ ProgressInv
    /\ EdgesInv
    /\ UnmountIsExclusive
    /\ CutIsSafe
    /\ ExpiredNeverPulses
    /\ SentIsComplete

\* The invariant is that of the gate and that of the tasks.
LEMMA IInvParts == IInv <=> GateInv /\ TaskInv
BY DEF IInv, GateInv, TaskInv, TypeOK, TaskTypeOK

-----------------------------------------------------------------------------
(* The order of the stages *)

\* The stages by their numbers.
LEMMA OrderIs ==
    /\ Order[1] = "ui" /\ Order[2] = "fence" /\ Order[3] = "serial" /\ Order[4] = "screen_nvs"
    /\ Order[5] = "cat" /\ Order[6] = "music" /\ Order[7] = "audit" /\ Order[8] = "time_sync"
    /\ Order[9] = "ssh" /\ Order[10] = "http" /\ Order[11] = "ble" /\ Order[12] = "wifi"
    /\ Order[13] = "drain" /\ Order[14] = "log" /\ Order[15] = "storage" /\ Order[16] = "signal"
BY DEF Order

\* The owners come first; each of the four last stages has a fixed position.
LEMMA StagePositions ==
    /\ \A i \in 1 .. 16 :
          /\ Order[i] = "fence" <=> i = 2
          /\ Order[i] = "drain" <=> i = 13
          /\ Order[i] = "log" <=> i = 14
          /\ Order[i] = "storage" <=> i = 15
          /\ Order[i] = "signal" <=> i = 16
          /\ Order[i] \in Owners => i < 13
    /\ \A o \in Owners : \E i \in 1 .. 12 : Order[i] = o
<1>1. ASSUME NEW i \in 1 .. 16
      PROVE  /\ Order[i] = "fence" <=> i = 2
             /\ Order[i] = "drain" <=> i = 13
             /\ Order[i] = "log" <=> i = 14
             /\ Order[i] = "storage" <=> i = 15
             /\ Order[i] = "signal" <=> i = 16
             /\ Order[i] \in Owners => i < 13
  <2>1. i \in {1, 2, 3, 4, 5, 6, 7, 8, 9, 10, 11, 12, 13, 14, 15, 16}
    OBVIOUS
  <2>2. QED
    BY <2>1, OrderIs DEF Owners, Stages
<1>2. ASSUME NEW o \in Owners PROVE \E i \in 1 .. 12 : Order[i] = o
  <2>1. o \in {"ui", "serial", "screen_nvs", "cat", "music", "audit", "time_sync",
              "ssh", "http", "ble", "wifi"}
    BY DEF Owners, Stages
  <2>2. \A j \in {1, 3, 4, 5, 6, 7, 8, 9, 10, 11, 12} : j \in 1 .. 12
    OBVIOUS
  <2>3. QED
    BY <2>1, <2>2, OrderIs
<1>3. QED
  BY <1>1, <1>2

\* Behind the drain stage every owner has stopped.
LEMMA AllQuiesced ==
    ASSUME TaskInv, Working, Behind > 12
    PROVE  quiesced = Owners /\ busy = {}
<1>1. ASSUME NEW o \in Owners PROVE o \in quiesced
  <2>1. PICK i \in 1 .. 12 : Order[i] = o
    BY StagePositions
  <2>2. i \in 1 .. 16 /\ i < Behind
    BY DEF TaskInv, TaskTypeOK, Behind
  <2>3. QED
    BY <2>1, <2>2 DEF TaskInv, ProgressInv
<1>2. quiesced = Owners
  BY <1>1 DEF TaskInv, TaskTypeOK
<1>3. Unleased \subseteq Owners
  BY DEF Unleased, Owners, Stages
<1>4. QED
  BY <1>2, <1>3 DEF TaskInv, TaskTypeOK, ProgressInv

-----------------------------------------------------------------------------
(* The invariant of the gate is kept by every step of the composition *)

\* Every step of the shutdown preserves the invariant of the gate.
LEMMA GateInvInComposition == ASSUME GateInv, [Next]_vars PROVE GateInv'
<1>1. CASE RaiseFence
  BY <1>1, ControllerAssumption, BeginCloseKeepsGateInv DEF RaiseFence
<1>2. CASE FinishDrain
  BY <1>2, ControllerAssumption, DrainDoneKeepsGateInv DEF FinishDrain
<1>3. CASE StartDrain
  BY <1>3, ControllerAssumption, GateInvStep DEF StartDrain, SdNext
<1>4. CASE DrainExpires
  BY <1>4, ControllerAssumption, GateInvStep DEF DrainExpires, SdNext
<1>5. CASE UseLeased
  BY <1>5, GateInvStep DEF UseLeased, SdNext
<1>6. CASE FlushMetadata
  BY <1>6, GateInvStutters DEF FlushMetadata, GateInv, SdTypeOK
<1>7. CASE Unmount
  BY <1>7, GateInvStutters DEF Unmount, GateInv, SdTypeOK
<1>8. CASE LogWriteFails
  BY <1>8, GateInvStutters DEF LogWriteFails, GateInv, SdTypeOK
<1>9. CASE UNCHANGED sdVars
  BY <1>9, GateInvStep
<1>10. CASE Request \/ CreateWatchdog \/ CreateTask \/ WatchdogFires \/ Tick
  BY <1>9, <1>10 DEF Request, CreateWatchdog, CreateTask, WatchdogFires, Tick
<1>11. CASE Begin \/ Enter \/ StageFails \/ QuiesceOwner \/ CheckFence \/ QuiesceLog
  BY <1>9, <1>11 DEF Begin, Enter, StageFails, QuiesceOwner, CheckFence, QuiesceLog
<1>12. CASE StorageNotReady \/ SignalStep
  BY <1>9, <1>12 DEF StorageNotReady, SignalStep, ConfigureSignal, SetLevel, SetLevelFails, SignalSent
<1>13. CASE \E o \in Unleased : StartUnleased(o) \/ EndUnleased(o)
  BY <1>9, <1>13 DEF StartUnleased, EndUnleased
<1>14. CASE UNCHANGED vars
  BY <1>9, <1>14 DEF vars
<1>15. QED
  BY <1>1, <1>2, <1>3, <1>4, <1>5, <1>6, <1>7, <1>8, <1>10, <1>11, <1>12, <1>13, <1>14
  DEF Next, RequesterStep, WorkerStep, StorageStep, UserStep

-----------------------------------------------------------------------------
(* The invariant of the shutdown, one lemma per group of steps *)

\* A step that touches only the card's users, the clock or the pending drain.
LEMMA TaskInvUsers ==
    ASSUME GateInv, TaskInv,
           UseLeased \/ LogWriteFails \/ (\E o \in Unleased : StartUnleased(o) \/ EndUnleased(o))
    PROVE  TaskInv'
<1>1. CASE UseLeased
  <2>1. PICK u \in Users : SdUserStep(u)
    BY <1>1 DEF UseLeased
  <2>2. UNCHANGED <<ctlVars, devVars, gate>>
    BY <1>1, <2>1 DEF UseLeased, SdUserStep, Acquire, Release, RecordPersistenceFailure
  <2>3. Holders = {} => persistFailed' = persistFailed
    BY <2>1 DEF SdUserStep, Acquire, Release, RecordPersistenceFailure, Holders
  <2>4. gate = "closed" => Holders' = {}
    BY <2>1 DEF GateInv, ClosedIsDrained, SdUserStep, Acquire, Admits, Release,
       RecordPersistenceFailure, Holders
  <2>5. ProgressInv'
    BY <2>2, <2>3 DEF GateInv, ClosedIsDrained, TaskInv, TaskTypeOK, ProgressInv, Working, Behind,
       ctlVars, devVars
  <2>6. UnmountIsExclusive' /\ CutIsSafe'
    BY <2>2, <2>3, <2>4 DEF TaskInv, UnmountIsExclusive, CutIsSafe, ctlVars, devVars
  <2>7. QED
    BY <2>2, <2>5, <2>6 DEF TaskInv, TaskTypeOK, ControlInv, Working, EdgesInv,
       ExpiredNeverPulses, SentIsComplete, ctlVars, devVars
<1>2. CASE LogWriteFails
  <2>1. UNCHANGED <<ctlVars, devVars, gate, lease>> /\ logging
    BY <1>2 DEF LogWriteFails
  <2>2. QED
    BY <2>1 DEF TaskInv, TaskTypeOK, ControlInv, ProgressInv, EdgesInv, Working, Behind, Holders,
       UnmountIsExclusive, CutIsSafe, ExpiredNeverPulses, SentIsComplete, ctlVars, devVars
<1>3. ASSUME NEW o \in Unleased, StartUnleased(o) \/ EndUnleased(o) PROVE TaskInv'
  <2>1. UNCHANGED <<sdVars, ctlVars, quiesced, logging, mounted, edges>>
    BY <1>3 DEF StartUnleased, EndUnleased
  <2>2. busy' \in SUBSET Unleased /\ busy' \cap quiesced = {}
    BY <1>3 DEF TaskInv, TaskTypeOK, ProgressInv, StartUnleased, EndUnleased
  <2>3. ~mounted => busy' = {}
    BY <1>3, <2>2 DEF TaskInv, UnmountIsExclusive, StartUnleased, EndUnleased, Unleased, Owners, Stages
  <2>4. QED
    BY <2>1, <2>2, <2>3 DEF TaskInv, TaskTypeOK, ControlInv, ProgressInv, EdgesInv, Working, Behind,
       Holders, UnmountIsExclusive, CutIsSafe, ExpiredNeverPulses, SentIsComplete, ctlVars, sdVars
<1>4. QED
  BY <1>1, <1>2, <1>3

\* Steps of the requester, the watchdog and the clock: the task's own progress stands still.
LEMMA TaskInvRequester ==
    ASSUME GateInv, TaskInv, RequesterStep \/ WatchdogFires \/ Tick
    PROVE  TaskInv'
<1> USE DEF TaskInv, TaskTypeOK, ControlInv, ProgressInv, EdgesInv, Working, Behind, Holders,
       UnmountIsExclusive, CutIsSafe, ExpiredNeverPulses, SentIsComplete, devVars,
       Statuses, RequesterPCs, WorkerPCs, WatchdogPCs
<1>1. CASE Request
  BY <1>1, BudgetAssumption DEF Request, sdVars
<1>2. CASE RaiseFence
  <2>1. UNCHANGED <<persistFailed, lease, pos, now, deadline, started, worker, watchdog, devVars>>
    BY <1>2 DEF RaiseFence, BeginClose
  <2>2. gate = "closed" => gate' = "closed"
    BY <1>2 DEF RaiseFence, BeginClose, Admits
  <2>3. worker = "none" /\ requester' \in {"watchdog", "done"} /\ status \in {"queued", "failed"}
        /\ status' \in {status, "failed"}
    BY <1>2 DEF RaiseFence, Expire
  <2>4. QED
    BY <2>1, <2>2, <2>3
<1>3. CASE CreateWatchdog
  BY <1>3 DEF CreateWatchdog, Expire, Expirable, sdVars
<1>4. CASE CreateTask
  BY <1>4 DEF CreateTask, Expire, Expirable, sdVars
<1>5. CASE WatchdogFires
  BY <1>5 DEF WatchdogFires, Expire, Expirable, sdVars
<1>6. CASE Tick
  BY <1>6 DEF Tick, sdVars
<1>7. QED
  BY <1>1, <1>2, <1>3, <1>4, <1>5, <1>6 DEF RequesterStep

\* Aborting is always safe for the invariant, except that the rail must have been claimed.
LEMMA TaskInvAborts ==
    ASSUME TaskInv, Working, Abort,
           UNCHANGED <<gate, lease, requester, watchdog, now, deadline, started, devVars>>,
           pos' \in 0 .. 16,
           edges > 0 => persistFailed' = persistFailed
    PROVE  TaskInv'
BY DEF TaskInv, TaskTypeOK, ControlInv, ProgressInv, EdgesInv, Working, Behind, Holders, Abort,
   UnmountIsExclusive, CutIsSafe, ExpiredNeverPulses, SentIsComplete, devVars,
   Statuses, WorkerPCs

\* The unmount itself: what the stages behind it established is all that it needs.
LEMMA TaskInvUnmount ==
    ASSUME GateInv, TaskInv, Unmount
    PROVE  TaskInv'
<1>1. Working /\ worker = "flushed" /\ pos = 15
  BY DEF Unmount, Working, TaskInv, ControlInv
<1>2. gate = "closed" /\ ~logging /\ edges = 0
  BY <1>1 DEF TaskInv, ProgressInv, EdgesInv, Behind
<1>3. quiesced = Owners /\ busy = {}
  BY <1>1, AllQuiesced DEF Behind
<1>4. Holders' = {}
  BY <1>2 DEF Unmount, GateInv, ClosedIsDrained, Holders
<1>5. \/ Abort /\ UNCHANGED <<mounted, persistFailed>>
      \/ mounted' = FALSE /\ Abort
      \/ mounted' = FALSE /\ persistFailed' = FALSE /\ Passed
  <2>1. persistFailed \in BOOLEAN
    BY DEF GateInv, SdTypeOK
  <2>2. persistFailed' \in {persistFailed, TRUE} => persistFailed' \in BOOLEAN
    BY <2>1
  <2>3. QED
    BY <2>1, <2>2, Zenon DEF Unmount
<1>6. /\ UNCHANGED <<gate, lease, pos, now, deadline, started, requester, watchdog,
                     quiesced, busy, logging, edges>>
  BY DEF Unmount
<1>7. CASE Abort /\ UNCHANGED <<mounted, persistFailed>>
  BY <1>1, <1>6, <1>7, TaskInvAborts DEF devVars, TaskInv, TaskTypeOK
<1>8. ASSUME worker' \in {"enter", "done"}, worker' = "enter" => status' = status /\ status = "running",
              worker' = "done" => status' = "failed",
              mounted' = FALSE, worker' = "enter" => ~persistFailed'
      PROVE  TaskInv'
  <2>1. TaskTypeOK'
    BY <1>1, <1>6, <1>8 DEF TaskInv, TaskTypeOK, Statuses, WorkerPCs
  <2>0. ControlInv'
    BY <1>1, <1>6, <1>8 DEF TaskInv, ControlInv, Working
  <2>2. ProgressInv'
    <3>1. CASE worker' = "enter"
      <4>1. Behind' = 16 /\ quiesced' = Owners /\ gate' = "closed" /\ ~logging' /\ busy' = {}
        BY <1>1, <1>2, <1>3, <1>6, <3>1 DEF Behind
      <4>2. QED
        BY <1>8, <3>1, <4>1 DEF ProgressInv
    <3>2. CASE worker' = "done"
      BY <1>3, <1>6, <3>2 DEF ProgressInv, Working
    <3>3. QED
      BY <1>8, <3>1, <3>2
  <2>3. EdgesInv' /\ CutIsSafe' /\ SentIsComplete' /\ ExpiredNeverPulses'
    BY <1>1, <1>2, <1>6, <1>8 DEF TaskInv, EdgesInv, CutIsSafe, SentIsComplete, ExpiredNeverPulses
  <2>4. UnmountIsExclusive'
    BY <1>2, <1>3, <1>4, <1>6 DEF UnmountIsExclusive
  <2>5. QED
    BY <2>0, <2>1, <2>2, <2>3, <2>4 DEF TaskInv
<1>9. CASE mounted' = FALSE /\ (Abort \/ (persistFailed' = FALSE /\ Passed))
  BY <1>8, <1>9 DEF Abort, Passed
<1>10. QED
  BY <1>5, <1>7, <1>9

\* A stage before the storage stage returns success, or its late success is refused.
LEMMA TaskInvReturns ==
    ASSUME GateInv, TaskInv, Passed,
           worker \in {"stage", "drain_wait"}, pos \in 1 .. 14,
           UNCHANGED <<lease, persistFailed, pos, now, deadline, started, requester, watchdog,
                       busy, mounted, edges>>,
           quiesced' \in SUBSET Owners, quiesced \subseteq quiesced', busy \cap quiesced' = {},
           Order[pos] \in Owners => Order[pos] \in quiesced',
           gate' \in {gate, "closed"}, pos = 13 => gate' = "closed",
           logging' \in {logging, FALSE}, pos = 14 => logging' = FALSE
    PROVE  TaskInv'
<1>1. /\ worker' \in {"enter", "done"} /\ status' \in {"running", "failed"}
      /\ worker' = "enter" => status' = "running" /\ status = "running"
      /\ worker' = "done" => status' = "failed"
      /\ status = "failed" => status' = "failed"
      /\ status \in {"running", "failed"}
  BY DEF Passed, Abort, TaskInv, ControlInv, Working
<1>2. edges = 0
  BY DEF TaskInv, TaskTypeOK, EdgesInv
<1>3. TaskTypeOK'
  BY <1>1 DEF TaskInv, TaskTypeOK, WorkerPCs, Statuses
<1>4. ControlInv'
  BY <1>1 DEF TaskInv, TaskTypeOK, ControlInv, Working
<1>5. ProgressInv'
  <2>1. Working /\ Behind = pos
    BY DEF Working, Behind
  <2>2. CASE worker' = "enter"
    <3>1. Behind' = pos + 1
      BY <2>2 DEF Behind
    <3>2. \A i \in 1 .. 16 : i < pos + 1 /\ Order[i] \in Owners => Order[i] \in quiesced'
      BY <2>1 DEF TaskInv, TaskTypeOK, ProgressInv
    <3>3. (pos + 1 > 13 => gate' = "closed") /\ (pos + 1 > 14 => ~logging')
      BY <2>1 DEF TaskInv, TaskTypeOK, ProgressInv
    <3>4. QED
      BY <3>1, <3>2, <3>3 DEF ProgressInv
  <2>3. CASE worker' = "done"
    BY <2>3 DEF ProgressInv, Working
  <2>4. QED
    BY <1>1, <2>2, <2>3
<1>6. EdgesInv' /\ CutIsSafe' /\ SentIsComplete'
  BY <1>1, <1>2 DEF EdgesInv, CutIsSafe, SentIsComplete
<1>7. UnmountIsExclusive' /\ ExpiredNeverPulses'
  BY <1>1, <1>2 DEF TaskInv, UnmountIsExclusive, ExpiredNeverPulses, Holders
<1>8. QED
  BY <1>3, <1>4, <1>5, <1>6, <1>7 DEF TaskInv

\* The flush of the metadata passes or the shutdown aborts.
LEMMA FlushOutcomes ==
    ASSUME FlushMetadata, persistFailed \in BOOLEAN
    PROVE  Abort \/ (worker' = "flushed" /\ UNCHANGED <<status, persistFailed>>)
BY DEF FlushMetadata, StorageReady

\* A stage that passed while nothing it established was undone.
LEMMA TaskInvWorker ==
    ASSUME GateInv, TaskInv, WorkerStep
    PROVE  TaskInv'
<1>t. TaskTypeOK /\ ControlInv
  BY DEF TaskInv
<1>1. CASE StageFails
  BY <1>1, <1>t, TaskInvAborts DEF StageFails, Working, sdVars, TaskTypeOK
<1>2. CASE DrainExpires
  BY <1>2, <1>t, TaskInvAborts DEF DrainExpires, DrainTimedOut, Working, TaskTypeOK
<1>3. CASE StorageNotReady
  BY <1>3, <1>t, TaskInvAborts DEF StorageNotReady, AtStage, Working, sdVars, TaskTypeOK
<1>4. CASE SetLevelFails
  BY <1>4, <1>t, TaskInvAborts DEF SetLevelFails, Working, sdVars, TaskTypeOK
<1>5. CASE Unmount
  BY <1>5, TaskInvUnmount
<1>6. ASSUME AtStage(Stage) PROVE pos \in 1 .. 16 /\ Stage = Order[pos]
  BY <1>6, <1>t DEF AtStage, Stage, TaskTypeOK, ControlInv
<1>7. CASE QuiesceOwner
  <2>1. worker = "stage" /\ Stage = Order[pos] /\ pos \in 1 .. 14 /\ pos # 13 /\ pos # 14
    BY <1>6, <1>7, StagePositions DEF QuiesceOwner, AtStage
  <2>2. Passed /\ quiesced' = quiesced \cup {Order[pos]} /\ Order[pos] \in Owners \ busy
        /\ UNCHANGED <<sdVars, pos, now, deadline, started, requester, watchdog,
                       busy, logging, mounted, edges>>
    BY <1>7, <2>1 DEF QuiesceOwner
  <2>3. quiesced' \in SUBSET Owners /\ busy \cap quiesced' = {}
    BY <2>2 DEF TaskInv, TaskTypeOK, ProgressInv
  <2>4. QED
    BY <2>1, <2>2, <2>3, TaskInvReturns DEF sdVars
<1>8. CASE CheckFence
  <2>1. worker = "stage" /\ pos = 2 /\ Order[pos] \notin Owners
    BY <1>6, <1>8, StagePositions, OrderIs DEF CheckFence, AtStage, Owners
  <2>2. UNCHANGED <<sdVars, pos, now, deadline, started, requester, watchdog, devVars>>
    BY <1>8 DEF CheckFence
  <2>3. CASE Passed
    BY <2>1, <2>2, <2>3, TaskInvReturns DEF sdVars, devVars, TaskInv, TaskTypeOK, ProgressInv
  <2>4. CASE Abort
    BY <2>1, <2>2, <2>4, TaskInvAborts DEF Working, sdVars
  <2>5. QED
    BY <1>8, <2>3, <2>4 DEF CheckFence
<1>9. CASE FinishDrain
  <2>1. worker = "drain_wait" /\ pos = 13 /\ Order[pos] \notin Owners
    BY <1>9, <1>t, OrderIs DEF FinishDrain, ControlInv, Owners
  <2>2. gate' = "closed" /\ UNCHANGED <<lease, persistFailed, pos, now, deadline, started,
                                        requester, watchdog, devVars>>
    BY <1>9 DEF FinishDrain, DrainDone
  <2>3. CASE Passed
    BY <2>1, <2>2, <2>3, TaskInvReturns DEF devVars, TaskInv, TaskTypeOK, ProgressInv
  <2>4. CASE Abort
    <3>1. EdgesInv' /\ TaskTypeOK' /\ ControlInv'
      BY <1>t, <2>1, <2>2, <2>4 DEF Abort, TaskInv, TaskTypeOK, ControlInv, EdgesInv, Working,
         devVars, Statuses, WorkerPCs
    <3>2. QED
      BY <1>t, <2>1, <2>2, <2>4, <3>1 DEF Abort, TaskInv, TaskTypeOK, ProgressInv, EdgesInv,
         Working, Holders, UnmountIsExclusive, CutIsSafe, ExpiredNeverPulses, SentIsComplete, devVars
  <2>5. QED
    BY <1>9, <2>3, <2>4 DEF FinishDrain
<1>10. CASE QuiesceLog
  <2>1. worker = "stage" /\ pos = 14 /\ Order[pos] \notin Owners
    BY <1>6, <1>10, StagePositions, OrderIs DEF QuiesceLog, AtStage, Owners
  <2>2. Passed /\ logging' = FALSE
        /\ UNCHANGED <<sdVars, pos, now, deadline, started, requester, watchdog,
                       quiesced, busy, mounted, edges>>
    BY <1>10 DEF QuiesceLog
  <2>3. quiesced' \in SUBSET Owners /\ busy \cap quiesced' = {}
    BY <2>2 DEF TaskInv, TaskTypeOK, ProgressInv
  <2>4. UNCHANGED <<lease, persistFailed, gate>>
    BY <2>2 DEF sdVars
  <2>5. /\ quiesced \subseteq quiesced' /\ gate' \in {gate, "closed"}
        /\ pos \in 1 .. 14 /\ worker \in {"stage", "drain_wait"}
        /\ Order[pos] \in Owners => Order[pos] \in quiesced'
        /\ pos = 13 => gate' = "closed"
    BY <2>1, <2>2, <2>4
  <2>8. logging' \in {logging, FALSE} /\ (pos = 14 => logging' = FALSE)
    BY <2>2, Zenon
  <2>6. UNCHANGED <<lease, persistFailed, pos, now, deadline, started, requester, watchdog,
                    busy, mounted, edges>>
    BY <2>2, <2>4
  <2>7. QED
    BY <2>2, <2>3, <2>5, <2>6, <2>8, TaskInvReturns
<1>11. CASE FlushMetadata
  <2>1. worker = "stage" /\ pos = 15
    BY <1>6, <1>11, StagePositions DEF FlushMetadata, AtStage
  <2>2. edges = 0 /\ UNCHANGED <<gate, lease, pos, now, deadline, started, requester, watchdog, devVars>>
    BY <1>11, <2>1 DEF FlushMetadata, TaskInv, EdgesInv
  <2>3. CASE Abort
    BY <1>t, <2>1, <2>2, <2>3, TaskInvAborts DEF Working, TaskTypeOK
  <2>4. CASE worker' = "flushed" /\ UNCHANGED <<status, persistFailed>>
    BY <2>1, <2>2, <2>4 DEF TaskInv, TaskTypeOK, ControlInv, ProgressInv, EdgesInv, Working, Behind,
       Holders, UnmountIsExclusive, CutIsSafe, ExpiredNeverPulses, SentIsComplete, devVars, WorkerPCs
  <2>5. QED
    BY <1>11, <2>3, <2>4, FlushOutcomes DEF GateInv, SdTypeOK
<1> USE DEF TaskInv, TaskTypeOK, ControlInv, ProgressInv, EdgesInv, Working, Behind, Holders,
       UnmountIsExclusive, CutIsSafe, ExpiredNeverPulses, SentIsComplete, devVars, sdVars,
       Statuses, WorkerPCs, Abort, Stage, AtStage
<1>12. CASE Begin
  BY <1>12 DEF Begin
<1>13. CASE Enter
  BY <1>13, StagePositions DEF Enter, Admitted
<1>14. CASE StartDrain
  BY <1>14, StagePositions DEF StartDrain, DrainEnter
<1>15. CASE ConfigureSignal
  BY <1>15, StagePositions DEF ConfigureSignal
<1>16. CASE SetLevel
  BY <1>16, SignalAssumption DEF SetLevel
<1>17. CASE SignalSent
  BY <1>17 DEF SignalSent
<1>18. QED
  BY <1>1, <1>2, <1>3, <1>4, <1>5, <1>7, <1>8, <1>9, <1>10, <1>11, <1>12, <1>13, <1>14, <1>15,
     <1>16, <1>17 DEF WorkerStep, StorageStep, SignalStep

-----------------------------------------------------------------------------
(* The invariant *)

\* The idle controller satisfies the inductive invariant.
LEMMA IInvInit == ASSUME Init PROVE IInv
<1>1. GateInv
  BY GateInvInit DEF Init
<1>2. TaskInv
  BY SignalAssumption DEF Init, TaskInv, TaskTypeOK, ControlInv, ProgressInv, EdgesInv, Working,
     UnmountIsExclusive, CutIsSafe, ExpiredNeverPulses, SentIsComplete,
     Statuses, RequesterPCs, WorkerPCs, WatchdogPCs
<1>3. QED
  BY <1>1, <1>2, IInvParts

\* Every step preserves the inductive invariant.
LEMMA IInvStep == ASSUME IInv, [Next]_vars PROVE IInv'
<1>1. GateInv /\ TaskInv
  BY IInvParts
<1>2. GateInv'
  BY <1>1, GateInvInComposition
<1>3. TaskInv'
  <2>1. CASE RequesterStep \/ WatchdogFires \/ Tick
    BY <1>1, <2>1, TaskInvRequester
  <2>2. CASE WorkerStep
    BY <1>1, <2>2, TaskInvWorker
  <2>3. CASE UserStep
    BY <1>1, <2>3, TaskInvUsers DEF UserStep
  <2>4. CASE UNCHANGED vars
    BY <1>1, <2>4 DEF vars, sdVars, ctlVars, devVars, TaskInv, TaskTypeOK, ControlInv, ProgressInv,
       EdgesInv, Working, Behind, Holders, UnmountIsExclusive, CutIsSafe, ExpiredNeverPulses, SentIsComplete
  <2>5. QED
    BY <2>1, <2>2, <2>3, <2>4 DEF Next
<1>4. QED
  BY <1>2, <1>3 DEF IInv, GateInv, TaskInv, TypeOK, TaskTypeOK

\* The inductive invariant always holds.
LEMMA InvariantHolds == Spec => []IInv
<1>1. Init => IInv
  BY IInvInit
<1>2. IInv /\ [Next]_vars => IInv'
  BY IInvStep
<1>3. QED
  BY <1>1, <1>2, PTL DEF Spec

(* The state of the shutdown, of the gate and of the devices keeps its type *)
(* and the lease count stays exact, for any number of users and any budget. *)
THEOREM TypeCorrect == Spec => [](TypeOK /\ LeaseAccounting)
<1>1. IInv => TypeOK /\ LeaseAccounting
  BY DEF IInv
<1>2. QED
  BY <1>1, InvariantHolds, PTL

(* The volume is never unmounted while anybody can still use it.            *)
THEOREM UnmountSafety == Spec => []UnmountIsExclusive
<1>1. IInv => UnmountIsExclusive
  BY DEF IInv
<1>2. QED
  BY <1>1, InvariantHolds, PTL

(* The rail moves only after a clean unmount, never after the watchdog      *)
(* declared the shutdown dead, and success means the complete train.        *)
THEOREM CutSafety == Spec => [](CutIsSafe /\ ExpiredNeverPulses /\ SentIsComplete)
<1>1. IInv => CutIsSafe /\ ExpiredNeverPulses /\ SentIsComplete
  BY DEF IInv
<1>2. QED
  BY <1>1, InvariantHolds, PTL

-----------------------------------------------------------------------------
(* Action properties *)

\* No step changes a verdict.
LEMMA VerdictStep ==
    ASSUME IInv, [Next]_vars, status \in {"failed", "signal_sent"}
    PROVE  status' = status
<1>1. ControlInv /\ EdgesInv /\ (Working => status = "failed")
  BY DEF IInv, ControlInv, EdgesInv, Working
<1>2. CASE RequesterStep \/ WatchdogFires \/ Tick
  BY <1>2 DEF RequesterStep, Request, RaiseFence, CreateWatchdog, CreateTask, WatchdogFires, Tick,
     Expire, Expirable
<1>3. CASE Begin
  BY <1>3 DEF Begin
<1>4. CASE Enter \/ StageFails \/ QuiesceOwner \/ CheckFence
  BY <1>1, <1>4 DEF Working, Enter, Admitted, StageFails, QuiesceOwner, CheckFence, AtStage, Abort, Passed
<1>5. CASE StartDrain \/ FinishDrain \/ DrainExpires \/ QuiesceLog
  BY <1>1, <1>5 DEF Working, StartDrain, FinishDrain, DrainExpires, QuiesceLog, AtStage, Abort, Passed
<1>6. CASE StorageStep
  BY <1>1, <1>6 DEF Working, StorageStep, FlushMetadata, StorageNotReady, Unmount, AtStage, Abort, Passed
<1>7. CASE SignalStep
  BY <1>1, <1>7 DEF ControlInv, Working, SignalStep, ConfigureSignal, SetLevel, SetLevelFails, SignalSent,
     AtStage, Abort
<1>8. CASE UserStep
  BY <1>8 DEF UserStep, UseLeased, StartUnleased, EndUnleased, LogWriteFails, ctlVars
<1>9. CASE UNCHANGED vars
  BY <1>9 DEF vars, ctlVars
<1>10. QED
  BY <1>2, <1>3, <1>4, <1>5, <1>6, <1>7, <1>8, <1>9 DEF Next, WorkerStep

(* A verdict, once stored, is never overwritten by another one.             *)
THEOREM VerdictFinal == Spec => VerdictIsFinal
<1>1. IInv /\ [Next]_vars => [(status \in {"failed", "signal_sent"}) => status' = status]_vars
  BY VerdictStep
<1>2. QED
  BY <1>1, InvariantHolds, PTL DEF Spec, VerdictIsFinal

\* No step lifts the fence.
LEMMA FenceStep ==
    ASSUME [Next]_vars, gate # "open"
    PROVE  gate' # "open" /\ closeOwner' = closeOwner
<1>1. CASE UNCHANGED sdVars
  BY <1>1 DEF sdVars
<1>2. CASE RequesterStep \/ WatchdogFires \/ Tick
  BY <1>1, <1>2 DEF RequesterStep, Request, RaiseFence, BeginClose, Admits, CreateWatchdog, CreateTask,
     WatchdogFires, Tick
<1>3. CASE Begin \/ Enter \/ StageFails \/ QuiesceOwner \/ CheckFence \/ QuiesceLog
  BY <1>1, <1>3 DEF Begin, Enter, StageFails, QuiesceOwner, CheckFence, QuiesceLog
<1>4. CASE StartDrain \/ FinishDrain \/ DrainExpires
  BY <1>4 DEF StartDrain, FinishDrain, DrainExpires, DrainEnter, DrainDone, DrainTimedOut
<1>5. CASE StorageStep \/ SignalStep
  BY <1>1, <1>5 DEF StorageStep, FlushMetadata, StorageNotReady, Unmount,
     SignalStep, ConfigureSignal, SetLevel, SetLevelFails, SignalSent
<1>6. CASE UserStep
  BY <1>1, <1>6 DEF UserStep, UseLeased, SdUserStep, Acquire, Release, RecordPersistenceFailure,
     StartUnleased, EndUnleased, LogWriteFails
<1>7. QED
  BY <1>1, <1>2, <1>3, <1>4, <1>5, <1>6 DEF Next, WorkerStep, vars

(* The fence of a request stays up, with its owner, whatever fails later.   *)
THEOREM FencePermanent == Spec => FenceIsPermanent
<1>1. [Next]_vars => [(gate # "open") => (gate' # "open" /\ closeOwner' = closeOwner)]_vars
  BY FenceStep
<1>2. QED
  BY <1>1, PTL DEF Spec, FenceIsPermanent

-----------------------------------------------------------------------------
(* The shutdown implements PowerCut *)

Undecided == {"queued", "running", "signaling"}

\* The verdict of the abstract shutdown by the status of the controller.
LEMMA VerdictIs ==
    /\ status = "idle" => Verdict = "none"
    /\ status \in Undecided => Verdict = "pending"
    /\ status = "failed" => Verdict = "failed"
    /\ status = "signal_sent" => Verdict = "sent"
BY DEF Verdict, Undecided

\* The state word moves on without a new verdict, or the shutdown gives up.
StatusMoves ==
    \/ status' = status
    \/ status \in Undecided /\ status' \in Undecided \cup {"failed"}

\* A move of the state word is a verdict or none in the abstract shutdown.
LEMMA VerdictMoves ==
    ASSUME status \in Statuses, StatusMoves
    PROVE  Cut!MayGiveUp
BY VerdictIs DEF StatusMoves, Verdict, Undecided, Cut!MayGiveUp, Cut!GivesUp

\* Steps that only move the state word are a verdict or a stutter of PowerCut.
LEMMA OnlyVerdictMoves ==
    ASSUME status \in Statuses, StatusMoves,
           UNCHANGED <<gate, lease, quiesced, busy, mounted, edges>>
    PROVE  [Cut!Next]_(Cut!vars)
<1>1. Cut!GivesUp \/ UNCHANGED Verdict
  BY VerdictMoves DEF Cut!MayGiveUp
<1>2. UNCHANGED <<Holders \cup busy, Barred, mounted, edges>>
  BY DEF Holders, Barred
<1>3. QED
  BY <1>1, <1>2 DEF Cut!Next, Cut!Report, Cut!vars

\* Steps that fence the gate or stop an owner bar clients.
LEMMA BarringStep ==
    ASSUME status \in Statuses \ {"idle"}, StatusMoves,
           UNCHANGED <<lease, busy, mounted, edges>>,
           gate' = gate \/ gate' # "open",
           quiesced \subseteq quiesced'
    PROVE  Cut!Bar
<1>1. Cut!MayGiveUp
  BY VerdictMoves
<1>2. Verdict # "none"
  BY DEF Verdict, Statuses
<1>3. Barred' \in SUBSET (Users \cup Unleased) /\ Barred \subseteq Barred'
  BY DEF Barred
<1>4. UNCHANGED <<Holders \cup busy, mounted, edges>>
  BY DEF Holders
<1>5. QED
  BY <1>1, <1>2, <1>3, <1>4 DEF Cut!Bar

\* What a working task may store in the state word.
LEMMA WorkerMoves ==
    ASSUME ControlInv, Working, Abort \/ Passed \/ UNCHANGED status
    PROVE  StatusMoves
BY DEF ControlInv, Working, Abort, Passed, StatusMoves, Undecided

\* A step of a user of the card is one of the abstract shutdown.
LEMMA CutUserStep ==
    ASSUME IInv, UserStep
    PROVE  [Cut!Next]_(Cut!vars)
<1>1. ASSUME NEW u \in Users, SdUserStep(u), UNCHANGED <<ctlVars, devVars>>
      PROVE  [Cut!Next]_(Cut!vars)
  <2>1. UNCHANGED <<gate, status, quiesced, busy, mounted, edges>>
    BY <1>1 DEF SdUserStep, Acquire, Release, RecordPersistenceFailure, ctlVars, devVars
  <2>2. UNCHANGED <<Verdict, Barred, mounted, edges>>
    BY <2>1 DEF Verdict, Barred
  <2>3. CASE Acquire(u)
    <3>1. Holders' = Holders \cup {u}
      BY <2>3 DEF IInv, TypeOK, SdTypeOK, Acquire, Admits, Holders
    <3>2. u \notin Barred
      BY <2>3, UsersDistinctAssumption DEF Acquire, Admits, Barred
    <3>3. Cut!Start(u)
      BY <2>1, <2>2, <3>1, <3>2 DEF Cut!Start
    <3>4. QED
      BY <3>3 DEF Cut!Next
  <2>4. CASE Release(u)
    <3>1. Holders' = Holders \ {u}
      BY <2>4 DEF IInv, TypeOK, SdTypeOK, Release, Holders
    <3>2. u \notin busy
      BY UsersDistinctAssumption DEF IInv, TypeOK
    <3>3. Cut!Finish(u)
      BY <2>1, <2>2, <3>1, <3>2 DEF Cut!Finish
    <3>4. QED
      BY <3>3 DEF Cut!Next
  <2>5. CASE RecordPersistenceFailure(u)
    BY <2>1, <2>2, <2>5 DEF RecordPersistenceFailure, Holders, Cut!vars
  <2>6. QED
    BY <1>1, <2>3, <2>4, <2>5 DEF SdUserStep
<1>2. ASSUME NEW o \in Unleased, StartUnleased(o) \/ EndUnleased(o)
      PROVE  [Cut!Next]_(Cut!vars)
  <2>1. UNCHANGED <<gate, lease, status, quiesced, mounted, edges>>
    BY <1>2 DEF StartUnleased, EndUnleased, sdVars, ctlVars
  <2>2. UNCHANGED <<Verdict, Barred, Holders, mounted, edges>>
    BY <2>1 DEF Verdict, Barred, Holders
  <2>3. o \notin Users /\ o \notin Holders
    BY UsersDistinctAssumption DEF Holders
  <2>4. CASE StartUnleased(o)
    <3>1. Cut!Start(o)
      BY <2>2, <2>3, <2>4 DEF StartUnleased, Barred, Cut!Start
    <3>2. QED
      BY <3>1 DEF Cut!Next
  <2>5. CASE EndUnleased(o)
    <3>1. Cut!Finish(o)
      BY <2>2, <2>3, <2>5 DEF EndUnleased, Cut!Finish
    <3>2. QED
      BY <3>1 DEF Cut!Next
  <2>6. QED
    BY <1>2, <2>4, <2>5
<1>3. CASE LogWriteFails
  BY <1>3, OnlyVerdictMoves DEF LogWriteFails, StatusMoves, ctlVars, devVars, IInv, TypeOK
<1>4. QED
  BY <1>1, <1>2, <1>3 DEF UserStep, UseLeased

\* A step of the requester is one of the abstract shutdown.
LEMMA CutRequesterStep ==
    ASSUME IInv, RequesterStep \/ WatchdogFires \/ Tick
    PROVE  [Cut!Next]_(Cut!vars)
<1>t. status \in Statuses /\ ControlInv
  BY DEF IInv, TypeOK
<1>1. CASE Request
  <2>1. Verdict = "none" /\ Verdict' = "pending"
    BY <1>1 DEF Request, Verdict
  <2>2. UNCHANGED <<Holders \cup busy, Barred, mounted, edges>>
    BY <1>1 DEF Request, Holders, Barred, sdVars, devVars
  <2>3. QED
    BY <2>1, <2>2 DEF Cut!Ask, Cut!Next
<1>2. CASE RaiseFence
  <2>1. Cut!Bar
    BY <1>t, <1>2, BarringStep DEF RaiseFence, BeginClose, Expire, Expirable, StatusMoves, Undecided,
       ControlInv, devVars
  <2>2. QED
    BY <2>1 DEF Cut!Next
<1>3. CASE CreateWatchdog \/ CreateTask \/ WatchdogFires \/ Tick
  <2>1. StatusMoves
    BY <1>3 DEF CreateWatchdog, CreateTask, WatchdogFires, Tick, Expire, Expirable, StatusMoves, Undecided
  <2>2. UNCHANGED <<gate, lease, quiesced, busy, mounted, edges>>
    BY <1>3 DEF CreateWatchdog, CreateTask, WatchdogFires, Tick, sdVars, devVars
  <2>3. QED
    BY <1>t, <2>1, <2>2, OnlyVerdictMoves
<1>4. QED
  BY <1>1, <1>2, <1>3 DEF RequesterStep

\* A step of the worker is one of the abstract shutdown.
LEMMA CutWorkerStep ==
    ASSUME IInv, WorkerStep
    PROVE  [Cut!Next]_(Cut!vars)
<1>t. status \in Statuses /\ ControlInv
  BY DEF IInv, TypeOK
<1>1. CASE Begin
  <2>1. StatusMoves /\ UNCHANGED <<gate, lease, quiesced, busy, mounted, edges>>
    BY <1>1 DEF Begin, StatusMoves, Undecided, sdVars, devVars
  <2>2. QED
    BY <1>t, <2>1, OnlyVerdictMoves
<1>2. CASE Enter
  <2>1. StatusMoves
    BY <1>t, <1>2 DEF Enter, Admitted, Abort, StatusMoves, Undecided, ControlInv, Working
  <2>2. QED
    BY <1>t, <1>2, <2>1, OnlyVerdictMoves DEF Enter, sdVars, devVars
<1>3. CASE StageFails \/ CheckFence \/ StartDrain \/ DrainExpires
  <2>1. StatusMoves
    BY <1>t, <1>3, WorkerMoves DEF StageFails, CheckFence, StartDrain, DrainExpires, AtStage, Working
  <2>2. UNCHANGED <<gate, lease, quiesced, busy, mounted, edges>>
    BY <1>3 DEF StageFails, CheckFence, StartDrain, DrainEnter, DrainExpires, DrainTimedOut, sdVars, devVars
  <2>3. QED
    BY <1>t, <2>1, <2>2, OnlyVerdictMoves
<1>4. CASE QuiesceLog \/ FlushMetadata \/ StorageNotReady \/ ConfigureSignal \/ SetLevelFails
  <2>1. StatusMoves
    BY <1>t, <1>4, WorkerMoves DEF QuiesceLog, FlushMetadata, StorageNotReady, ConfigureSignal,
       SetLevelFails, AtStage, Working
  <2>2. UNCHANGED <<gate, lease, quiesced, busy, mounted, edges>>
    BY <1>4 DEF QuiesceLog, FlushMetadata, StorageNotReady, ConfigureSignal, SetLevelFails, sdVars, devVars
  <2>3. QED
    BY <1>t, <2>1, <2>2, OnlyVerdictMoves
<1>5. CASE QuiesceOwner \/ FinishDrain
  <2>1. StatusMoves /\ status # "idle"
    BY <1>t, <1>5, WorkerMoves DEF QuiesceOwner, FinishDrain, Working, ControlInv
  <2>2. Cut!Bar
    BY <1>t, <1>5, <2>1, BarringStep DEF QuiesceOwner, FinishDrain, DrainDone, sdVars, devVars
  <2>3. QED
    BY <2>2 DEF Cut!Next
<1>6. CASE Unmount
  <2>1. StatusMoves /\ status # "idle"
    BY <1>t, <1>6, WorkerMoves DEF Unmount, Working, ControlInv
  <2>2. CASE UNCHANGED mounted
    BY <1>t, <1>6, <2>1, <2>2, OnlyVerdictMoves DEF Unmount
  <2>3. CASE mounted' = FALSE
    <3>1. UnmountIsExclusive'
      BY <1>6, IInvStep DEF IInv, Next, WorkerStep, StorageStep
    <3>2. gate = "closed" /\ Holders = {} /\ busy = {} /\ quiesced = Owners
      BY <1>6, <2>3, <3>1 DEF UnmountIsExclusive, Unmount, Holders
    <3>3. Barred = Users \cup Unleased
      BY <3>2 DEF Barred, Owners, Stages, Unleased
    <3>4. Verdict # "none" /\ Cut!MayGiveUp
      BY <1>t, <2>1, VerdictMoves DEF Verdict, Statuses
    <3>5. UNCHANGED <<Holders \cup busy, Barred, edges>>
      BY <1>6 DEF Unmount, Holders, Barred
    <3>6. QED
      BY <2>3, <3>2, <3>3, <3>4, <3>5 DEF Cut!Unmount, Cut!Next
  <2>4. QED
    BY <1>6, <2>2, <2>3 DEF Unmount
<1>7. CASE SetLevel
  <2>1. worker = "pulse" /\ status = "signaling"
    BY <1>t, <1>7 DEF SetLevel, ControlInv
  <2>2. UNCHANGED <<gate, lease, quiesced, busy, mounted>>
    BY <1>7 DEF SetLevel, sdVars
  <2>3. CASE Abort /\ UNCHANGED edges
    BY <1>t, <2>1, <2>2, <2>3, OnlyVerdictMoves DEF Abort, StatusMoves, Undecided
  <2>4. CASE edges' = edges + 1 /\ UNCHANGED <<status, worker>>
    <3>1. ~mounted
      BY <2>1, <1>t DEF IInv, ControlInv, ProgressInv, Working, Behind
    <3>2. Verdict = "pending" /\ UNCHANGED <<Verdict, Holders \cup busy, Barred, mounted>>
      BY <2>1, <2>2, <2>4 DEF Verdict, Holders, Barred
    <3>3. Cut!Drive
      BY <1>7, <2>4, <3>1, <3>2 DEF SetLevel, Cut!Drive
    <3>4. QED
      BY <3>3 DEF Cut!Next
  <2>5. QED
    BY <1>7, <2>3, <2>4 DEF SetLevel
<1>8. CASE SignalSent
  <2>1. Verdict = "pending" /\ Verdict' = "sent"
    BY <1>t, <1>8 DEF SignalSent, ControlInv, Verdict
  <2>2. UNCHANGED <<Holders \cup busy, Barred, mounted, edges>>
    BY <1>8 DEF SignalSent, sdVars, devVars, Holders, Barred
  <2>3. QED
    BY <1>8, <2>1, <2>2 DEF SignalSent, Cut!Report, Cut!Next
<1>9. QED
  BY <1>1, <1>2, <1>3, <1>4, <1>5, <1>6, <1>7, <1>8 DEF WorkerStep, StorageStep, SignalStep

(* The detailed shutdown, with its tasks, its lock, its watchdog and its    *)
(* stages, does nothing that PowerCut does not allow.                       *)
THEOREM ShutdownImplementsPowerCut == Spec => RefinesPowerCut
<1>1. Init => Cut!Init
  BY DEF Init, SdInit, Cut!Init, Verdict, Holders, Barred
<1>2. IInv /\ [Next]_vars => [Cut!Next]_(Cut!vars)
  <2>1. ASSUME IInv, UNCHANGED vars PROVE UNCHANGED Cut!vars
    BY <2>1 DEF vars, sdVars, ctlVars, devVars, Cut!vars, Verdict, Holders, Barred
  <2>2. QED
    BY <2>1, CutUserStep, CutRequesterStep, CutWorkerStep DEF Next
<1>3. QED
  BY <1>1, <1>2, InvariantHolds, PTL DEF Spec, RefinesPowerCut, Cut!Spec
=============================================================================
