-------------------------- MODULE NetworkTasksProofs --------------------------
(***************************************************************************)
(* Proofs about the three tasks that use the network for somebody who      *)
(* waits for them: the scans of the Wi-Fi manager (whose heap has one      *)
(* owner per context), the diagnostics (whose worker is never forgotten)   *)
(* and the clock (whose connections are all tried).  The three share       *)
(* nothing; each part has its own invariant and its own specification.     *)
(***************************************************************************)
EXTENDS WifiScan, NetDiag, TimeSync, SequenceTheorems, TLAPS

-----------------------------------------------------------------------------
(* The scans.                                                              *)

ScanFlags == busy \in BOOLEAN /\ scanDone \in BOOLEAN /\ owned \in BOOLEAN

ScanPlaces ==
    /\ holder \in Users \cup {"none"} /\ radio \in Users \cup {"none"}
    /\ cb \in Contexts /\ active \in Contexts /\ mine \in Contexts
    /\ turn \in {"idle", "detach", "call", "unset", "delete", "settle"}
    /\ ui \in {"out", "scan", "starting", "refused", "cancel", "stop", "cancelled"}
    /\ ptr \in Addresses \cup {Null} /\ uiCtx \in Addresses \cup {Null}
    /\ bridge \in {"idle", "scan", "starting", "wait", "stop", "drain"}

ScanCounts ==
    /\ heap \in [Addresses -> 0 .. Searches]
    /\ scanning \in 0 .. Searches /\ last \in 0 .. Searches
    /\ due \in 0 .. MaxEvents /\ sem \in 0 .. MaxGives
    /\ results \in Seq(1 .. Searches)

\* The callback that runs is that of the context the worker has detached, and no start and
\* no registration goes beside it.
OneCallback ==
    /\ active = mine
    /\ mine = Null <=> turn \in {"idle", "detach"}
    /\ turn \in {"unset", "delete"} => mine \in Addresses
    /\ active # Null => cb = Null /\ holder = "none"
    /\ cb # Null => busy

\* Who keeps the mutex is at its start, with its own context registered.
StarterHolds ==
    /\ holder = "search" <=> ui = "starting"
    /\ holder = "bridge" <=> bridge = "starting"
    /\ holder = "search" => cb = ptr
    /\ holder = "bridge" => cb = Static
    /\ holder = "net" => cb = Null
    /\ ptr = Null <=> ui = "out"
    /\ owned => ui = "cancelled"

\* The four who may own the context a.
Starting(a) == ptr = a /\ ui \in {"scan", "refused"}
Registered(a) == cb = a
Cancelling(a) == ptr = a /\ ui \in {"stop", "cancelled"} /\ uiCtx = a /\ ~owned
Calling(a) == mine = a /\ turn \in {"call", "unset", "delete"}

HeapIsOwned ==
    \A a \in Addresses :
        heap[a] # 0 <=> Starting(a) \/ Registered(a) \/ Cancelling(a) \/ Calling(a)

OwnersDiffer ==
    \A a \in Addresses :
        /\ Starting(a) => ~Registered(a) /\ ~Calling(a)
        /\ Cancelling(a) => ~Registered(a) /\ ~Calling(a)
        /\ Registered(a) => ~Calling(a)

\* The user interface remembers a context that somebody owns and does not delete yet, and
\* still remembers the one it cancels, unless its callback has been detached.
RememberedIsOwned ==
    /\ uiCtx # Null =>
           /\ Starting(uiCtx) \/ Registered(uiCtx) \/ Cancelling(uiCtx) \/ Calling(uiCtx)
           /\ turn = "delete" => mine # uiCtx
    /\ ui = "cancel" /\ Registered(ptr) => uiCtx = ptr

ScanInv ==
    /\ ScanFlags /\ ScanPlaces /\ ScanCounts
    /\ OneCallback /\ StarterHolds
    /\ HeapIsOwned /\ OwnersDiffer /\ RememberedIsOwned

\* Who owns a context on the heap, once and only once.
Ownership == HeapIsOwned /\ OwnersDiffer /\ RememberedIsOwned

\* What is a context, and who may start.
LEMMA ContextsAndUsers ==
    /\ Addresses \subseteq Contexts /\ Static \in Contexts /\ Null \in Contexts
    /\ {"search", "bridge", "net"} \subseteq Users
BY DEF Contexts, Users

\* Preservation of the flags.
LEMMA ScanFlagsKept ==
    ASSUME ScanInv, ScanNext
    PROVE  ScanFlags'
<1> USE DEF ScanFlags, manager, driver, work, shell, serial
<1>1. ScanFlags
  BY DEF ScanInv
<1>2. CASE \E a \in Addresses : BeginSearch(a)
  BY <1>1, <1>2 DEF BeginSearch
<1>3. CASE Escape \/ SearchRefused \/ StopSearch \/ CancelEnds \/ TakeResult
  BY <1>1, <1>3 DEF Escape, SearchRefused, StopSearch, StopScan, CancelEnds, TakeResult
<1>4. CASE SearchStarts
  BY <1>1, <1>4 DEF SearchStarts, Refuse, EnterStart
<1>5. CASE SearchStarted
  BY <1>1, <1>5 DEF SearchStarted, StartSucceeds, StartFails, Unwind
<1>6. CASE CancelSearch
  <2>1. owned' \in BOOLEAN
    BY <1>6 DEF CancelSearch, CallbackRuns
  <2>2. QED
    BY <1>1, <1>6, <2>1 DEF CancelSearch, Cancel
<1>7. CASE BridgeRequest \/ BridgeAnswers \/ BridgeDrains \/ BridgeStops
  BY <1>1, <1>7 DEF BridgeRequest, BridgeAnswers, BridgeDrains, BridgeStops, StopScan
<1>8. CASE BridgeStarts
  BY <1>1, <1>8 DEF BridgeStarts, Refuse, EnterStart
<1>9. CASE BridgeStarted
  BY <1>1, <1>9 DEF BridgeStarted, StartSucceeds, StartFails, Unwind
<1>10. CASE BridgeCancels
  BY <1>1, <1>10 DEF BridgeCancels, Cancel
<1>11. CASE NetScan \/ NetStarted
  BY <1>1, <1>11 DEF NetScan, EnterStart, NetStarted, StartSucceeds, StartFails, Unwind
<1>12. CASE ScanEnds \/ OnScanDone
  BY <1>1, <1>12 DEF ScanEnds, OnScanDone
<1>13. CASE WorkerStep
  BY <1>1, <1>13
  DEF WorkerStep, TakeScanDone, Detach, PostResult, UnsetContext, DeleteContext, GiveBridge, Settle
<1>14. QED
  BY <1>2, <1>3, <1>4, <1>5, <1>6, <1>7, <1>8, <1>9, <1>10, <1>11, <1>12, <1>13, ScanNext
  DEF ScanNext, ShellStep, BridgeStep

\* Preservation of the places.
LEMMA ScanPlacesKept ==
    ASSUME ScanInv, ScanNext
    PROVE  ScanPlaces'
<1> USE ContextsAndUsers DEF ScanPlaces, manager, driver, work, shell, serial
<1>1. ScanPlaces
  BY DEF ScanInv
<1>2. ASSUME NEW a \in Addresses, BeginSearch(a)
      PROVE  ScanPlaces'
  BY <1>1, <1>2 DEF BeginSearch
<1>3. CASE Escape
  BY <1>1, <1>3 DEF Escape
<1>4. CASE SearchStarts
  BY <1>1, <1>4 DEF SearchStarts, Refuse, EnterStart
<1>5. CASE SearchStarted
  BY <1>1, <1>5 DEF SearchStarted, StartSucceeds, StartFails, Driven, Unwind
<1>6. CASE SearchRefused
  BY <1>1, <1>6 DEF SearchRefused, Unset
<1>7. CASE CancelSearch
  <2>1. Cancel(ptr) /\ UNCHANGED <<work, ptr, uiCtx, serial>> /\ ui' \in {"cancelled", "stop"}
    BY <1>7 DEF CancelSearch
  <2>2. QED
    BY <1>1, <2>1 DEF Cancel
<1>8. CASE StopSearch
  BY <1>1, <1>8 DEF StopSearch, StopScan
<1>9. CASE CancelEnds
  BY <1>1, <1>9 DEF CancelEnds, Unset
<1>10. CASE TakeResult
  BY <1>1, <1>10 DEF TakeResult
<1>11. CASE BridgeRequest \/ BridgeAnswers \/ BridgeDrains
  BY <1>1, <1>11 DEF BridgeRequest, BridgeAnswers, BridgeDrains
<1>12. CASE BridgeStarts
  BY <1>1, <1>12 DEF BridgeStarts, Refuse, EnterStart
<1>13. CASE BridgeStarted
  BY <1>1, <1>13 DEF BridgeStarted, StartSucceeds, StartFails, Driven, Unwind
<1>14. CASE BridgeCancels
  BY <1>1, <1>14 DEF BridgeCancels, Cancel
<1>15. CASE BridgeStops
  BY <1>1, <1>15 DEF BridgeStops, StopScan
<1>16. CASE NetScan
  BY <1>1, <1>16 DEF NetScan, EnterStart
<1>17. CASE NetStarted
  BY <1>1, <1>17 DEF NetStarted, StartSucceeds, StartFails, Driven, Unwind
<1>18. CASE ScanEnds \/ OnScanDone \/ TakeScanDone
  BY <1>1, <1>18 DEF ScanEnds, OnScanDone, TakeScanDone
<1>19. CASE Detach
  BY <1>1, <1>19 DEF Detach
<1>20. CASE PostResult \/ DeleteContext \/ GiveBridge
  BY <1>1, <1>20 DEF PostResult, DeleteContext, GiveBridge
<1>21. CASE UnsetContext
  BY <1>1, <1>21 DEF UnsetContext, Unset
<1>22. CASE Settle
  BY <1>1, <1>22 DEF Settle
<1>23. QED
  BY <1>2, <1>3, <1>4, <1>5, <1>6, <1>7, <1>8, <1>9, <1>10, <1>11, <1>12, <1>13, <1>14, <1>15,
     <1>16, <1>17, <1>18, <1>19, <1>20, <1>21, <1>22, ScanNext
  DEF ScanNext, ShellStep, BridgeStep, WorkerStep

\* Preservation of the counts: a result is the token of a context that is allocated.
LEMMA ScanCountsKept ==
    ASSUME ScanInv, ScanNext
    PROVE  ScanCounts'
<1> USE ScanLimits DEF ScanCounts, MaxEvents, MaxGives, MaxResults, manager, driver, work, shell, serial
<1>1. ScanCounts /\ ScanPlaces
  BY DEF ScanInv
<1>2. ASSUME NEW a \in Addresses, BeginSearch(a)
      PROVE  ScanCounts'
  BY <1>1, <1>2 DEF BeginSearch
<1>3. CASE Escape
  BY <1>1, <1>3 DEF Escape
<1>4. CASE SearchStarts
  BY <1>1, <1>4 DEF SearchStarts, Refuse, EnterStart
<1>5. CASE SearchStarted
  BY <1>1, <1>5 DEF SearchStarted, StartSucceeds, StartFails, Driven
<1>6. CASE SearchRefused \/ CancelEnds
  BY <1>1, <1>6 DEF SearchRefused, CancelEnds
<1>7. CASE CancelSearch
  BY <1>1, <1>7 DEF CancelSearch, Cancel
<1>8. CASE StopSearch
  BY <1>1, <1>8 DEF StopSearch, StopScan
<1>9. CASE TakeResult
  <2>1. results' \in Seq(1 .. Searches)
    BY <1>1, <1>9 DEF TakeResult
  <2>2. scanning' \in 0 .. Searches
    BY <1>1, <1>9 DEF TakeResult
  <2>3. QED
    BY <1>1, <1>9, <2>1, <2>2 DEF TakeResult
<1>10. CASE BridgeRequest \/ BridgeAnswers \/ BridgeDrains
  BY <1>1, <1>10 DEF BridgeRequest, BridgeAnswers, BridgeDrains
<1>11. CASE BridgeStarts
  BY <1>1, <1>11 DEF BridgeStarts, Refuse, EnterStart
<1>12. CASE BridgeStarted
  BY <1>1, <1>12 DEF BridgeStarted, StartSucceeds, StartFails, Driven
<1>13. CASE BridgeCancels
  BY <1>1, <1>13 DEF BridgeCancels, Cancel
<1>14. CASE BridgeStops
  BY <1>1, <1>14 DEF BridgeStops, StopScan
<1>15. CASE NetScan
  BY <1>1, <1>15 DEF NetScan, EnterStart
<1>16. CASE NetStarted
  BY <1>1, <1>16 DEF NetStarted, StartSucceeds, StartFails, Driven
<1>17. CASE ScanEnds \/ OnScanDone
  BY <1>1, <1>17 DEF ScanEnds, OnScanDone
<1>18. CASE TakeScanDone \/ Detach \/ UnsetContext \/ Settle
  BY <1>1, <1>18 DEF TakeScanDone, Detach, UnsetContext, Settle
<1>19. CASE PostResult
  <2>1. mine \in Addresses
    BY <1>1, <1>19 DEF PostResult, ScanInv, OneCallback, ScanPlaces, Contexts
  <2>2. heap[mine] # 0
    BY <1>19, <2>1 DEF PostResult, ScanInv, HeapIsOwned, Calling
  <2>3. heap[mine] \in 1 .. Searches
    BY <1>1, <2>1, <2>2
  <2>4. results' \in Seq(1 .. Searches)
    <3>1. Append(results, heap[mine]) \in Seq(1 .. Searches)
      BY <1>1, <2>3, AppendProperties
    <3>2. QED
      BY <1>1, <1>19, <3>1 DEF PostResult
  <2>5. QED
    BY <1>1, <1>19, <2>4 DEF PostResult
<1>20. CASE DeleteContext
  <2>1. heap' \in [Addresses -> 0 .. Searches]
    <3>1. heap \in [Addresses -> 0 .. Searches] /\ 0 \in 0 .. Searches
      BY <1>1
    <3>2. heap' = [heap EXCEPT ![mine] = 0]
      BY <1>20 DEF DeleteContext
    <3>3. QED
      BY <3>1, <3>2
  <2>2. QED
    BY <1>1, <1>20, <2>1 DEF DeleteContext
<1>21. CASE GiveBridge
  BY <1>1, <1>21 DEF GiveBridge
<1>22. QED
  BY <1>2, <1>3, <1>4, <1>5, <1>6, <1>7, <1>8, <1>9, <1>10, <1>11, <1>12, <1>13, <1>14, <1>15,
     <1>16, <1>17, <1>18, <1>19, <1>20, <1>21, ScanNext
  DEF ScanNext, ShellStep, BridgeStep, WorkerStep

\* One start and one callback, and no one beside them.
LEMMA OneCallbackKept ==
    ASSUME ScanInv, ScanNext
    PROVE  OneCallback' /\ StarterHolds'
<1> USE ScanLimits
    DEF OneCallback, StarterHolds, Free, manager, driver, work, shell, serial
<1>1. OneCallback /\ StarterHolds /\ ScanPlaces
  BY DEF ScanInv
<1>2. ASSUME NEW a \in Addresses, BeginSearch(a)
      PROVE  OneCallback' /\ StarterHolds'
  BY <1>1, <1>2 DEF BeginSearch
<1>3. CASE Escape
  BY <1>1, <1>3 DEF Escape
<1>4. CASE SearchStarts
  BY <1>1, <1>4 DEF SearchStarts, Refuse, EnterStart, Refused
<1>5. CASE SearchStarted
  BY <1>1, <1>5 DEF SearchStarted, StartSucceeds, StartFails, Driven, Unwind
<1>6. CASE SearchRefused
  BY <1>1, <1>6 DEF SearchRefused
<1>7. CASE CancelSearch
  <2>1. owned' => ui' = "cancelled"
    BY <1>7 DEF CancelSearch
  <2>2. QED
    BY <1>1, <1>7, <2>1 DEF CancelSearch, Cancel
<1>8. CASE StopSearch
  BY <1>1, <1>8 DEF StopSearch, StopScan
<1>9. CASE CancelEnds
  BY <1>1, <1>9 DEF CancelEnds
<1>10. CASE TakeResult
  BY <1>1, <1>10 DEF TakeResult
<1>11. CASE BridgeRequest \/ BridgeAnswers \/ BridgeDrains
  BY <1>1, <1>11 DEF BridgeRequest, BridgeAnswers, BridgeDrains
<1>12. CASE BridgeStarts
  BY <1>1, <1>12 DEF BridgeStarts, Refuse, EnterStart, Refused
<1>13. CASE BridgeStarted
  BY <1>1, <1>13 DEF BridgeStarted, StartSucceeds, StartFails, Driven, Unwind
<1>14. CASE BridgeCancels
  BY <1>1, <1>14 DEF BridgeCancels, Cancel
<1>15. CASE BridgeStops
  BY <1>1, <1>15 DEF BridgeStops, StopScan
<1>16. CASE NetScan
  BY <1>1, <1>16 DEF NetScan, EnterStart, Refused
<1>17. CASE NetStarted
  BY <1>1, <1>17 DEF NetStarted, StartSucceeds, StartFails, Driven, Unwind
<1>18. CASE ScanEnds \/ OnScanDone \/ TakeScanDone
  BY <1>1, <1>18 DEF ScanEnds, OnScanDone, TakeScanDone
<1>19. CASE Detach
  BY <1>1, <1>19 DEF Detach
<1>20. CASE PostResult
  <2>1. mine \in Addresses
    BY <1>1, <1>20 DEF PostResult, ScanPlaces, Contexts
  <2>2. QED
    BY <1>1, <1>20, <2>1 DEF PostResult
<1>21. CASE DeleteContext \/ GiveBridge
  BY <1>1, <1>21 DEF DeleteContext, GiveBridge
<1>22. CASE UnsetContext
  BY <1>1, <1>22 DEF UnsetContext
<1>23. CASE Settle
  BY <1>1, <1>23 DEF Settle
<1>24. QED
  BY <1>2, <1>3, <1>4, <1>5, <1>6, <1>7, <1>8, <1>9, <1>10, <1>11, <1>12, <1>13, <1>14, <1>15,
     <1>16, <1>17, <1>18, <1>19, <1>20, <1>21, <1>22, <1>23, ScanNext
  DEF ScanNext, ShellStep, BridgeStep, WorkerStep

\* A step that leaves the four owners and the heap alone keeps the ownership.
LEMMA OwnershipStutters ==
    ASSUME Ownership, UNCHANGED <<heap, uiCtx>>,
           \A a \in Addresses : /\ Starting(a)' <=> Starting(a)
                                /\ Registered(a)' <=> Registered(a)
                                /\ Cancelling(a)' <=> Cancelling(a)
                                /\ Calling(a)' <=> Calling(a),
           turn' = "delete" => turn = "delete" /\ mine' = mine,
           ui' = "cancel" => (cb' = ptr' => uiCtx = ptr'),
           uiCtx # Null => uiCtx \in Addresses
    PROVE  Ownership'
<1>1. HeapIsOwned' /\ OwnersDiffer'
  BY DEF Ownership, HeapIsOwned, OwnersDiffer
<1>2. ui' = "cancel" /\ Registered(ptr)' => uiCtx' = ptr'
  BY DEF Registered
<1>3. ASSUME uiCtx' # Null
      PROVE  /\ (Starting(uiCtx) \/ Registered(uiCtx) \/ Cancelling(uiCtx) \/ Calling(uiCtx))'
             /\ turn' = "delete" => mine' # uiCtx'
  <2>1. uiCtx' = uiCtx /\ uiCtx \in Addresses
    BY <1>3
  <2>2. /\ Starting(uiCtx) \/ Registered(uiCtx) \/ Cancelling(uiCtx) \/ Calling(uiCtx)
        /\ turn = "delete" => mine # uiCtx
    BY <2>1, <1>3 DEF Ownership, RememberedIsOwned
  <2>3. PICK a \in Addresses : a = uiCtx
    BY <2>1
  <2>4. (Starting(a) \/ Registered(a) \/ Cancelling(a) \/ Calling(a))'
    BY <2>2, <2>3
  <2>5. QED
    BY <2>1, <2>2, <2>3, <2>4 DEF Starting, Registered, Cancelling, Calling
<1>4. RememberedIsOwned'
  BY <1>2, <1>3 DEF RememberedIsOwned
<1>5. QED
  BY <1>1, <1>4 DEF Ownership

\* The steps of the shell pass a context from owner to owner.
LEMMA ShellKeepsOwnership ==
    ASSUME ScanInv,
           (\E a \in Addresses : BeginSearch(a)) \/ Escape \/ ShellStep
    PROVE  Ownership'
<1> USE ScanLimits
    DEF Starting, Registered, Cancelling, Calling, manager, driver, work, serial
<1>1. /\ HeapIsOwned /\ OwnersDiffer /\ RememberedIsOwned /\ Ownership
      /\ ScanPlaces /\ ScanFlags /\ ScanCounts /\ OneCallback /\ StarterHolds
  BY DEF ScanInv, Ownership
<1>2. uiCtx # Null => uiCtx \in Addresses
  BY <1>1 DEF ScanPlaces
<1>3. ASSUME NEW a \in Addresses, BeginSearch(a)
      PROVE  Ownership'
  <2>1. ptr = Null /\ last + 1 # 0
    BY <1>1, <1>3 DEF BeginSearch, StarterHolds, ScanCounts
  <2>2. heap' = [heap EXCEPT ![a] = last + 1] /\ heap[a] = 0
    BY <1>3 DEF BeginSearch
  <2>3. HeapIsOwned'
    BY <1>1, <1>3, <2>1, <2>2 DEF HeapIsOwned, BeginSearch, ScanCounts
  <2>4. OwnersDiffer'
    BY <1>1, <1>3, <2>1, <2>2 DEF HeapIsOwned, OwnersDiffer, BeginSearch
  <2>5. RememberedIsOwned'
    BY <1>1, <1>3, <2>1, <2>2 DEF HeapIsOwned, RememberedIsOwned, BeginSearch
  <2>6. QED
    BY <2>3, <2>4, <2>5 DEF Ownership
<1>4. CASE Escape
  <2>1. ptr' = uiCtx /\ ui' \in {"out", "cancel"} /\ ui = "out"
    BY <1>4 DEF Escape
  <2>2. QED
    BY <1>1, <1>2, <1>4, <2>1, OwnershipStutters DEF Escape
<1>5. CASE SearchStarts
  <2>1. CASE Refuse /\ ui' = "refused"
    BY <1>1, <1>2, <1>5, <2>1, OwnershipStutters DEF SearchStarts, Refuse
  <2>2. CASE EnterStart("search", ptr) /\ ui' = "starting"
    <3>1. cb = Null /\ cb' = ptr /\ ptr # Null /\ ui = "scan"
          /\ UNCHANGED <<heap, uiCtx, ptr, mine, turn, owned>>
      BY <1>1, <1>5, <2>2 DEF SearchStarts, EnterStart, Refused, StarterHolds
    <3>2. HeapIsOwned' /\ OwnersDiffer'
      BY <1>1, <2>2, <3>1 DEF HeapIsOwned, OwnersDiffer
    <3>3. RememberedIsOwned'
      BY <1>1, <2>2, <3>1 DEF RememberedIsOwned
    <3>4. QED
      BY <3>2, <3>3 DEF Ownership
  <2>3. QED
    BY <1>5, <2>1, <2>2 DEF SearchStarts
<1>6. CASE SearchStarted
  <2>1. CASE StartSucceeds("search") /\ ui' = "out" /\ ptr' = Null
    <3>1. UNCHANGED <<cb, mine, turn, heap, uiCtx>> /\ ui = "starting"
      BY <1>6, <2>1 DEF SearchStarted, StartSucceeds
    <3>2. QED
      BY <1>1, <1>2, <2>1, <3>1, OwnershipStutters
  <2>2. CASE StartFails("search") /\ ui' = "refused" /\ UNCHANGED ptr
    <3>1. cb' = Null /\ cb = ptr /\ ui = "starting" /\ UNCHANGED <<heap, uiCtx, mine, turn, owned>>
      BY <1>1, <1>6, <2>2 DEF SearchStarted, StartFails, Unwind, StarterHolds
    <3>2. HeapIsOwned' /\ OwnersDiffer'
      BY <1>1, <2>2, <3>1 DEF HeapIsOwned, OwnersDiffer
    <3>3. RememberedIsOwned'
      BY <1>1, <1>2, <2>2, <3>1 DEF RememberedIsOwned
    <3>4. QED
      BY <3>2, <3>3 DEF Ownership
  <2>3. QED
    BY <1>6, <2>1, <2>2 DEF SearchStarted
<1>7. CASE SearchRefused
  <2>1. /\ ptr \in Addresses /\ Starting(ptr) /\ ui' = "out" /\ ptr' = Null
        /\ heap' = [heap EXCEPT ![ptr] = 0] /\ uiCtx' = Unset(ptr)
        /\ UNCHANGED <<cb, mine, turn, owned>>
    BY <1>1, <1>7 DEF SearchRefused, StarterHolds, ScanPlaces
  <2>2. HeapIsOwned' /\ OwnersDiffer'
    BY <1>1, <1>7, <2>1 DEF HeapIsOwned, OwnersDiffer, ScanCounts, SearchRefused
  <2>3. RememberedIsOwned'
    BY <1>1, <1>2, <1>7, <2>1 DEF RememberedIsOwned, Unset
  <2>4. QED
    BY <2>2, <2>3 DEF Ownership
<1>8. CASE CancelSearch
  <2>1. ptr \in Addresses /\ ui = "cancel" /\ UNCHANGED <<heap, uiCtx, ptr, mine, turn>> /\ ~owned
    BY <1>1, <1>8 DEF CancelSearch, StarterHolds, ScanPlaces
  <2>2. CASE active = ptr
    <3>1. owned' /\ ui' = "cancelled" /\ UNCHANGED cb
      BY <1>8, <2>1, <2>2 DEF CancelSearch, Cancel, CallbackRuns
    <3>2. QED
      BY <1>1, <1>2, <2>1, <3>1, OwnershipStutters
  <2>3. CASE active # ptr /\ cb = ptr
    <3>1. ~owned' /\ ui' = "stop" /\ cb' = Null
      BY <1>1, <1>8, <2>1, <2>3 DEF CancelSearch, Cancel, CallbackRuns, OneCallback
    <3>2. uiCtx = ptr /\ ptr # Null
      BY <1>1, <2>1, <2>3, ScanLimits DEF RememberedIsOwned
    <3>3. HeapIsOwned' /\ OwnersDiffer'
      BY <1>1, <2>1, <2>3, <3>1, <3>2 DEF HeapIsOwned, OwnersDiffer
    <3>4. RememberedIsOwned'
      BY <1>1, <2>1, <2>3, <3>1, <3>2 DEF RememberedIsOwned, OwnersDiffer
    <3>5. QED
      BY <3>3, <3>4 DEF Ownership
  <2>4. CASE active # ptr /\ cb # ptr
    <3>1. ~owned' /\ ui' = "stop" /\ UNCHANGED cb
      BY <1>1, <1>8, <2>1, <2>4 DEF CancelSearch, Cancel, CallbackRuns, OneCallback
    <3>2. uiCtx # ptr
      BY <1>1, <2>1, <2>4 DEF RememberedIsOwned, OneCallback
    <3>3. QED
      BY <1>1, <1>2, <2>1, <3>1, <3>2, OwnershipStutters
  <2>5. QED
    BY <2>2, <2>3, <2>4
<1>9. CASE StopSearch
  <2>1. UNCHANGED <<cb, mine, turn, heap, uiCtx, ptr, owned>> /\ ui = "stop" /\ ui' = "cancelled"
    BY <1>9 DEF StopSearch, StopScan
  <2>2. QED
    BY <1>1, <1>2, <2>1, OwnershipStutters
<1>10. CASE CancelEnds
  <2>1. /\ ptr \in Addresses /\ ui = "cancelled" /\ ui' = "out" /\ ptr' = Null
        /\ uiCtx' = Unset(ptr) /\ UNCHANGED <<cb, mine, turn>>
    BY <1>1, <1>10 DEF CancelEnds, StarterHolds, ScanPlaces
  <2>2. CASE Cancelling(ptr)
    <3>1. heap' = [heap EXCEPT ![ptr] = 0]
      BY <1>10, <2>2 DEF CancelEnds
    <3>2. HeapIsOwned' /\ OwnersDiffer'
      BY <1>1, <2>1, <2>2, <3>1 DEF HeapIsOwned, OwnersDiffer, ScanCounts
    <3>3. RememberedIsOwned'
      BY <1>1, <2>1, <2>2 DEF RememberedIsOwned, Unset
    <3>4. QED
      BY <3>2, <3>3 DEF Ownership
  <2>3. CASE ~Cancelling(ptr)
    <3>1. heap' = heap
      BY <1>10, <2>1, <2>3 DEF CancelEnds
    <3>2. HeapIsOwned' /\ OwnersDiffer'
      BY <1>1, <2>1, <2>3, <3>1 DEF HeapIsOwned, OwnersDiffer
    <3>3. RememberedIsOwned'
      BY <1>1, <1>2, <2>1, <2>3 DEF RememberedIsOwned, Unset
    <3>4. QED
      BY <3>2, <3>3 DEF Ownership
  <2>4. QED
    BY <2>2, <2>3
<1>11. CASE TakeResult
  <2>1. UNCHANGED <<cb, mine, turn, heap, uiCtx, ptr, owned, ui>> /\ ui = "out"
    BY <1>11 DEF TakeResult
  <2>2. QED
    BY <1>1, <1>2, <2>1, OwnershipStutters
<1>12. QED
  BY <1>3, <1>4, <1>5, <1>6, <1>7, <1>8, <1>9, <1>10, <1>11 DEF ShellStep

\* The bridge, the network worker and the driver own no context on the heap.
LEMMA OthersKeepOwnership ==
    ASSUME ScanInv,
           \/ BridgeRequest \/ BridgeCancels \/ BridgeStep
           \/ NetScan \/ NetStarted \/ ScanEnds \/ OnScanDone
    PROVE  Ownership'
<1>1. Ownership /\ ScanPlaces /\ OneCallback /\ StarterHolds
  BY DEF ScanInv, Ownership
<1>2. uiCtx # Null => uiCtx \in Addresses
  BY <1>1 DEF ScanPlaces
<1>3. ASSUME UNCHANGED <<heap, uiCtx, mine, turn, ui, ptr, owned>>,
             \A a \in Addresses : cb' = a <=> cb = a
      PROVE  Ownership'
  <2>1. ui' = "cancel" => (cb' = ptr' => uiCtx = ptr')
    BY <1>1, <1>3 DEF Ownership, RememberedIsOwned, Registered, StarterHolds, ScanPlaces
  <2>2. QED
    BY <1>1, <1>2, <1>3, <2>1, OwnershipStutters DEF Starting, Registered, Cancelling, Calling
<1>4. UNCHANGED <<heap, uiCtx, mine, turn, ui, ptr, owned>>
  BY DEF BridgeRequest, BridgeCancels, BridgeStep, BridgeStarts, BridgeStarted, BridgeAnswers,
         BridgeStops, BridgeDrains, NetScan, NetStarted, ScanEnds, OnScanDone, work, shell
<1>5. \A a \in Addresses : cb' = a <=> cb = a
  <2> USE <1>1, ScanLimits DEF manager
  <2>1. CASE BridgeRequest \/ BridgeAnswers \/ BridgeDrains \/ ScanEnds \/ OnScanDone
    BY <2>1 DEF BridgeRequest, BridgeAnswers, BridgeDrains, ScanEnds, OnScanDone
  <2>2. CASE BridgeCancels
    BY <2>2 DEF BridgeCancels, Cancel
  <2>3. CASE BridgeStops
    BY <2>3 DEF BridgeStops, StopScan
  <2>4. CASE BridgeStarts
    BY <2>4 DEF BridgeStarts, Refuse, EnterStart, Refused
  <2>5. CASE BridgeStarted
    BY <2>5 DEF BridgeStarted, StartSucceeds, StartFails, Unwind, StarterHolds
  <2>6. CASE NetScan \/ NetStarted
    BY <2>6 DEF NetScan, EnterStart, Refused, NetStarted, StartSucceeds, StartFails, Unwind,
                StarterHolds
  <2>7. QED
    BY <2>1, <2>2, <2>3, <2>4, <2>5, <2>6 DEF BridgeStep
<1>6. QED
  BY <1>3, <1>4, <1>5

\* The worker takes the context with the registration and deletes it when nobody knows it.
LEMMA WorkerKeepsOwnership ==
    ASSUME ScanInv, WorkerStep
    PROVE  Ownership'
<1> USE ScanLimits DEF Starting, Registered, Cancelling, Calling, manager, driver, shell, serial
<1>1. /\ HeapIsOwned /\ OwnersDiffer /\ RememberedIsOwned /\ Ownership
      /\ ScanPlaces /\ ScanFlags /\ ScanCounts /\ OneCallback /\ StarterHolds
  BY DEF ScanInv, Ownership
<1>2. uiCtx # Null => uiCtx \in Addresses
  BY <1>1 DEF ScanPlaces
<1>3. ui = "cancel" => (cb = ptr => uiCtx = ptr)
  BY <1>1 DEF RememberedIsOwned
<1>4. CASE TakeScanDone
  <2>1. UNCHANGED <<cb, mine, heap, uiCtx, ui, ptr, owned>> /\ turn = "idle" /\ turn' = "detach"
    BY <1>4 DEF TakeScanDone
  <2>2. QED
    BY <1>1, <1>2, <1>3, <2>1, OwnershipStutters
<1>5. CASE Detach
  <2>1. CASE Free /\ cb # Null
    <3>1. /\ mine' = cb /\ cb' = Null /\ turn' = "call" /\ turn = "detach"
          /\ UNCHANGED <<heap, uiCtx, ui, ptr, owned>>
      BY <1>5, <2>1 DEF Detach
    <3>2. HeapIsOwned' /\ OwnersDiffer'
      BY <1>1, <2>1, <3>1 DEF HeapIsOwned, OwnersDiffer
    <3>3. RememberedIsOwned'
      BY <1>1, <1>2, <2>1, <3>1 DEF RememberedIsOwned, StarterHolds
    <3>4. QED
      BY <3>2, <3>3 DEF Ownership
  <2>2. CASE ~(Free /\ cb # Null)
    <3>1. UNCHANGED <<cb, mine, heap, uiCtx, ui, ptr, owned>> /\ turn = "detach" /\ turn' = "idle"
      BY <1>1, <1>5, <2>2 DEF Detach, OneCallback
    <3>2. QED
      BY <1>1, <1>2, <1>3, <3>1, OwnershipStutters
  <2>3. QED
    BY <2>1, <2>2
<1>6. CASE PostResult
  <2>1. UNCHANGED <<cb, mine, heap, uiCtx, ui, ptr, owned>> /\ turn = "call" /\ turn' = "unset"
    BY <1>6 DEF PostResult
  <2>2. QED
    BY <1>1, <1>2, <1>3, <2>1, OwnershipStutters
<1>7. CASE UnsetContext
  <2>1. /\ UNCHANGED <<cb, mine, heap, ui, ptr, owned>> /\ turn = "unset" /\ turn' = "delete"
        /\ uiCtx' = Unset(mine) /\ mine \in Addresses
    BY <1>1, <1>7 DEF UnsetContext, OneCallback
  <2>2. ~Registered(mine) /\ ~Cancelling(mine)
    BY <1>1, <2>1 DEF OwnersDiffer
  <2>3. HeapIsOwned' /\ OwnersDiffer'
    BY <1>1, <2>1, <2>2 DEF HeapIsOwned, OwnersDiffer, Unset
  <2>4. RememberedIsOwned'
    BY <1>1, <1>2, <1>3, <2>1, <2>2 DEF RememberedIsOwned, Unset
  <2>5. QED
    BY <2>3, <2>4 DEF Ownership
<1>8. CASE DeleteContext
  <2>1. /\ UNCHANGED <<cb, mine, uiCtx, ui, ptr, owned>> /\ turn = "delete" /\ turn' = "settle"
        /\ heap' = [heap EXCEPT ![mine] = 0] /\ mine \in Addresses
    BY <1>1, <1>8 DEF DeleteContext, OneCallback
  <2>2. ~Starting(mine) /\ ~Registered(mine) /\ ~Cancelling(mine)
    BY <1>1, <2>1 DEF OwnersDiffer
  <2>3. HeapIsOwned' /\ OwnersDiffer'
    BY <1>1, <2>1, <2>2 DEF HeapIsOwned, OwnersDiffer, ScanCounts
  <2>4. RememberedIsOwned'
    BY <1>1, <1>2, <1>3, <2>1 DEF RememberedIsOwned
  <2>5. QED
    BY <2>3, <2>4 DEF Ownership
<1>9. CASE GiveBridge
  <2>1. UNCHANGED <<cb, mine, heap, uiCtx, ui, ptr, owned>> /\ mine = Static /\ turn' = "settle"
    BY <1>9 DEF GiveBridge
  <2>2. QED
    BY <1>1, <1>2, <1>3, <2>1, OwnershipStutters
<1>10. CASE Settle
  <2>1. UNCHANGED <<cb, heap, uiCtx, ui, ptr, owned>> /\ mine' = Null /\ turn = "settle" /\ turn' = "idle"
    BY <1>10 DEF Settle
  <2>2. QED
    BY <1>1, <1>2, <1>3, <2>1, OwnershipStutters
<1>11. QED
  BY <1>4, <1>5, <1>6, <1>7, <1>8, <1>9, <1>10 DEF WorkerStep

\* ScanInv is inductive.
LEMMA ScanInvHolds == ScanSpec => []ScanInv
<1>1. ScanInit => ScanInv
  <2> SUFFICES ASSUME ScanInit
               PROVE  ScanInv
    OBVIOUS
  <2>1. ScanFlags /\ ScanPlaces
    BY DEF ScanInit, ScanFlags, ScanPlaces, Contexts, Users
  <2>2. ScanCounts
    BY ScanLimits DEF ScanInit, ScanCounts, MaxEvents, MaxGives
  <2>3. OneCallback /\ StarterHolds
    BY DEF ScanInit, OneCallback, StarterHolds
  <2>4. HeapIsOwned /\ OwnersDiffer /\ RememberedIsOwned
    BY ScanLimits
    DEF ScanInit, HeapIsOwned, OwnersDiffer, RememberedIsOwned, Starting, Registered, Cancelling,
        Calling
  <2>5. QED
    BY <2>1, <2>2, <2>3, <2>4 DEF ScanInv
<1>2. ScanInv /\ [ScanNext]_scanVars => ScanInv'
  <2> SUFFICES ASSUME ScanInv, [ScanNext]_scanVars
               PROVE  ScanInv'
    OBVIOUS
  <2>1. CASE ScanNext
    <3>1. Ownership'
      BY <2>1, ShellKeepsOwnership, OthersKeepOwnership, WorkerKeepsOwnership DEF ScanNext
    <3>2. QED
      BY <2>1, <3>1, ScanFlagsKept, ScanPlacesKept, ScanCountsKept, OneCallbackKept
      DEF ScanInv, Ownership
  <2>2. CASE UNCHANGED scanVars
    <3> USE <2>2 DEF scanVars, manager, driver, work, shell, serial
    <3>1. ScanFlags' /\ ScanPlaces' /\ ScanCounts'
      BY DEF ScanInv, ScanFlags, ScanPlaces, ScanCounts
    <3>2. OneCallback' /\ StarterHolds'
      BY DEF ScanInv, OneCallback, StarterHolds
    <3>3. HeapIsOwned' /\ OwnersDiffer' /\ RememberedIsOwned'
      BY DEF ScanInv, HeapIsOwned, OwnersDiffer, RememberedIsOwned, Starting, Registered,
             Cancelling, Calling
    <3>4. QED
      BY <3>1, <3>2, <3>3 DEF ScanInv
  <2>3. QED
    BY <2>1, <2>2
<1>3. QED
  BY <1>1, <1>2, PTL DEF ScanSpec

\* The state of the scans is always of its type.
THEOREM ScanTypeCorrect == ScanSpec => []ScanTypeOK
<1>1. ScanInv => ScanTypeOK
  BY DEF ScanInv, ScanFlags, ScanPlaces, ScanCounts, ScanTypeOK
<1>2. QED
  BY ScanInvHolds, <1>1, PTL

\* Whatever the user cancels while the worker detaches, calls back and deletes, a context
\* on the heap has one owner at any time: none is used after it was deleted, deleted twice
\* or lost.
THEOREM ContextsHaveOneOwner == ScanSpec => []ContextsAreOwned
<1>1. ASSUME ScanInv, NEW a \in Addresses
      PROVE  IF heap[a] = 0 THEN Owners(a) = {} ELSE \E o \in Owners(a) : Owners(a) = {o}
  <2>1. \A o : o \in Owners(a) <=> \/ o = "starter" /\ Starting(a)
                                   \/ o = "registered" /\ Registered(a)
                                   \/ o = "canceller" /\ Cancelling(a)
                                   \/ o = "callback" /\ Calling(a)
    BY DEF Owners, Starting, Registered, Cancelling, Calling
  <2>2. heap[a] # 0 <=> Starting(a) \/ Registered(a) \/ Cancelling(a) \/ Calling(a)
    BY <1>1 DEF ScanInv, HeapIsOwned
  <2>3. /\ Starting(a) => ~Registered(a) /\ ~Calling(a) /\ ~Cancelling(a)
        /\ Cancelling(a) => ~Registered(a) /\ ~Calling(a)
        /\ Registered(a) => ~Calling(a)
    BY <1>1 DEF ScanInv, OwnersDiffer, Starting, Cancelling
  <2>4. CASE heap[a] = 0
    BY <2>1, <2>2, <2>4
  <2>5. CASE Starting(a)
    BY <2>1, <2>2, <2>3, <2>5
  <2>6. CASE Registered(a)
    BY <2>1, <2>2, <2>3, <2>6
  <2>7. CASE Cancelling(a)
    BY <2>1, <2>2, <2>3, <2>7
  <2>8. CASE Calling(a)
    BY <2>1, <2>2, <2>3, <2>8
  <2>9. QED
    BY <2>2, <2>4, <2>5, <2>6, <2>7, <2>8
<1>2. ScanInv => ContextsAreOwned
  BY <1>1 DEF ContextsAreOwned
<1>3. QED
  BY ScanInvHolds, <1>2, PTL

-----------------------------------------------------------------------------
(* The worker of the diagnostics.                                          *)

InProgress == {"queued", "dns", "tcp", "https"}
Working == {"copy", "stage", "probe", "complete", "release"}

DiagFlags ==
    {initialized, stopPending, handle, given, joining, running, workerActive} \subseteq BOOLEAN

\* The application knows the worker until it has taken its token, and waits for a known one.
WorkerIsKnown ==
    /\ handle <=> worker # "gone" \/ given
    /\ given => worker = "gone"
    /\ joining => handle
    /\ handle => initialized

\* The flags of the controller follow the place of the worker.
WorkerIsActive ==
    /\ worker \in Working <=> workerActive
    /\ worker \in {"give", "gone"} => ~running
    /\ worker # "gone" => workerToken = token
    /\ worker \in {"begin", "copy", "stage", "probe"} => probes # <<>>

\* A stage in progress has its request, and the worker leaves none behind.
StageIsRun ==
    /\ stage \in InProgress => running
    /\ running => stage \in InProgress \cup {"cancelled"}
    /\ worker = "release" => stage \notin InProgress

DiagInv == DiagTypeOK /\ WorkerIsKnown /\ WorkerIsActive /\ StageIsRun

\* The flags are booleans: read one by one.
LEMMA DiagFlagsOne ==
    DiagFlags <=> /\ initialized \in BOOLEAN /\ stopPending \in BOOLEAN
                  /\ handle \in BOOLEAN /\ given \in BOOLEAN /\ joining \in BOOLEAN
                  /\ running \in BOOLEAN /\ workerActive \in BOOLEAN
BY DEF DiagFlags

\* Preservation of the types.
LEMMA DiagTypeKept ==
    ASSUME DiagInv, DiagNext
    PROVE  DiagTypeOK'
<1> USE DiagLimits DEF Terminal
<1>1. DiagTypeOK
  BY DEF DiagInv
<1>2. CASE StartApplication
  <2>1. workerToken' \in 0 .. MaxGeneration
    BY <1>1, <1>2 DEF DiagTypeOK, StartApplication
  <2>2. given' \in BOOLEAN /\ handle' \in BOOLEAN
    BY <1>1, <1>2 DEF DiagTypeOK, StartApplication, Forget
  <2>3. initialized' \in BOOLEAN /\ stopPending' \in BOOLEAN
    BY <1>2 DEF StartApplication
  <2>4. QED
    BY <1>1, <1>2, <2>1, <2>2, <2>3 DEF DiagTypeOK, StartApplication, controller
<1>3. CASE OtherCommand
  BY <1>1, <1>3 DEF DiagTypeOK, OtherCommand, Forget, controller
<1>4. CASE CancelCommand
  BY <1>1, <1>4 DEF DiagTypeOK, CancelCommand, CancelRequest, application
<1>5. ASSUME NEW operation \in Operations, Request(operation)
      PROVE  DiagTypeOK'
  <2>1. operation \in Seq({"dns", "tcp", "https"})
    <3>1. /\ <<"dns">> \in Seq({"dns", "tcp", "https"})
          /\ <<"dns", "tcp">> \in Seq({"dns", "tcp", "https"})
          /\ <<"https">> \in Seq({"dns", "tcp", "https"})
      OBVIOUS
    <3>2. QED
      BY <3>1 DEF Operations
  <2>2. token' \in 0 .. MaxGeneration
    BY <1>1, <1>5 DEF DiagTypeOK, Request, Submit
  <2>3. QED
    BY <1>1, <1>5, <2>1, <2>2 DEF DiagTypeOK, Request, Submit
<1>6. CASE BeginStop
  BY <1>1, <1>6 DEF DiagTypeOK, BeginStop, CancelRequest, FinishStop
<1>7. CASE Join
  BY <1>1, <1>7 DEF DiagTypeOK, Join, Forget, FinishStop, controller
<1>8. CASE JoinTimesOut
  BY <1>1, <1>8 DEF DiagTypeOK, JoinTimesOut, controller
<1>9. CASE Begin
  BY <1>1, <1>9 DEF DiagTypeOK, Begin, Goes, application
<1>10. CASE CopyRequest
  BY <1>1, <1>10 DEF DiagTypeOK, CopyRequest, Goes, application, controller
<1>11. CASE EnterStage
  <2>1. probes # <<>>
    BY <1>11 DEF EnterStage, DiagInv, WorkerIsActive
  <2>2. Head(probes) \in {"dns", "tcp", "https"}
    BY <1>1, <2>1 DEF DiagTypeOK
  <2>3. QED
    BY <1>1, <1>11, <2>2 DEF DiagTypeOK, EnterStage, Goes, application
<1>12. CASE ProbeSucceeds
  <2>1. probes # <<>>
    BY <1>12 DEF ProbeSucceeds, DiagInv, WorkerIsActive
  <2>2. Tail(probes) \in Seq({"dns", "tcp", "https"})
    BY <1>1, <2>1 DEF DiagTypeOK
  <2>3. QED
    BY <1>1, <1>12, <2>2 DEF DiagTypeOK, ProbeSucceeds, Goes, application, controller
<1>13. CASE ProbeFails
  BY <1>1, <1>13 DEF DiagTypeOK, ProbeFails, End, Goes, application
<1>14. CASE Complete
  BY <1>1, <1>14 DEF DiagTypeOK, Complete, End, Goes, application
<1>15. CASE ReleaseWorker
  BY <1>1, <1>15 DEF DiagTypeOK, ReleaseWorker, AfterWorker, Goes, application
<1>16. CASE Give
  BY <1>1, <1>16 DEF DiagTypeOK, Give, Goes, application, controller
<1>17. QED
  BY <1>2, <1>3, <1>4, <1>5, <1>6, <1>7, <1>8, <1>9, <1>10, <1>11, <1>12, <1>13, <1>14, <1>15,
     <1>16, DiagNext DEF DiagNext, DiagWorkerStep

\* Each step of the worker but the last leaves the application alone and goes on.
LEMMA WorkerIsKnownKept ==
    ASSUME DiagInv, DiagNext
    PROVE  WorkerIsKnown'
<1>1. WorkerIsKnown
  BY DEF DiagInv
<1>2. CASE StartApplication
  BY <1>1, <1>2, DiagFlagsOne DEF WorkerIsKnown, StartApplication, Reaped, Forget
<1>10. CASE OtherCommand \/ Join
  <2>1. given /\ handle /\ ~joining'
    BY <1>1, <1>10 DEF WorkerIsKnown, OtherCommand, Join, Available
  <2>2. Forget /\ worker' = worker
    BY <1>10 DEF OtherCommand, Join
  <2>3. handle' = FALSE /\ given' = FALSE
    BY <2>1, <2>2 DEF Forget
  <2>4. QED
    BY <1>1, <2>1, <2>2, <2>3 DEF WorkerIsKnown
<1>3. CASE CancelCommand \/ BeginStop \/ JoinTimesOut
  BY <1>1, <1>3 DEF WorkerIsKnown, CancelCommand, BeginStop, JoinTimesOut, FinishStop, application
<1>4. CASE \E operation \in Operations : Request(operation)
  BY <1>1, <1>4 DEF WorkerIsKnown, Request, Available, Reaped
<1>5. CASE DiagWorkerStep /\ ~Give
  BY <1>1, <1>5
  DEF WorkerIsKnown, DiagWorkerStep, Begin, CopyRequest, EnterStage, ProbeSucceeds, ProbeFails,
      Complete, ReleaseWorker, Goes, application
<1>6. CASE Give
  BY <1>1, <1>6 DEF WorkerIsKnown, Give, Goes, application
<1>7. QED
  BY <1>2, <1>3, <1>4, <1>5, <1>6, <1>10, DiagNext DEF DiagNext

\* A cancellation only takes requests back: of a worker that has not begun it takes the last.
LEMMA CancelKeepsTheFlags ==
    ASSUME DiagInv, CancelRequest, UNCHANGED <<workerActive, worker, probes, token, workerToken>>
    PROVE  WorkerIsActive' /\ StageIsRun'
BY DEF DiagInv, WorkerIsActive, StageIsRun, CancelRequest, Working, InProgress, Terminal

\* The flags and the place of the worker stay together.
LEMMA WorkerIsActiveKept ==
    ASSUME DiagInv, DiagNext
    PROVE  WorkerIsActive'
<1> USE DEF Working
<1>1. WorkerIsActive /\ WorkerIsKnown /\ StageIsRun /\ DiagTypeOK
  BY DEF DiagInv
<1>2. CASE StartApplication \/ OtherCommand \/ Join \/ JoinTimesOut
  BY <1>1, <1>2
  DEF WorkerIsActive, WorkerIsKnown, StartApplication, OtherCommand, Join, JoinTimesOut, Reaped,
      controller
<1>3. CASE CancelCommand \/ BeginStop
  <2>1. CASE CancelRequest /\ UNCHANGED <<workerActive, worker, probes, token, workerToken>>
    BY <2>1, CancelKeepsTheFlags
  <2>2. CASE UNCHANGED <<stage, running, workerActive, worker, probes, token, workerToken>>
    BY <1>1, <2>2 DEF WorkerIsActive
  <2>3. QED
    BY <1>3, <2>1, <2>2 DEF CancelCommand, BeginStop, application
<1>4. CASE \E operation \in Operations : Request(operation)
  <2>1. PICK operation \in Operations : Request(operation)
    BY <1>4
  <2>2. operation # <<>>
    BY DEF Operations
  <2>3. worker = "gone" /\ ~workerActive
    BY <1>1, <2>1 DEF WorkerIsActive, WorkerIsKnown, Request, Reaped, Submit, Busy
  <2>4. token' = workerToken'
    BY <2>1 DEF Request, Submit
  <2>5. QED
    BY <1>1, <2>1, <2>2, <2>3, <2>4 DEF WorkerIsActive, Request
<1>5. CASE Begin \/ CopyRequest
  BY <1>1, <1>5 DEF WorkerIsActive, Begin, CopyRequest, Goes, application, controller
<1>6. CASE EnterStage \/ ProbeSucceeds
  BY <1>1, <1>6
  DEF WorkerIsActive, EnterStage, ProbeSucceeds, Goes, application, controller
<1>7. CASE ProbeFails \/ Complete
  BY <1>1, <1>7 DEF WorkerIsActive, ProbeFails, Complete, End, Goes, application
<1>8. CASE ReleaseWorker
  BY <1>1, <1>8
  DEF WorkerIsActive, StageIsRun, ReleaseWorker, AfterWorker, Goes, application, DiagTypeOK,
      Terminal, InProgress
<1>9. CASE Give
  BY <1>1, <1>9 DEF WorkerIsActive, Give, Goes, application, controller
<1>10. QED
  BY <1>2, <1>3, <1>4, <1>5, <1>6, <1>7, <1>8, <1>9, DiagNext DEF DiagNext, DiagWorkerStep

\* No stage stays in progress without its request.
LEMMA StageIsRunKept ==
    ASSUME DiagInv, DiagNext
    PROVE  StageIsRun'
<1> USE DEF InProgress, Terminal
<1>1. WorkerIsActive /\ WorkerIsKnown /\ StageIsRun /\ DiagTypeOK
  BY DEF DiagInv
<1>2. CASE StartApplication \/ OtherCommand \/ Join \/ JoinTimesOut
  BY <1>1, <1>2 DEF StageIsRun, StartApplication, OtherCommand, Join, JoinTimesOut, controller
<1>3. CASE CancelCommand \/ BeginStop
  <2>1. CASE CancelRequest /\ UNCHANGED <<workerActive, worker, probes, token, workerToken>>
    BY <2>1, CancelKeepsTheFlags
  <2>2. CASE UNCHANGED <<stage, running, workerActive, worker, probes, token, workerToken>>
    BY <1>1, <2>2 DEF StageIsRun
  <2>3. QED
    BY <1>3, <2>1, <2>2 DEF CancelCommand, BeginStop, application
<1>4. CASE \E operation \in Operations : Request(operation)
  <2>1. worker = "gone"
    BY <1>1, <1>4 DEF WorkerIsKnown, Request, Reaped
  <2>2. QED
    BY <1>1, <1>4, <2>1 DEF StageIsRun, Request
<1>5. CASE Begin \/ CopyRequest
  BY <1>1, <1>5
  DEF StageIsRun, WorkerIsActive, Begin, CopyRequest, Goes, application, controller
<1>6. CASE EnterStage
  <2>1. probes # <<>>
    BY <1>1, <1>6 DEF EnterStage, WorkerIsActive
  <2>2. Head(probes) \in {"dns", "tcp", "https"}
    BY <1>1, <2>1 DEF DiagTypeOK
  <2>3. CASE Wanted
    BY <1>6, <2>2, <2>3 DEF StageIsRun, EnterStage, Wanted, Goes
  <2>4. CASE ~Wanted
    BY <1>1, <1>6, <2>4 DEF StageIsRun, WorkerIsActive, EnterStage, Wanted, Goes
  <2>5. QED
    BY <2>3, <2>4
<1>11. CASE ProbeSucceeds
  <2>1. worker' # "release"
    BY <1>11 DEF ProbeSucceeds, Goes
  <2>2. QED
    BY <1>1, <1>11, <2>1 DEF StageIsRun, ProbeSucceeds, controller
<1>7. CASE ProbeFails \/ Complete
  BY <1>1, <1>7
  DEF StageIsRun, WorkerIsActive, ProbeFails, Complete, End, Wanted, Goes, application
<1>8. CASE ReleaseWorker
  BY <1>1, <1>8 DEF StageIsRun, ReleaseWorker, AfterWorker, Goes
<1>9. CASE Give
  BY <1>1, <1>9 DEF StageIsRun, Give, Goes, controller
<1>10. QED
  BY <1>2, <1>3, <1>4, <1>5, <1>6, <1>7, <1>8, <1>9, <1>11, DiagNext DEF DiagNext, DiagWorkerStep

\* DiagInv is inductive.
LEMMA DiagInvHolds == DiagSpec => []DiagInv
<1>1. DiagInit => DiagInv
  <2> SUFFICES ASSUME DiagInit
               PROVE  DiagInv
    OBVIOUS
  <2>1. DiagTypeOK
    <3>1. probes \in Seq({"dns", "tcp", "https"})
      BY DEF DiagInit
    <3>2. {token, workerToken} \subseteq 0 .. MaxGeneration
      BY DiagLimits DEF DiagInit
    <3>3. {initialized, stopPending, handle, given, joining, running, workerActive} \subseteq BOOLEAN
      BY DEF DiagInit
    <3>4. QED
      BY <3>1, <3>2, <3>3 DEF DiagInit, DiagTypeOK, Terminal
  <2>2. WorkerIsKnown /\ WorkerIsActive /\ StageIsRun
    BY DEF DiagInit, WorkerIsKnown, WorkerIsActive, StageIsRun, Working, InProgress
  <2>3. QED
    BY <2>1, <2>2 DEF DiagInv
<1>2. DiagInv /\ [DiagNext]_diagVars => DiagInv'
  <2> SUFFICES ASSUME DiagInv, [DiagNext]_diagVars
               PROVE  DiagInv'
    OBVIOUS
  <2>1. CASE DiagNext
    BY <2>1, DiagTypeKept, WorkerIsKnownKept, WorkerIsActiveKept, StageIsRunKept DEF DiagInv
  <2>2. CASE UNCHANGED diagVars
    BY <2>2
    DEF DiagInv, DiagTypeOK, WorkerIsKnown, WorkerIsActive, StageIsRun, diagVars, application,
        controller
  <2>3. QED
    BY <2>1, <2>2
<1>3. QED
  BY <1>1, <1>2, PTL DEF DiagSpec

\* The state of the diagnostics is always of its type.
THEOREM DiagTypeCorrect == DiagSpec => []DiagTypeOK
<1>1. DiagInv => DiagTypeOK
  BY DEF DiagInv
<1>2. QED
  BY DiagInvHolds, <1>1, PTL

\* However cancellation, a stop that lost patience and its retry, a new start and the end
\* of the worker meet, no worker is forgotten and none leaves the controller busy.
THEOREM NoWorkerIsForgotten == DiagSpec => []NoWorkerNoRequest
<1>1. DiagInv => NoWorkerNoRequest
  BY DEF DiagInv, NoWorkerNoRequest, WorkerIsKnown, WorkerIsActive, StageIsRun, Busy, Working,
         InProgress
<1>2. QED
  BY DiagInvHolds, <1>1, PTL

-----------------------------------------------------------------------------
(* The worker of the clock.                                                *)

SyncFlags ==
    /\ linkUp \in BOOLEAN /\ changed \in BOOLEAN /\ started \in BOOLEAN /\ stop \in BOOLEAN
    /\ ready \in BOOLEAN /\ bootCompleted \in BOOLEAN /\ requested \in BOOLEAN
    /\ listening \in BOOLEAN /\ quiesced \in BOOLEAN /\ tried \in BOOLEAN

SyncPlaces ==
    /\ caller \in [Callers -> {"out", "look", "store", "raise"}]
    /\ control \in {"idle", "register", "boot", "ready", "unready", "status", "signal", "join"}
    /\ boot \in {"before", "ready", "status", "done"}
    /\ task \in {"gone", "wait", "take", "fetch", "retry"}

\* No token is of a connection to come.
TokensAreKnown ==
    /\ linkToken \in 0 .. Connections
    /\ asked \in [Callers -> 0 .. linkToken]
    /\ {requestedToken, completedToken, attemptToken} \subseteq (1 .. linkToken) \cup {NoConnection}
    /\ attempts \in 0 .. MaxAttempts
    /\ linkUp => linkToken > 0
    /\ \A c \in Callers : ~Out(c) => asked[c] > 0

\* Nobody asks while a request of the same task is on its way.
CallersAreFree ==
    /\ control # "idle" => Out("start")
    /\ boot # "done" => Out("boot")
    /\ task \in {"take", "fetch", "retry"} => Out("worker")

\* The listener is there for as long as the worker serves.
ListenerIsThere ==
    /\ control = "join" => stop
    /\ started /\ ~stop => listening \/ control \in {"register", "signal"}

\* Somebody is about to make the worker begin an attempt.
Raised == requested \/ task = "take" \/ \E c \in Callers : caller[c] = "raise"

\* A token that refuses others is that of an attempt, begun or about to begin.
RefusedForAReason ==
    /\ requestedToken = linkToken => tried \/ Raised
    /\ completedToken = linkToken => tried
    /\ attemptToken = linkToken /\ task = "fetch" => tried

\* Somebody is about to ask for the connection there is.
AboutToAsk ==
    \/ changed \/ control = "status" \/ boot = "status"
    \/ \E c \in Callers : caller[c] \in {"look", "store"} /\ asked[c] = linkToken

\* A connection that is served and has no attempt will have one.
AttemptIsDue == Serving /\ control \in {"idle", "status"} => tried \/ Raised \/ AboutToAsk

SyncInv ==
    /\ SyncFlags /\ SyncPlaces /\ TokensAreKnown
    /\ CallersAreFree /\ ListenerIsThere /\ RefusedForAReason /\ AttemptIsDue

\* What a call of request_for_status() does to the places of the callers.
LEMMA AskEffect ==
    ASSUME SyncInv, NEW c \in Callers, Ask(c), linkToken' = linkToken
    PROVE  /\ caller' \in [Callers -> {"out", "look", "store", "raise"}]
           /\ asked' \in [Callers -> 0 .. linkToken']
           /\ \A d \in Callers : ~Out(d)' => asked'[d] > 0
           /\ \A d \in Callers \ {c} : caller'[d] = caller[d] /\ asked'[d] = asked[d]
           /\ linkUp => caller'[c] = "look" /\ asked'[c] = linkToken
           /\ ~linkUp => caller'[c] = caller[c] /\ asked'[c] = asked[c]
<1>1. CASE linkUp
  BY <1>1 DEF SyncInv, SyncPlaces, TokensAreKnown, Ask, Out
<1>2. CASE ~linkUp
  BY <1>2 DEF SyncInv, SyncPlaces, TokensAreKnown, Ask, Out, calls
<1>3. QED
  BY <1>1, <1>2

\* What the return from it does.
LEMMA LeaveEffect ==
    ASSUME SyncInv, NEW c \in Callers, Leave(c), linkToken' = linkToken
    PROVE  /\ caller' \in [Callers -> {"out", "look", "store", "raise"}]
           /\ asked' \in [Callers -> 0 .. linkToken']
           /\ \A d \in Callers : ~Out(d)' => asked'[d] > 0
           /\ \A d \in Callers \ {c} : caller'[d] = caller[d] /\ asked'[d] = asked[d]
           /\ caller'[c] = "out"
BY DEF SyncInv, SyncPlaces, TokensAreKnown, Leave, Out

\* The callers, one by one.
LEMMA AskersAreCallers == {"listener", "start", "boot", "worker"} = Callers
BY DEF Callers

\* Preservation of the flags.
LEMMA SyncFlagsKept ==
    ASSUME SyncInv, SyncNext
    PROVE  SyncFlags'
<1> USE DEF SyncFlags, wifi, switches, tokens, lifecycle, syncWorker
<1>1. SyncFlags
  BY DEF SyncInv
<1>2. CASE Connect \/ Disconnect \/ Notify
  BY <1>1, <1>2 DEF Connect, Disconnect, Notify
<1>3. ASSUME NEW c \in Callers, CallerStep(c)
      PROVE  SyncFlags'
  BY <1>1, <1>3, ZenonT(60) DEF CallerStep, Look, StoreToken, Raise
<1>4. CASE Start
  BY <1>1, <1>4, ZenonT(60) DEF Start, Reset
<1>5. CASE Register \/ ReadBoot \/ StartReadsStatus \/ Stop
  BY <1>1, <1>5, ZenonT(60) DEF Register, ReadBoot, StartReadsStatus, Stop
<1>6. CASE StoreReady
  <2>1. ready' \in BOOLEAN
    BY <1>6 DEF StoreReady
  <2>2. QED
    BY <1>1, <1>6, <2>1 DEF StoreReady
<1>7. CASE SignalStop \/ JoinSync \/ JoinSyncTimesOut
  BY <1>1, <1>7 DEF SignalStop, JoinSync, JoinSyncTimesOut, Reset
<1>8. CASE BootCompletes \/ BootReady \/ BootReadsStatus
  BY <1>1, <1>8, ZenonT(60) DEF BootCompletes, BootReady, BootReadsStatus
<1>9. CASE TakeRequest \/ TaskLeaves
  BY <1>1, <1>9 DEF TakeRequest, TaskLeaves
<1>12. CASE AttemptSucceeds \/ AttemptGivenUp \/ AttemptFails \/ Retry
  BY <1>1, <1>12 DEF AttemptSucceeds, AttemptGivenUp, AttemptFails, Retry
<1>10. CASE BeginAttempt
  <2>1. tried' \in BOOLEAN
    BY <1>10 DEF BeginAttempt
  <2>2. QED
    BY <1>1, <1>10, <2>1 DEF BeginAttempt
<1>11. QED
  BY <1>2, <1>3, <1>4, <1>5, <1>6, <1>7, <1>8, <1>9, <1>10, <1>12, SyncNext
  DEF SyncNext, LifecycleStep, SyncStep

\* Preservation of the places.
LEMMA SyncPlacesKept ==
    ASSUME SyncInv, SyncNext
    PROVE  SyncPlaces'
<1> USE AskersAreCallers DEF SyncPlaces, wifi, switches, tokens, lifecycle, syncWorker, calls
<1>1. SyncPlaces
  BY DEF SyncInv
<1>2. CASE Connect \/ Disconnect
  BY <1>1, <1>2 DEF Connect, Disconnect
<1>3. CASE Notify
  BY <1>1, <1>3, AskEffect DEF Notify
<1>4. ASSUME NEW c \in Callers, CallerStep(c)
      PROVE  SyncPlaces'
  BY <1>1, <1>4, LeaveEffect DEF CallerStep, Look, StoreToken, Raise
<1>5. CASE Start \/ Register \/ ReadBoot \/ StoreReady \/ Stop \/ SignalStop \/ JoinSync
           \/ JoinSyncTimesOut
  BY <1>1, <1>5
  DEF Start, Register, ReadBoot, StoreReady, Stop, SignalStop, JoinSync, JoinSyncTimesOut
<1>6. CASE StartReadsStatus
  BY <1>1, <1>6, AskEffect DEF StartReadsStatus
<1>7. CASE BootCompletes \/ BootReady
  BY <1>1, <1>7 DEF BootCompletes, BootReady
<1>8. CASE BootReadsStatus
  BY <1>1, <1>8, AskEffect DEF BootReadsStatus
<1>9. CASE TakeRequest \/ BeginAttempt \/ AttemptSucceeds \/ AttemptGivenUp \/ AttemptFails
           \/ TaskLeaves
  BY <1>1, <1>9
  DEF TakeRequest, BeginAttempt, AttemptSucceeds, AttemptGivenUp, AttemptFails, TaskLeaves
<1>10. CASE Retry
  BY <1>1, <1>10, AskEffect DEF Retry
<1>11. QED
  BY <1>2, <1>3, <1>4, <1>5, <1>6, <1>7, <1>8, <1>9, <1>10, SyncNext
  DEF SyncNext, LifecycleStep, SyncStep

\* Tokens only grow, and what is stored of them was one.
LEMMA TokensAreKnownKept ==
    ASSUME SyncInv, SyncNext
    PROVE  TokensAreKnown'
<1> USE AskersAreCallers, SyncLimits DEF TokensAreKnown, Out, wifi, switches, tokens, lifecycle, syncWorker, calls
<1>1. TokensAreKnown /\ SyncPlaces
  BY DEF SyncInv
<1>2. CASE Connect
  BY <1>1, <1>2 DEF Connect
<1>3. CASE Disconnect
  BY <1>1, <1>3 DEF Disconnect
<1>4. CASE Notify
  BY <1>1, <1>4, AskEffect DEF Notify
<1>5. ASSUME NEW c \in Callers, CallerStep(c)
      PROVE  TokensAreKnown'
  <2>1. CASE Look(c)
    BY <1>1, <2>1, LeaveEffect DEF Look, SyncPlaces
  <2>2. CASE StoreToken(c)
    <3>1. asked[c] \in 1 .. linkToken
      BY <1>1, <2>2 DEF StoreToken
    <3>2. QED
      BY <1>1, <2>2, <3>1 DEF StoreToken, SyncPlaces
  <2>3. CASE Raise(c)
    BY <1>1, <2>3, LeaveEffect DEF Raise
  <2>4. QED
    BY <1>5, <2>1, <2>2, <2>3 DEF CallerStep
<1>6. CASE Start
  BY <1>1, <1>6 DEF Start, Reset
<1>7. CASE Register \/ ReadBoot \/ StoreReady \/ Stop \/ SignalStop \/ JoinSyncTimesOut
  BY <1>1, <1>7 DEF Register, ReadBoot, StoreReady, Stop, SignalStop, JoinSyncTimesOut
<1>8. CASE JoinSync
  BY <1>1, <1>8 DEF JoinSync, Reset
<1>9. CASE StartReadsStatus
  BY <1>1, <1>9, AskEffect DEF StartReadsStatus
<1>10. CASE BootCompletes \/ BootReady
  BY <1>1, <1>10 DEF BootCompletes, BootReady
<1>11. CASE BootReadsStatus
  BY <1>1, <1>11, AskEffect DEF BootReadsStatus
<1>12. CASE TakeRequest \/ AttemptGivenUp \/ TaskLeaves
  BY <1>1, <1>12 DEF TakeRequest, AttemptGivenUp, TaskLeaves
<1>13. CASE BeginAttempt
  <2>1. attempts' \in 0 .. MaxAttempts
    BY <1>1, <1>13 DEF BeginAttempt
  <2>2. QED
    BY <1>1, <1>13, <2>1 DEF BeginAttempt
<1>14. CASE AttemptSucceeds \/ AttemptFails
  BY <1>1, <1>14 DEF AttemptSucceeds, AttemptFails
<1>15. CASE Retry
  BY <1>1, <1>15, AskEffect DEF Retry
<1>16. QED
  BY <1>2, <1>3, <1>4, <1>5, <1>6, <1>7, <1>8, <1>9, <1>10, <1>11, <1>12, <1>13, <1>14, <1>15,
     SyncNext
  DEF SyncNext, LifecycleStep, SyncStep

\* A task asks when it does nothing else.
LEMMA CallersAreFreeKept ==
    ASSUME SyncInv, SyncNext
    PROVE  CallersAreFree'
<1> USE AskersAreCallers DEF CallersAreFree, Out, wifi, switches, tokens, lifecycle, syncWorker, calls
<1>1. CallersAreFree /\ SyncPlaces
  BY DEF SyncInv
<1>2. CASE Connect \/ Disconnect
  BY <1>1, <1>2 DEF Connect, Disconnect
<1>3. CASE Notify
  BY <1>1, <1>3, AskEffect DEF Notify
<1>4. ASSUME NEW c \in Callers, CallerStep(c)
      PROVE  CallersAreFree'
  <2>1. \A d \in Callers \ {c} : caller'[d] = caller[d]
    BY <1>4, LeaveEffect DEF CallerStep, Look, StoreToken, Raise, SyncInv, SyncPlaces
  <2>2. ~Out(c)
    BY <1>4 DEF CallerStep, Look, StoreToken, Raise
  <2>3. QED
    BY <1>1, <1>4, <2>1, <2>2 DEF CallerStep, Look, StoreToken, Raise
<1>5. CASE Start \/ Register \/ ReadBoot \/ StoreReady \/ Stop \/ SignalStop \/ JoinSync
           \/ JoinSyncTimesOut
  BY <1>1, <1>5
  DEF Idle, Start, Register, ReadBoot, StoreReady, Stop, SignalStop, JoinSync, JoinSyncTimesOut
<1>6. CASE StartReadsStatus
  BY <1>1, <1>6, AskEffect DEF StartReadsStatus
<1>7. CASE BootCompletes \/ BootReady
  BY <1>1, <1>7 DEF BootCompletes, BootReady
<1>8. CASE BootReadsStatus
  BY <1>1, <1>8, AskEffect DEF BootReadsStatus
<1>9. CASE TakeRequest \/ BeginAttempt \/ AttemptSucceeds \/ AttemptGivenUp \/ AttemptFails
           \/ TaskLeaves
  BY <1>1, <1>9
  DEF Awake, TakeRequest, BeginAttempt, AttemptSucceeds, AttemptGivenUp, AttemptFails, TaskLeaves
<1>10. CASE Retry
  BY <1>1, <1>10, AskEffect DEF Retry
<1>11. QED
  BY <1>2, <1>3, <1>4, <1>5, <1>6, <1>7, <1>8, <1>9, <1>10, SyncNext
  DEF SyncNext, LifecycleStep, SyncStep

\* The listener goes only when the worker is told to stop.
LEMMA ListenerIsThereKept ==
    ASSUME SyncInv, SyncNext
    PROVE  ListenerIsThere'
<1> USE DEF ListenerIsThere, switches, lifecycle
<1>1. ListenerIsThere /\ SyncFlags
  BY DEF SyncInv
<1>2. CASE UNCHANGED <<switches, listening, control>>
  BY <1>1, <1>2
<1>3. CASE Start
  BY <1>1, <1>3 DEF Start, Idle
<1>4. CASE Register \/ ReadBoot
  BY <1>1, <1>4 DEF Register, ReadBoot
<1>5. CASE StoreReady \/ StartReadsStatus
  BY <1>1, <1>5 DEF StoreReady, StartReadsStatus
<1>6. CASE Stop \/ SignalStop
  BY <1>1, <1>6 DEF Stop, SignalStop
<1>7. CASE JoinSync \/ JoinSyncTimesOut
  BY <1>1, <1>7 DEF JoinSync, JoinSyncTimesOut
<1>8. CASE BootCompletes \/ BootReady
  BY <1>1, <1>8 DEF BootCompletes, BootReady
<1>9. CASE \E c \in Callers : CallerStep(c)
  BY <1>2, <1>9 DEF CallerStep, Look, StoreToken, Raise
<1>10. CASE Connect \/ Disconnect \/ Notify \/ BootReadsStatus \/ SyncStep
  BY <1>2, <1>10
  DEF Connect, Disconnect, Notify, BootReadsStatus, SyncStep, TakeRequest, BeginAttempt,
      AttemptSucceeds, AttemptGivenUp, AttemptFails, Retry, TaskLeaves
<1>11. QED
  BY <1>3, <1>4, <1>5, <1>6, <1>7, <1>8, <1>9, <1>10, SyncNext DEF SyncNext, LifecycleStep

\* A request that is raised stays so until the worker begins an attempt.
LEMMA RaisedStays ==
    ASSUME SyncInv, SyncNext, ~Start, ~JoinSync, ~BeginAttempt, Raised
    PROVE  Raised'
<1> USE AskersAreCallers DEF Raised, Out, wifi, switches, tokens, lifecycle, syncWorker, calls
<1>1. CallersAreFree /\ SyncPlaces
  BY DEF SyncInv
<1>2. ASSUME NEW c \in Callers, CallerStep(c)
      PROVE  Raised'
  <2>1. CASE Look(c)
    BY <1>1, <2>1, LeaveEffect DEF Look, SyncPlaces
  <2>2. CASE StoreToken(c)
    BY <1>1, <2>2 DEF StoreToken, SyncPlaces
  <2>3. CASE Raise(c)
    BY <2>3 DEF Raise
  <2>4. QED
    BY <1>2, <2>1, <2>2, <2>3 DEF CallerStep
<1>3. CASE Notify
  BY <1>3, AskEffect DEF Notify
<1>4. CASE StartReadsStatus
  BY <1>1, <1>4, AskEffect DEF StartReadsStatus, CallersAreFree
<1>5. CASE BootReadsStatus
  BY <1>1, <1>5, AskEffect DEF BootReadsStatus, CallersAreFree
<1>6. CASE Retry
  BY <1>1, <1>6, AskEffect DEF Retry, CallersAreFree
<1>7. CASE TakeRequest
  BY <1>7 DEF TakeRequest
<1>8. CASE UNCHANGED <<requested, caller>> /\ (task = "take" => task' = "take")
  BY <1>8
<1>9. CASE Connect \/ Disconnect \/ Register \/ ReadBoot \/ StoreReady \/ Stop \/ SignalStop
           \/ JoinSyncTimesOut \/ BootCompletes \/ BootReady
  BY <1>8, <1>9
  DEF Connect, Disconnect, Register, ReadBoot, StoreReady, Stop, SignalStop, JoinSyncTimesOut,
      BootCompletes, BootReady
<1>10. CASE AttemptSucceeds \/ AttemptGivenUp \/ AttemptFails \/ TaskLeaves
  BY <1>8, <1>10 DEF AttemptSucceeds, AttemptGivenUp, AttemptFails, TaskLeaves, Awake
<1>11. QED
  BY <1>2, <1>3, <1>4, <1>5, <1>6, <1>7, <1>9, <1>10, SyncNext DEF SyncNext, LifecycleStep, SyncStep

\* An attempt that was begun is forgotten with its connection or its worker only.
LEMMA TriedStays ==
    ASSUME SyncInv, SyncNext, ~Start, ~Connect, tried
    PROVE  tried'
<1>1. CASE \E c \in Callers : CallerStep(c)
  BY <1>1 DEF CallerStep, Look, StoreToken, Raise
<1>2. CASE SyncStep
  BY <1>2
  DEF SyncStep, TakeRequest, BeginAttempt, AttemptSucceeds, AttemptGivenUp, AttemptFails, Retry,
      TaskLeaves
<1>3. CASE LifecycleStep
  BY <1>3
  DEF LifecycleStep, Register, ReadBoot, StoreReady, StartReadsStatus, SignalStop, JoinSync,
      BootReady, BootReadsStatus
<1>4. CASE Disconnect \/ Notify \/ Stop \/ JoinSyncTimesOut \/ BootCompletes
  BY <1>4 DEF Disconnect, Notify, Stop, JoinSyncTimesOut, BootCompletes
<1>5. QED
  BY <1>1, <1>2, <1>3, <1>4, SyncNext DEF SyncNext

\* A refusal keeps its reason.
LEMMA RefusedForAReasonKept ==
    ASSUME SyncInv, SyncNext
    PROVE  RefusedForAReason'
<1> USE SyncLimits DEF RefusedForAReason
<1>1. RefusedForAReason /\ TokensAreKnown
  BY DEF SyncInv
<1>2. CASE Start
  <2>1. linkToken' # NoConnection
    BY <1>1, <1>2 DEF Start, wifi, TokensAreKnown
  <2>2. CASE task' = "wait"
    BY <1>2, <2>1, <2>2 DEF Start, Reset
  <2>3. CASE UNCHANGED <<started, control, syncWorker, tried>>
    BY <1>1, <1>2, <2>1, <2>3 DEF Start, Reset, wifi, syncWorker
  <2>4. QED
    BY <1>2, <2>2, <2>3 DEF Start
<1>3. CASE Connect
  <2>1. CASE linkToken' = linkToken + 1
    BY <1>1, <1>3, <2>1 DEF Connect, TokensAreKnown, tokens, syncWorker
  <2>2. CASE UNCHANGED <<linkToken, tried>>
    BY <1>1, <1>3, <2>2 DEF Connect, tokens, syncWorker, Raised, calls
  <2>3. QED
    BY <1>3, <2>1, <2>2 DEF Connect
<1>4. CASE JoinSync
  <2>1. linkToken' # NoConnection
    BY <1>1, <1>4 DEF JoinSync, wifi, TokensAreKnown
  <2>2. QED
    BY <1>1, <1>4, <2>1 DEF JoinSync, Reset, wifi, syncWorker
<1>5. CASE BeginAttempt
  BY <1>1, <1>5 DEF BeginAttempt, wifi, tokens
<1>6. CASE AttemptSucceeds
  <2>1. UNCHANGED <<linkToken, tried, requestedToken, requested, caller, attemptToken>>
        /\ completedToken' = attemptToken /\ task = "fetch" /\ task' = "wait"
    BY <1>6 DEF AttemptSucceeds, wifi, calls
  <2>2. QED
    BY <1>1, <2>1 DEF Raised
<1>7. ASSUME ~Start, ~Connect, ~JoinSync, ~BeginAttempt, UNCHANGED <<linkToken, completedToken, attemptToken>>,
             requestedToken' = requestedToken \/ Raised' \/ requestedToken' = NoConnection,
             task' = "fetch" => task = "fetch"
      PROVE  RefusedForAReason'
  <2>1. linkToken' # NoConnection
    BY <1>1, <1>7 DEF TokensAreKnown
  <2>2. QED
    BY <1>1, <1>7, <2>1, RaisedStays, TriedStays
<1>8. CASE ~Start /\ ~Connect /\ ~JoinSync /\ ~BeginAttempt /\ ~AttemptSucceeds
  <2>1. ASSUME NEW c \in Callers, CallerStep(c)
        PROVE  RefusedForAReason'
    <3>1. CASE Look(c) \/ Raise(c)
      BY <1>7, <1>8, <3>1 DEF Look, Raise, wifi, tokens, syncWorker
    <3>2. CASE StoreToken(c)
      <4>1. Raised'
        BY <3>2 DEF StoreToken, Raised, SyncInv, SyncPlaces
      <4>2. QED
        BY <1>7, <1>8, <3>2, <4>1 DEF StoreToken, wifi, syncWorker
    <3>3. QED
      BY <2>1, <3>1, <3>2 DEF CallerStep
  <2>2. CASE Disconnect \/ Notify \/ Stop \/ JoinSyncTimesOut \/ BootCompletes
    BY <1>7, <1>8, <2>2
    DEF Disconnect, Notify, Stop, JoinSyncTimesOut, BootCompletes, wifi, tokens, syncWorker
  <2>3. CASE LifecycleStep
    BY <1>7, <1>8, <2>3
    DEF LifecycleStep, Register, ReadBoot, StoreReady, StartReadsStatus, SignalStop,
        BootReady, BootReadsStatus, wifi, tokens, syncWorker
  <2>4. CASE SyncStep
    BY <1>7, <1>8, <2>4
    DEF SyncStep, TakeRequest, AttemptGivenUp, AttemptFails, Retry, TaskLeaves, wifi, tokens
  <2>5. QED
    BY <1>8, <2>1, <2>2, <2>3, <2>4, SyncNext DEF SyncNext
<1>9. QED
  BY <1>2, <1>3, <1>4, <1>5, <1>6, <1>8

\* Who was about to ask still is, or has asked, or the connection is no longer served.
LEMMA AttemptIsDueKept ==
    ASSUME SyncInv, SyncNext
    PROVE  AttemptIsDue'
<1> USE AskersAreCallers DEF wifi, switches, tokens, lifecycle, syncWorker, calls
<1>1. /\ AttemptIsDue /\ ListenerIsThere /\ RefusedForAReason
      /\ SyncPlaces /\ SyncFlags /\ TokensAreKnown
  BY DEF SyncInv
<1> SUFFICES ASSUME Serving', control' \in {"idle", "status"}, ~tried', ~Raised', ~AboutToAsk'
             PROVE  FALSE
  BY DEF AttemptIsDue
<1>2. ~Start /\ ~Connect /\ ~JoinSync
  <2>1. ~Start
    BY <1>1 DEF Start, Serving, SyncFlags
  <2>2. ~Connect
    BY DEF Connect, AboutToAsk
  <2>3. ~JoinSync
    BY DEF JoinSync, Serving
  <2>4. QED
    BY <2>1, <2>2, <2>3
<1>3. linkUp' /\ ~BeginAttempt
  BY DEF Serving, BeginAttempt
<1>4. ~tried /\ ~Raised
  BY <1>2, <1>3, TriedStays, RaisedStays
<1>5. ~StoreReady /\ ~BootReady
  BY DEF StoreReady, BootReady, AboutToAsk
<1>6. ~JoinSyncTimesOut /\ ~Register /\ ~ReadBoot /\ ~Stop /\ ~SignalStop /\ ~Disconnect
  BY <1>1 DEF JoinSyncTimesOut, Register, ReadBoot, Stop, SignalStop, Disconnect, Serving,
              ListenerIsThere
<1>7. ~StartReadsStatus /\ ~BootReadsStatus /\ ~Retry
  <2>1. linkToken' = linkToken => \A c \in Callers : ~(linkUp /\ Ask(c))
    BY AskEffect DEF AboutToAsk
  <2>2. QED
    BY <2>1 DEF StartReadsStatus, BootReadsStatus, Retry, Serving
<1>8. Serving /\ control \in {"idle", "status"}
  <2>1. ASSUME UNCHANGED <<linkUp, started, ready, stop, control>>
        PROVE  Serving /\ control \in {"idle", "status"}
    BY <2>1 DEF Serving
  <2>2. CASE \E c \in Callers : CallerStep(c)
    BY <2>1, <2>2 DEF CallerStep, Look, StoreToken, Raise
  <2>3. CASE Notify
    BY <2>1, <2>3 DEF Notify
  <2>4. CASE BootCompletes
    BY <2>1, <2>4 DEF BootCompletes
  <2>5. CASE TakeRequest \/ AttemptSucceeds \/ AttemptGivenUp \/ AttemptFails \/ TaskLeaves
    BY <2>1, <2>5 DEF TakeRequest, AttemptSucceeds, AttemptGivenUp, AttemptFails, TaskLeaves
  <2>6. QED
    BY <1>2, <1>3, <1>5, <1>6, <1>7, <2>2, <2>3, <2>4, <2>5, SyncNext
    DEF SyncNext, LifecycleStep, SyncStep
<1>9. AboutToAsk
  BY <1>1, <1>4, <1>8 DEF AttemptIsDue
<1>10. ~Notify
  <2> SUFFICES ASSUME Notify
               PROVE  FALSE
    OBVIOUS
  <2>1. listening
    BY <1>1, <1>8 DEF ListenerIsThere, Serving
  <2>2. Ask("listener") /\ linkUp /\ linkToken' = linkToken
    BY <1>8, <2>1 DEF Notify, Serving
  <2>3. QED
    BY <2>2, AskEffect DEF AboutToAsk
<1>11. ASSUME NEW c \in Callers, CallerStep(c)
       PROVE  FALSE
  <2>1. UNCHANGED <<linkToken, changed, control, boot>>
    BY <1>11 DEF CallerStep, Look, StoreToken, Raise
  <2>2. CASE StoreToken(c) \/ Raise(c)
    BY <1>1, <2>2 DEF StoreToken, Raise, Raised, SyncPlaces
  <2>3. CASE Look(c) /\ IsNew(asked[c])
    <3>1. PICK d \in Callers : caller[d] \in {"look", "store"} /\ asked[d] = linkToken
      BY <1>9, <2>1 DEF AboutToAsk
    <3>2. caller'[d] \in {"look", "store"} /\ asked'[d] = linkToken
      BY <1>1, <2>3, <3>1 DEF Look, SyncPlaces
    <3>3. QED
      BY <2>1, <3>2 DEF AboutToAsk
  <2>4. CASE Look(c) /\ ~IsNew(asked[c])
    <3>1. PICK d \in Callers : caller[d] \in {"look", "store"} /\ asked[d] = linkToken
      BY <1>9, <2>1 DEF AboutToAsk
    <3>2. CASE d = c
      <4>1. linkToken \in {completedToken, requestedToken}
        BY <1>8, <2>4, <3>1, <3>2 DEF IsNew, Serving
      <4>2. QED
        BY <1>1, <1>4, <4>1 DEF RefusedForAReason
    <3>3. CASE d # c
      <4>1. Leave(c)
        BY <2>4 DEF Look
      <4>2. caller'[d] = caller[d] /\ asked'[d] = asked[d]
        BY <2>1, <3>3, <4>1, LeaveEffect
      <4>3. QED
        BY <2>1, <3>1, <4>2 DEF AboutToAsk
    <3>4. QED
      BY <3>2, <3>3
  <2>5. QED
    BY <1>11, <2>2, <2>3, <2>4 DEF CallerStep
<1>12. ~BootCompletes
  BY <1>9 DEF BootCompletes, AboutToAsk
<1>13. ~SyncStep
  <2>1. ~UNCHANGED <<changed, control, boot, caller, asked, linkToken>>
    BY <1>9 DEF AboutToAsk
  <2>2. ~(TakeRequest \/ AttemptSucceeds \/ AttemptGivenUp \/ AttemptFails \/ TaskLeaves)
    BY <2>1 DEF TakeRequest, AttemptSucceeds, AttemptGivenUp, AttemptFails, TaskLeaves
  <2>3. QED
    BY <1>3, <1>7, <2>2 DEF SyncStep
<1>14. QED
  BY <1>2, <1>3, <1>5, <1>6, <1>7, <1>10, <1>11, <1>12, <1>13, SyncNext DEF SyncNext, LifecycleStep

\* SyncInv is inductive.
LEMMA SyncInvHolds == SyncSpec => []SyncInv
<1>1. SyncInit => SyncInv
  <2> SUFFICES ASSUME SyncInit
               PROVE  SyncInv
    OBVIOUS
  <2>1. SyncFlags /\ SyncPlaces /\ CallersAreFree /\ ListenerIsThere /\ AttemptIsDue
    BY AskersAreCallers
    DEF SyncInit, SyncFlags, SyncPlaces, CallersAreFree, Out, ListenerIsThere, AttemptIsDue, Serving
  <2>2. TokensAreKnown
    BY SyncLimits DEF SyncInit, TokensAreKnown, Out
  <2>3. RefusedForAReason
    BY SyncLimits DEF SyncInit, RefusedForAReason
  <2>4. QED
    BY <2>1, <2>2, <2>3 DEF SyncInv
<1>2. SyncInv /\ [SyncNext]_syncVars => SyncInv'
  <2> SUFFICES ASSUME SyncInv, [SyncNext]_syncVars
               PROVE  SyncInv'
    OBVIOUS
  <2>1. CASE SyncNext
    BY <2>1, SyncFlagsKept, SyncPlacesKept, TokensAreKnownKept, CallersAreFreeKept,
       ListenerIsThereKept, RefusedForAReasonKept, AttemptIsDueKept
    DEF SyncInv
  <2>2. CASE UNCHANGED syncVars
    <3> USE <2>2 DEF SyncInv, syncVars, wifi, switches, tokens, calls, lifecycle, syncWorker
    <3>1. SyncFlags' /\ SyncPlaces' /\ TokensAreKnown'
      BY DEF SyncFlags, SyncPlaces, TokensAreKnown, Out
    <3>2. CallersAreFree' /\ ListenerIsThere'
      BY DEF CallersAreFree, Out, ListenerIsThere
    <3>3. RefusedForAReason' /\ AttemptIsDue'
      BY DEF RefusedForAReason, AttemptIsDue, Serving, Raised, AboutToAsk
    <3>4. QED
      BY <3>1, <3>2, <3>3 DEF SyncInv
  <2>3. QED
    BY <2>1, <2>2
<1>3. QED
  BY <1>1, <1>2, PTL DEF SyncSpec

\* The state of the time synchronisation is always of its type.
THEOREM SyncTypeCorrect == SyncSpec => []SyncTypeOK
<1>1. SyncInv => SyncTypeOK
  <2> SUFFICES ASSUME SyncInv
               PROVE  SyncTypeOK
    OBVIOUS
  <2>1. /\ {linkUp, changed, started, stop, ready, bootCompleted} \subseteq BOOLEAN
        /\ {requested, listening, quiesced, tried} \subseteq BOOLEAN
    BY DEF SyncInv, SyncFlags
  <2>2. linkToken \in 0 .. Connections /\ 0 .. linkToken \subseteq 0 .. Connections
        /\ 1 .. linkToken \subseteq Tokens
    BY SyncLimits DEF SyncInv, TokensAreKnown, Tokens
  <2>3. asked \in [Callers -> 0 .. Connections]
    BY <2>2 DEF SyncInv, TokensAreKnown
  <2>4. {requestedToken, completedToken, attemptToken} \subseteq Tokens \cup {NoConnection}
    BY <2>2 DEF SyncInv, TokensAreKnown
  <2>5. QED
    BY <2>1, <2>2, <2>3, <2>4 DEF SyncInv, SyncPlaces, TokensAreKnown, SyncTypeOK
<1>2. QED
  BY SyncInvHolds, <1>1, PTL

\* Whatever overtakes what, the tasks do not come to rest over a served connection for
\* which no attempt to set the clock was begun.
THEOREM ConnectionsAreTried == SyncSpec => []NoConnectionForgotten
<1>1. SyncInv => NoConnectionForgotten
  BY DEF SyncInv, AttemptIsDue, NoConnectionForgotten, AtRest, Raised, AboutToAsk, Out
<1>2. QED
  BY SyncInvHolds, <1>1, PTL
=============================================================================
