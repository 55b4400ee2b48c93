------------------------------ MODULE WifiScan ------------------------------
(***************************************************************************)
(* The scans of the Wi-Fi manager (wifi_mgr.cpp), one at a time for three  *)
(* users:                                                                  *)
(*   - the search of the shell (cyberdeck_ui.cpp, in the LVGL task), whose *)
(*     callback gets a context on the heap and deletes it;                 *)
(*   - the serial bridge, which waits for the callback on a semaphore and  *)
(*     whose context is static;                                            *)
(*   - the network worker, which scans without a callback.                 *)
(* Whoever starts keeps the scan mutex while the driver is called, through *)
(* a co-processor; the others hold it shortly, so that only a start makes  *)
(* the 100 ms of scan_state_lock() expire.  The driver's SCAN_DONE sets a  *)
(* flag, and the event worker detaches the callback and calls it.          *)
(*                                                                         *)
(* A context is an address, a search is its token.  Networks found are     *)
(* left out, and s_scan_generation, which only the worker compares, with   *)
(* the copy it made; the survey, a fourth user with the protocol of the    *)
(* search, and the stop of the manager are not modelled.                   *)
(***************************************************************************)
EXTENDS Naturals, Sequences

CONSTANTS
    Addresses,      \* of contexts on the heap
    Static,         \* the address of the bridge's context
    Null,           \* no context
    Searches        \* bound on searches

ASSUME ScanLimits ==
    /\ Searches \in Nat \ {0}
    /\ Static \notin Addresses /\ Null \notin Addresses \cup {Static}

VARIABLES
    holder,     \* who keeps s_scan_mutex while it starts a scan
    busy,       \* s_scan_in_progress
    cb,         \* s_scan_cb_ctx: the context registered
    active,     \* s_active_scan_cb_ctx: the context of the callback that runs
    radio,      \* driver: what the scan under way was started for
    due,        \* SCAN_DONE events on their way
    scanDone,   \* s_scan_done_pending
    turn,       \* where wifi_event_worker() is
    mine,       \* the context it has detached
    heap,       \* the token in each context on the heap (0: not allocated)
    ui,         \* where the LVGL task is
    ptr,        \* the context it handles
    owned,      \* whether the callback owns it
    scanning,   \* the search the user waits for (0: none)
    last,       \* the last token
    uiCtx,      \* s_wifi_scan_context
    results,    \* s_wifi_scan_queue: the tokens of the results
    bridge,     \* where exec_wifi_scan() is
    sem         \* tokens of s_scan.sem

manager == <<holder, busy, cb, active>>
driver == <<radio, due>>
work == <<scanDone, turn, mine>>
shell == <<ui, ptr, owned, scanning, last, uiCtx>>
serial == <<bridge, sem>>
scanVars == <<manager, driver, work, heap, shell, results, serial>>

Contexts == Addresses \cup {Static, Null}
Users == {"search", "bridge", "net"}
MaxEvents == 4      \* bound on the SCAN_DONE events on their way
MaxGives == 4       \* the limit of s_scan.sem, a counting semaphore
MaxResults == 2     \* length of s_wifi_scan_queue

ScanInit ==
    /\ holder = "none" /\ busy = FALSE /\ cb = Null /\ active = Null
    /\ radio = "none" /\ due = 0
    /\ scanDone = FALSE /\ turn = "idle" /\ mine = Null
    /\ heap = [a \in Addresses |-> 0]
    /\ ui = "out" /\ ptr = Null /\ owned = FALSE /\ scanning = 0 /\ last = 0 /\ uiCtx = Null
    /\ results = <<>>
    /\ bridge = "idle" /\ sem = 0

Free == holder = "none"

-----------------------------------------------------------------------------
(* wifi_mgr_scan_impl(), split where the driver is called.                 *)

Refused == ~Free \/ busy \/ cb # Null \/ active # Null

\* It is also refused while Wi-Fi is disabled.
Refuse == UNCHANGED <<manager, driver>>

EnterStart(user, ctx) ==
    /\ ~Refused
    /\ holder' = user
    /\ busy' = TRUE
    /\ cb' = ctx
    /\ UNCHANGED <<active, driver>>

\* esp_wifi_scan_start(): a scan under way is given up, and its SCAN_DONE sent.
Driven(user) ==
    /\ radio' = user
    /\ due' = IF radio = "none" THEN due ELSE due + 1
    /\ due' <= MaxEvents

StartSucceeds(user) ==
    /\ holder = user
    /\ Driven(user)
    /\ holder' = "none"
    /\ UNCHANGED <<busy, cb, active>>

\* Mutant: the place is not given back.
UnwindHalf ==
    /\ cb' = Null
    /\ UNCHANGED busy

Unwind ==
    /\ cb' = Null
    /\ busy' = FALSE

StartFails(user) ==
    /\ holder = user
    /\ Unwind
    /\ holder' = "none"
    /\ UNCHANGED <<active, driver>>

-----------------------------------------------------------------------------
(* wifi_mgr_cancel_scan(), split where the mutex is given back.            *)

NeverRuns(ctx) == FALSE      \* mutant: the callback that runs is not looked for

\* The callback runs: it owns its context.
CallbackRuns(ctx) == ctx # Null /\ active = ctx

Cancel(ctx) ==
    /\ Free
    /\ IF busy /\ cb = ctx /\ ~CallbackRuns(ctx)
       THEN cb' = Null /\ busy' = FALSE
       ELSE UNCHANGED <<cb, busy>>
    /\ UNCHANGED <<holder, active, driver>>

\* esp_wifi_scan_stop(): whatever scan is under way.
StopScan ==
    /\ radio' = "none"
    /\ due' = IF radio = "none" THEN due ELSE due + 1
    /\ due' <= MaxEvents
    /\ UNCHANGED manager

-----------------------------------------------------------------------------
(* The search of the shell.  Commands are typed further apart than the 100 *)
(* ms of process_wifi_scan(), which takes one result each time, so that    *)
(* one result at most waits when a search begins.                          *)

BeginSearch(a) ==
    /\ ui = "out" /\ scanning = 0 /\ last < Searches /\ Len(results) < MaxResults
    /\ heap[a] = 0
    /\ last' = last + 1 /\ scanning' = last'
    /\ heap' = [heap EXCEPT ![a] = last']
    /\ uiCtx' = a /\ ptr' = a
    /\ ui' = "scan"
    /\ UNCHANGED <<manager, driver, work, owned, results, serial>>

SearchStarts ==
    /\ ui = "scan"
    /\ \/ Refuse /\ ui' = "refused"
       \/ EnterStart("search", ptr) /\ ui' = "starting"
    /\ UNCHANGED <<work, heap, ptr, owned, scanning, last, uiCtx, results, serial>>

SearchStarted ==
    /\ ui = "starting"
    /\ \/ StartSucceeds("search") /\ ui' = "out" /\ ptr' = Null
       \/ StartFails("search") /\ ui' = "refused" /\ UNCHANGED ptr
    /\ UNCHANGED <<work, heap, owned, scanning, last, uiCtx, results, serial>>

Unset(ctx) == IF uiCtx = ctx THEN Null ELSE uiCtx

\* Mutant: the user is left waiting.
SearchRefusedSilently ==
    /\ ui = "refused"
    /\ uiCtx' = Unset(ptr)
    /\ heap' = [heap EXCEPT ![ptr] = 0]
    /\ ui' = "out" /\ ptr' = Null
    /\ UNCHANGED <<manager, driver, work, owned, scanning, last, results, serial>>

SearchRefused ==
    /\ ui = "refused"
    /\ uiCtx' = Unset(ptr)
    /\ heap' = [heap EXCEPT ![ptr] = 0]
    /\ scanning' = 0
    /\ ui' = "out" /\ ptr' = Null
    /\ UNCHANGED <<manager, driver, work, owned, last, results, serial>>

\* Escape, and the first part of wifi_cancel_scan().  The token is spent.
Escape ==
    /\ ui = "out" /\ scanning # 0
    /\ scanning' = 0
    /\ ptr' = uiCtx
    /\ ui' = IF ptr' = Null THEN "out" ELSE "cancel"
    /\ UNCHANGED <<manager, driver, work, heap, owned, last, uiCtx, results, serial>>

CancelSearch ==
    /\ ui = "cancel"
    /\ Cancel(ptr)
    /\ owned' = CallbackRuns(ptr)
    /\ ui' = IF owned' THEN "cancelled" ELSE "stop"
    /\ UNCHANGED <<work, heap, ptr, scanning, last, uiCtx, results, serial>>

StopSearch ==
    /\ ui = "stop"
    /\ StopScan
    /\ ui' = "cancelled"
    /\ UNCHANGED <<work, heap, ptr, owned, scanning, last, uiCtx, results, serial>>

CancelEnds ==
    /\ ui = "cancelled"
    /\ uiCtx' = Unset(ptr)
    /\ heap' = IF uiCtx = ptr /\ ~owned THEN [heap EXCEPT ![ptr] = 0] ELSE heap
    /\ ui' = "out" /\ ptr' = Null /\ owned' = FALSE
    /\ UNCHANGED <<manager, driver, work, scanning, last, results, serial>>

\* process_wifi_scan()
TakeResult ==
    /\ ui = "out" /\ results # <<>>
    /\ results' = Tail(results)
    /\ scanning' = IF Head(results) = scanning THEN 0 ELSE scanning
    /\ UNCHANGED <<manager, driver, work, heap, ui, ptr, owned, last, uiCtx, serial>>

ShellStep ==
    \/ SearchStarts \/ SearchStarted \/ SearchRefused \/ CancelSearch \/ StopSearch
    \/ CancelEnds \/ TakeResult

-----------------------------------------------------------------------------
(* exec_wifi_scan() of the bridge, and RUN_SCAN of the network worker.     *)

BridgeRequest ==
    /\ bridge = "idle"
    /\ sem' = 0
    /\ bridge' = "scan"
    /\ UNCHANGED <<manager, driver, work, heap, shell, results>>

BridgeStarts ==
    /\ bridge = "scan"
    /\ \/ Refuse /\ bridge' = "idle"
       \/ EnterStart("bridge", Static) /\ bridge' = "starting"
    /\ UNCHANGED <<work, heap, shell, results, sem>>

BridgeStarted ==
    /\ bridge = "starting"
    /\ \/ StartSucceeds("bridge") /\ bridge' = "wait"
       \/ StartFails("bridge") /\ bridge' = "idle"
    /\ UNCHANGED <<work, heap, shell, results, sem>>

BridgeAnswers ==
    /\ bridge = "wait" /\ sem > 0
    /\ sem' = sem - 1
    /\ bridge' = "idle"
    /\ UNCHANGED <<manager, driver, work, heap, shell, results>>

BridgeCancels ==
    /\ bridge = "wait" /\ sem = 0
    /\ Cancel(Static)
    /\ bridge' = IF CallbackRuns(Static) THEN "drain" ELSE "stop"
    /\ UNCHANGED <<work, heap, shell, results, sem>>

BridgeStops ==
    /\ bridge = "stop"
    /\ StopScan
    /\ bridge' = "idle"
    /\ UNCHANGED <<work, heap, shell, results, sem>>

\* It waits 50 ms at most for the late callback.
BridgeDrains ==
    /\ bridge = "drain"
    /\ sem' \in {sem, sem - 1} /\ sem' \in 0 .. MaxGives
    /\ bridge' = "idle"
    /\ UNCHANGED <<manager, driver, work, heap, shell, results>>

BridgeStep == BridgeStarts \/ BridgeStarted \/ BridgeAnswers \/ BridgeStops \/ BridgeDrains

NetScan ==
    /\ EnterStart("net", Null)
    /\ UNCHANGED <<work, heap, shell, results, serial>>

NetStarted ==
    /\ StartSucceeds("net") \/ StartFails("net")
    /\ UNCHANGED <<work, heap, shell, results, serial>>

-----------------------------------------------------------------------------
(* The driver, the system event task and the event worker.                 *)

ScanEnds ==
    /\ radio # "none" /\ due < MaxEvents
    /\ radio' = "none"
    /\ due' = due + 1
    /\ UNCHANGED <<manager, work, heap, shell, results, serial>>

\* wifi_event_handler()
OnScanDone ==
    /\ due > 0
    /\ due' = due - 1
    /\ scanDone' = TRUE
    /\ UNCHANGED <<manager, radio, turn, mine, heap, shell, results, serial>>

TakeScanDone ==
    /\ turn = "idle" /\ scanDone
    /\ scanDone' = FALSE
    /\ turn' = "detach"
    /\ UNCHANGED <<manager, driver, mine, heap, shell, results, serial>>

Detach ==
    /\ turn = "detach"
    /\ IF Free
       THEN /\ mine' = cb /\ cb' = Null
            /\ active' = cb
            /\ busy' = FALSE
            /\ turn' = IF cb = Null THEN "idle" ELSE "call"
       ELSE /\ turn' = "idle"
            /\ UNCHANGED <<mine, cb, active, busy>>
    /\ UNCHANGED <<holder, driver, scanDone, heap, shell, results, serial>>

\* on_wifi_scan_done() copies the token, posts the result, takes the context from
\* the user interface and deletes it; on_scan_done() of the bridge gives the semaphore.
PostResult ==
    /\ turn = "call" /\ mine # Static
    /\ results' = IF Len(results) < MaxResults THEN Append(results, heap[mine]) ELSE results
    /\ turn' = "unset"
    /\ UNCHANGED <<manager, driver, scanDone, mine, heap, shell, serial>>

UnsetContext ==
    /\ turn = "unset"
    /\ uiCtx' = Unset(mine)
    /\ turn' = "delete"
    /\ UNCHANGED <<manager, driver, scanDone, mine, heap, ui, ptr, owned, scanning, last, results, serial>>

DeleteContext ==
    /\ turn = "delete"
    /\ heap' = [heap EXCEPT ![mine] = 0]
    /\ turn' = "settle"
    /\ UNCHANGED <<manager, driver, scanDone, mine, shell, results, serial>>

GiveBridge ==
    /\ turn = "call" /\ mine = Static
    /\ sem' = IF sem < MaxGives THEN sem + 1 ELSE sem
    /\ turn' = "settle"
    /\ UNCHANGED <<manager, driver, scanDone, mine, heap, shell, results, bridge>>

\* The lock would be waited for 100 ms: nobody starts a scan while a callback is active.
Settle ==
    /\ turn = "settle"
    /\ active' = IF Free /\ active = mine THEN Null ELSE active
    /\ mine' = Null
    /\ turn' = "idle"
    /\ UNCHANGED <<holder, busy, cb, driver, scanDone, heap, shell, results, serial>>

WorkerStep ==
    TakeScanDone \/ Detach \/ PostResult \/ UnsetContext \/ DeleteContext \/ GiveBridge \/ Settle

-----------------------------------------------------------------------------
ScanNext ==
    \/ \E a \in Addresses : BeginSearch(a)
    \/ Escape \/ ShellStep
    \/ BridgeRequest \/ BridgeCancels \/ BridgeStep
    \/ NetScan \/ NetStarted
    \/ ScanEnds \/ OnScanDone \/ WorkerStep

\* The tasks run, and the driver ends every scan it has begun.  Nobody has to ask for
\* a scan, to escape, or to lose patience.
ScanFairness ==
    /\ WF_scanVars(ShellStep) /\ WF_scanVars(BridgeStep) /\ WF_scanVars(NetStarted)
    /\ WF_scanVars(ScanEnds) /\ WF_scanVars(OnScanDone) /\ WF_scanVars(WorkerStep)

ScanSpec == ScanInit /\ [][ScanNext]_scanVars
FairScanSpec == ScanSpec /\ ScanFairness

-----------------------------------------------------------------------------
ScanTypeOK ==
    /\ holder \in Users \cup {"none"} /\ busy \in BOOLEAN /\ {cb, active, mine} \subseteq Contexts
    /\ radio \in Users \cup {"none"} /\ due \in 0 .. MaxEvents /\ scanDone \in BOOLEAN
    /\ turn \in {"idle", "detach", "call", "unset", "delete", "settle"}
    /\ heap \in [Addresses -> 0 .. Searches]
    /\ ui \in {"out", "scan", "starting", "refused", "cancel", "stop", "cancelled"}
    /\ {ptr, uiCtx} \subseteq Addresses \cup {Null} /\ owned \in BOOLEAN
    /\ {scanning, last} \subseteq 0 .. Searches /\ results \in Seq(1 .. Searches)
    /\ bridge \in {"idle", "scan", "starting", "wait", "stop", "drain"} /\ sem \in 0 .. MaxGives

\* Who will delete the context: the call that starts it or that cancelled it, the
\* registration, or the callback.
Owners(a) ==
    {o \in {"starter", "registered", "canceller", "callback"} :
        CASE o = "starter" -> ptr = a /\ ui \in {"scan", "refused"}
          [] o = "registered" -> cb = a
          [] o = "canceller" -> ptr = a /\ ui \in {"stop", "cancelled"} /\ uiCtx = a /\ ~owned
          [] o = "callback" -> mine = a /\ turn \in {"call", "unset", "delete"}}

\* A context on the heap has one owner at any time, and an owner's context is
\* allocated: whatever the user cancels while the worker detaches, calls back and
\* deletes, none is used after it was deleted, deleted twice, or lost
\* (wifi_mgr_cancel_scan(), wifi_cancel_scan() and on_wifi_scan_done()).
ContextsAreOwned ==
    \A a \in Addresses :
        IF heap[a] = 0 THEN Owners(a) = {} ELSE \E o \in Owners(a) : Owners(a) = {o}

\* The search the user waits for is answered, although its callback may be detached by
\* the end of another scan, the mutex may be kept by another start, and the driver may
\* fail: the user need not escape (log_scan_results() and process_wifi_scan()).
SearchIsAnswered == (scanning # 0) ~> (scanning = 0)

\* The one place for a scan is given back, whoever had it and however it ended: no
\* failure, time-out or cancellation leaves every later scan refused.
PlaceComesBack == Refused ~> ~Refused

\* wifi_mgr_cancel_scan(), wifi_mgr.cpp:1257: "The completion event may still arrive,
\* but it now has no callback or context to dispatch".  The callback that is detached
\* is not that of a scan the driver is still making.
CompletionIsOwn ==
    turn = "call" => (mine = Static => radio # "bridge") /\ (mine \in Addresses => radio # "search")
=============================================================================
