------------------------------ MODULE BleScan ------------------------------
(***************************************************************************)
(* One radio, two users: the search the user asks for and the windows in   *)
(* which the background scheduler looks for a lost bond.                   *)
(*   - the user interface (cyberdeck_ui.cpp's pump, the state machine and  *)
(*     the scheduler, all in the LVGL task) sends commands and reads events;*)
(*   - the manager's task (ble_mgr.cpp) executes them, one discovery at a  *)
(*     time, told apart by token;                                          *)
(*   - NimBLE's host runs the discovery and calls back with the token cast *)
(*     to a pointer and back.                                              *)
(* The searching part of the two machines only: pairing and connecting are *)
(* left out, the host has synchronised and a bond is armed for             *)
(* reconnection.  SCAN_STARTED, which the pump ignores, is not sent; the   *)
(* eviction in on_ble_event() is one step; process_gap_events(), called    *)
(* before and after a command is received, is the call after it.           *)
(***************************************************************************)
EXTENDS Naturals, SequencesExt

CONSTANTS
    Base,       \* k_token_base
    PtrMod,     \* 2^width of a pointer: the callback's token is modulo this.  Base,
                \* which is 2^63, is a multiple of it where a pointer has 32 bits
    Patience,   \* ticks of a search's deadline
    Depth,      \* length of the manager's command queue
    Room,       \* length of the user interface's event queue
    GapRoom,    \* length of the queue of the host's reports
    Searches,   \* bound on searches
    Windows,    \* bound on background windows
    CancelReports  \* whether the host completes every discovery whose cancel it accepts

ASSUME BleLimits ==
    /\ {Base, PtrMod, Patience, Depth, Room, GapRoom, Searches, Windows} \subseteq Nat \ {0}
    /\ Searches < Base /\ Searches < PtrMod
    /\ CancelReports \in BOOLEAN

VARIABLES
    ui,         \* where the pump is: "out" of it, "drain"ing events
    outbox,     \* commands of the actions taken, not sent yet
    screen, search, deadline, verdict, shown,   \* cyberdeck_ble::state_machine
    list,       \* s_ble_scan_devices is not empty
    slot, window, abandoned,  \* scheduler: scan_active_, scan_token_, abandoned_token_
    commands,   \* s_ble_queue
    events,     \* s_ble_event_queue
    mgr,        \* where ble_mgr_task() is
    cmd,        \* the command it has
    scan,       \* its s_scan_* variables
    gap,        \* the token of the host's discovery (0: none)
    due,        \* discoveries that are over and whose completion is not called yet
    reports,    \* s_gap_event_queue
    terminal,   \* s_gap_terminal_queue (0: empty)
    over        \* history: the searches whose discovery is over

uiVars == <<ui, outbox, screen, search, deadline, verdict, shown, list>>
bgVars == <<slot, window, abandoned>>
mgrVars == <<mgr, cmd, scan>>
hostVars == <<gap, due, reports, terminal, over>>
bleVars == <<uiVars, bgVars, commands, events, mgrVars, hostVars>>

Tokens == 1 .. Searches \cup Base .. Base + Windows - 1
Command == [kind : {"start", "cancel"}, token : Tokens]
NoCommand == [kind |-> "none", token |-> 0]
Event == [kind : {"result", "finished", "failed"}, token : Tokens]
Message(kind, t) == [kind |-> kind, token |-> t]
Arg(t) == t % PtrMod                         \* (uint64_t)(uintptr_t)(void *)(uintptr_t)token
Discovering == gap # 0             \* ble_gap_disc_active()

BleTypeOK ==
    /\ ui \in {"out", "drain"} /\ screen \in {"idle", "searching", "results"}
    /\ search \in 0 .. Searches /\ deadline \in 0 .. Patience
    /\ verdict \in {"none", "finished", "failed", "timed_out"}
    /\ over \subseteq 1 .. Searches
    /\ {shown, list, slot} \subseteq BOOLEAN
    /\ {window, abandoned, gap} \subseteq Tokens \cup {0} /\ terminal \in Nat
    /\ commands \in Seq(Command) /\ Len(commands) <= Depth
    /\ events \in Seq(Event) /\ Len(events) <= Room
    /\ mgr \in {"receive", "terminal", "pending", "act"}
    /\ cmd \in Command \cup {NoCommand}

BleInit ==
    /\ ui = "out" /\ outbox = <<>> /\ screen = "idle" /\ search = 0 /\ deadline = 0
    /\ verdict = "none" /\ shown = FALSE /\ list = FALSE
    /\ slot = FALSE /\ window = 0 /\ abandoned = 0
    /\ commands = <<>> /\ events = <<>> /\ mgr = "receive" /\ cmd = NoCommand
    /\ scan = [token |-> 0, cancelling |-> FALSE, cancelToken |-> 0,
               queued |-> 0, ready |-> TRUE]
    /\ gap = 0 /\ due = <<>> /\ reports = <<>> /\ terminal = 0
    /\ over = {}

-----------------------------------------------------------------------------
(* The user *)

OwnsInput == screen = "searching" \/ (screen = "results" /\ shown)

\* A search, as an action, first asks for the end of a background window.
StartSearch(t) ==
    (IF slot THEN <<Message("preempt", window)>> ELSE <<>>) \o <<Message("start", t)>>

UiIsFree == ui = "out" /\ outbox = <<>>

\* Slip: the deadlines are cleared after the new one is set.
BeginSearchUntimed ==
    /\ UiIsFree /\ ~OwnsInput /\ search < Searches
    /\ screen' = "searching" /\ search' = search + 1 /\ deadline' = 0
    /\ verdict' = "none" /\ shown' = FALSE /\ list' = FALSE
    /\ outbox' = StartSearch(search + 1)
    /\ UNCHANGED <<ui, bgVars, commands, events, mgrVars, hostVars>>

BeginSearch ==
    /\ UiIsFree /\ ~OwnsInput /\ search < Searches
    /\ screen' = "searching" /\ search' = search + 1 /\ deadline' = Patience
    /\ verdict' = "none" /\ shown' = FALSE /\ list' = FALSE
    /\ outbox' = StartSearch(search + 1)
    /\ UNCHANGED <<ui, bgVars, commands, events, mgrVars, hostVars>>

Escape ==
    /\ UiIsFree /\ OwnsInput
    /\ screen' = "idle" /\ deadline' = 0 /\ verdict' = "none"
    /\ outbox' = IF screen = "searching" THEN <<Message("cancel", search)>> ELSE <<>>
    /\ UNCHANGED <<ui, search, shown, list, bgVars, commands, events, mgrVars, hostVars>>

-----------------------------------------------------------------------------
(* The pump: process_ble_events() and ble_submit_actions() *)

\* One command of ble_submit_actions(); one the queue refuses is dropped.
\* The window whose end was asked for is abandoned only if the queue took it.
Submit ==
    /\ outbox # <<>>
    /\ outbox' = Tail(outbox)
    /\ LET c == Head(outbox)
           taken == Len(commands) < Depth
           kind == IF c.kind = "preempt" THEN "cancel" ELSE c.kind
       IN /\ commands' = IF taken THEN Append(commands, Message(kind, c.token)) ELSE commands
          /\ abandoned' = IF c.kind = "preempt" /\ taken THEN window ELSE abandoned
    /\ UNCHANGED <<ui, screen, search, deadline, verdict, shown, list, slot, window,
                   events, mgrVars, hostVars>>

\* advance_time(): 100 ms of the deadline.
Tick ==
    /\ UiIsFree /\ ui' = "drain"
    /\ deadline' = IF deadline = 0 THEN 0 ELSE deadline - 1
    /\ IF deadline = 1 /\ screen = "searching"
       THEN /\ screen' = "results" /\ verdict' = "timed_out"
            /\ outbox' = <<Message("cancel", search)>>
       ELSE UNCHANGED <<screen, verdict, outbox>>
    /\ UNCHANGED <<search, shown, list, bgVars, commands, events, mgrVars, hostVars>>

Draining == ui = "drain" /\ outbox = <<>>
OfWindow(e) == slot /\ e.token = window
Dropped(e) == e.token = abandoned /\ e.kind \notin {"finished", "failed"}

TakeEvent ==
    /\ Draining /\ events # <<>> /\ events' = Tail(events)
    /\ UNCHANGED <<ui, outbox, search, mgrVars, hostVars>>

Ignore ==
    /\ TakeEvent /\ (Dropped(Head(events)))
    /\ UNCHANGED <<screen, deadline, verdict, shown, list, bgVars, commands>>

List ==
    /\ TakeEvent /\ Head(events).kind = "result" /\ ~Dropped(Head(events))
    /\ ~OfWindow(Head(events))
    /\ list' = TRUE
    /\ UNCHANGED <<screen, deadline, verdict, shown, bgVars, commands>>

\* on_scan_result(): the bond advertises; the window is asked to end first.
Match ==
    /\ TakeEvent /\ Head(events).kind = "result" /\ ~Dropped(Head(events))
    /\ OfWindow(Head(events))
    /\ IF Len(commands) < Depth
       THEN commands' = Append(commands, Message("cancel", window)) /\ abandoned' = window
       ELSE UNCHANGED <<commands, abandoned>>
    /\ UNCHANGED <<screen, deadline, verdict, shown, list, slot, window>>

\* on_scan_finished(); the reconnection it may ask for is not modelled.
WindowEnds ==
    /\ TakeEvent /\ Head(events).kind \in {"finished", "failed"} /\ OfWindow(Head(events))
    /\ slot' = FALSE /\ list' = FALSE
    /\ abandoned' = IF abandoned = window THEN 0 ELSE abandoned
    /\ UNCHANGED <<screen, deadline, verdict, shown, window, commands>>

\* scan_finished() and scan_failed(): only the search that is waited for.
SearchAnswered ==
    /\ TakeEvent /\ Head(events).kind \in {"finished", "failed"} /\ ~OfWindow(Head(events))
    /\ list' = FALSE
    /\ IF screen = "searching" /\ Head(events).token = search
       THEN /\ screen' = "results" /\ verdict' = Head(events).kind /\ deadline' = 0
            /\ shown' = IF Head(events).kind = "finished" THEN list ELSE shown
       ELSE UNCHANGED <<screen, verdict, deadline, shown>>
    /\ UNCHANGED <<bgVars, commands>>

\* maybe_reconnect(), at the end of the pump: a new window, if the last is
\* closed and the time between two of them (wait_ms_) has passed, or not yet.
OpenWindow ==
    /\ ~OwnsInput /\ ~slot /\ window < Base + Windows - 1
    /\ Len(commands) < Depth
    /\ LET t == IF window = 0 THEN Base ELSE window + 1 IN
       commands' = Append(commands, Message("start", t)) /\ window' = t
    /\ slot' = TRUE

WindUp ==
    /\ Draining /\ events = <<>> /\ ui' = "out"
    /\ OpenWindow \/ UNCHANGED <<commands, window, slot>>
    /\ UNCHANGED <<outbox, screen, search, deadline, verdict, shown, list, abandoned,
                   events, mgrVars, hostVars>>

-----------------------------------------------------------------------------
(* The manager's task *)

Evictable(e) == e.kind = "result"

\* on_ble_event(): an outcome evicts a report from a full queue.
Publish(e) ==
    events' = IF Len(events) < Room THEN Append(events, e)
              ELSE IF e.kind \in {"finished", "failed"} /\ \E i \in DOMAIN events : Evictable(events[i])
              THEN Append(RemoveFirstMatch(events, Evictable), e)
              ELSE events

\* A command, or none within 100 ms; then process_gap_events(): all the
\* reports, and the completion in the next step.
Receive ==
    /\ mgr = "receive" /\ mgr' = "terminal"
    /\ IF commands = <<>> THEN cmd' = NoCommand /\ UNCHANGED commands
       ELSE cmd' = Head(commands) /\ commands' = Tail(commands)
    /\ reports' = <<>>
    /\ LET own == Cardinality({i \in DOMAIN reports : reports[i] \in {scan.token} \ {0}})
       IN events' = events \o [i \in 1 .. Min({own, Room - Len(events)}) |->
                                   Message("result", scan.token)]
    /\ UNCHANGED <<uiVars, bgVars, scan, gap, due, terminal, over>>

\* Slip: the token of a completion is not looked at.
AnyCompletion(t) == scan.token # 0

OwnCompletion(t) ==
    t # 0 /\ t = scan.token /\ (scan.cancelToken # 0 => t = scan.cancelToken)

Completed ==
    IF terminal # 0 /\ OwnCompletion(terminal)
    THEN /\ \E outcome \in {"finished", "failed"} : Publish(Message(outcome, scan.token))
         /\ scan' = [scan EXCEPT !.cancelling = FALSE, !.cancelToken = 0, !.ready = TRUE]
    ELSE UNCHANGED <<events, scan>>

Then == IF cmd = NoCommand THEN "receive" ELSE "act"

ProcessTerminal ==
    /\ mgr = "terminal" /\ mgr' = IF scan.queued # 0 THEN "pending" ELSE Then
    /\ terminal' = 0 /\ Completed
    /\ UNCHANGED <<uiVars, bgVars, commands, cmd, gap, due, reports, over>>

Ended(t) == over \cup ({t} \cap 1 .. Searches)

\* start_scan_command(): refused without a word while a cancelled discovery
\* has not completed.
StartScan(t, s) ==
    IF Discovering \/ s.cancelling \/ (s.queued # 0 /\ ~s.ready)
    THEN scan' = s /\ UNCHANGED <<gap, events, over>>
    ELSE /\ scan' = [s EXCEPT !.ready = FALSE, !.cancelToken = 0, !.token = t]
         /\ \/ /\ gap' = t /\ UNCHANGED <<events, over>>
            \/ /\ Publish(Message("failed", t))
               /\ over' = Ended(t) /\ UNCHANGED gap

\* The discovery that had to wait for the end of another.
StartQueued ==
    /\ mgr = "pending" /\ mgr' = Then
    /\ IF scan.queued # 0 /\ scan.ready /\ ~scan.cancelling /\ ~Discovering
       THEN StartScan(scan.queued, [scan EXCEPT !.queued = 0])
       ELSE UNCHANGED <<scan, gap, events, over>>
    /\ UNCHANGED <<uiVars, bgVars, commands, cmd, due, reports, terminal>>

\* ble_gap_disc_cancel() returns 0: the discovery ends, now or later.  Only a
\* comment says that its completion is then called ("GAP cancellation completes
\* asynchronously"); nothing the code calls promises it.
CancelTaken ==
    \/ UNCHANGED <<gap, due, over>>
    \/ /\ gap' = 0 /\ over' = Ended(gap)
       /\ due' = Append(due, gap) \/ (~CancelReports /\ due' = due)

NextCommand == mgr = "act" /\ mgr' = "receive" /\ UNCHANGED <<uiVars, bgVars, commands, reports, terminal>>

DoStart ==
    /\ NextCommand /\ cmd.kind = "start" /\ cmd' = NoCommand
    /\ \/ ~Discovering /\ StartScan(cmd.token, scan) /\ UNCHANGED due
       \/ /\ Discovering /\ scan.cancelling
          /\ scan' = [scan EXCEPT !.queued = cmd.token] /\ UNCHANGED <<events, gap, due, over>>
       \/ /\ Discovering /\ ~scan.cancelling /\ UNCHANGED events
          /\ \/ /\ CancelTaken
                /\ scan' = [scan EXCEPT !.queued = cmd.token, !.cancelToken = scan.token,
                                        !.cancelling = TRUE]
             \/ /\ scan' = [scan EXCEPT !.queued = cmd.token, !.cancelToken = scan.token]
                /\ UNCHANGED <<gap, due, over>>

DoCancel ==
    /\ NextCommand /\ cmd.kind = "cancel" /\ cmd' = NoCommand
    /\ \/ /\ cmd.token # scan.token
          /\ UNCHANGED <<events, scan, gap, due, over>>
       \/ /\ cmd.token = scan.token /\ ~Discovering
          /\ Publish(Message("finished", cmd.token))
          /\ scan' = [scan EXCEPT !.cancelToken = 0, !.ready = TRUE]
          /\ UNCHANGED <<gap, due, over>>
       \/ /\ cmd.token = scan.token /\ Discovering /\ CancelTaken /\ UNCHANGED events
          /\ scan' = [scan EXCEPT !.cancelToken = cmd.token, !.cancelling = TRUE]
       \/ /\ cmd.token = scan.token /\ Discovering
          /\ Publish(Message("failed", cmd.token))
          /\ UNCHANGED <<scan, gap, due, over>>

-----------------------------------------------------------------------------
(* NimBLE's host, as the manager uses it; ble_gap_event_cb() *)

Report ==
    /\ Discovering
    /\ reports' = IF Len(reports) < GapRoom THEN Append(reports, Arg(gap)) ELSE reports
    /\ reports' # reports
    /\ UNCHANGED <<uiVars, bgVars, commands, events, mgrVars, gap, due, terminal, over>>

DiscoveryEnds ==
    /\ Discovering
    /\ gap' = 0
    /\ due' = Append(due, gap) /\ over' = Ended(gap)
    /\ UNCHANGED <<uiVars, bgVars, commands, events, mgrVars, reports, terminal>>

Complete ==
    /\ due # <<>> /\ due' = Tail(due) /\ terminal' = Arg(Head(due))
    /\ UNCHANGED <<uiVars, bgVars, commands, events, mgrVars, gap, reports, over>>

-----------------------------------------------------------------------------

Pump == Submit \/ Tick \/ Ignore \/ List \/ Match \/ WindowEnds \/ SearchAnswered \/ WindUp
Manage == Receive \/ ProcessTerminal
          \/ StartQueued \/ DoStart \/ DoCancel

BleNext == BeginSearch \/ Escape \/ Pump \/ Manage \/ Report \/ DiscoveryEnds \/ Complete

\* Both tasks run for ever; a discovery lasts five seconds and is called back.
BleFairness == WF_bleVars(Pump) /\ WF_bleVars(Manage) /\ WF_bleVars(DiscoveryEnds) /\ WF_bleVars(Complete)

BleSpec == BleInit /\ [][BleNext]_bleVars /\ BleFairness

-----------------------------------------------------------------------------
\* The pointer of a window opened by now is the number of search s.
Mistakable(s) == \E w \in Base .. window : Arg(w) = s

(* A result that the user sees as the answer to a search comes from a      *)
(* discovery of that search which is over: never from the completion of an *)
(* earlier search, and of a background window only where the pointer that  *)
(* carries the token of a window makes it the number of that very search   *)
(* (s_scan_token and active_scan_token() in process_gap_event(), the token *)
(* in scan_finished()).                                                    *)
AnswerIsOwn ==
    screen = "results" /\ verdict = "finished" => search \in over \/ Mistakable(search)

\* A search ends, even if its command or its outcome is lost: the deadline
\* runs on every tick (process_ble_events()).
SearchEnds == screen = "searching" ~> screen # "searching"

\* A cancelled discovery completes, so that the manager starts scans again:
\* s_scan_cancel_pending does not stay TRUE (ble_mgr.cpp:607: "GAP cancellation
\* completes asynchronously").
CancelCompletes == scan.cancelling ~> ~scan.cancelling
=============================================================================
