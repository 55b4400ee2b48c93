# Cyberdeck 5: models, checks and proofs

This directory holds TLA+ models of the firmware under `src/`, the TLC
configurations that check them on small instances, and theorems about them that
TLAPS checks for every value of the constants. `PROJECT.json` is the index: the
runs, the lines each definition models, the hazards and the theorems.

The firmware turns an M5Stack Tab5 into a pocket terminal: a shell with local
files, Wi-Fi, SSH, Bluetooth, music and diagnostics, on FreeRTOS with LVGL. Its
own logic is in `src/components/cyberdeck` (`src/platform`, `src/apps`) and
`src/main/app_main.cpp`; the other directories of `src/components` are vendored.

## Inventory

Tasks that matter: the LVGL task (every widget callback, the keyboard after its
hand-off, the shell session), the network worker and the Wi-Fi event worker, the
ESP-IDF event task (driver events) and timer task, the SSH session task, the
Bluetooth manager task and the NimBLE host, the serial bridge and HTTP tasks,
the music player and the catalogue scan, the cat, audit, log, diagnostics, screen
and time workers, and the one-shot shutdown task with its watchdog.

| Part | State | Operations | What is hard | What makes it right | Model |
|---|---|---|---|---|---|
| SD I/O coordinator (`platform/storage`) | gate, active leases, next id, close owner | acquire, release, begin_close, drain, reopen, record failure | drain against release and reopen, two closers, id wrap | a closed gate is empty, one owner of the fence | `SdIo` |
| Power-off (`platform/power`) | controller state and stage, fence owner, watchdog, mount, signal pin | request, 16 stages, expire | the watchdog against the worker, a hung owner, late failures | power is cut only after a clean unmount, one verdict | `Poweroff`, `PowerCut` |
| LVGL dispatch (`platform/display`) | one job slot, two semaphores | run, callback | a caller that gives up, a late callback, reused tokens | one owner of the slot, a success is the caller's own frame | `LvglDispatch` |
| Network coordinator (`platform/networking`) | phase, bounded queue | session events, requests, ticks, drain | full queue, teardown order | critical items always find a place, the teardown is final | `NetCoordinator` |
| Wi-Fi manager (`apps/wifi/wifi_mgr`) | radio, configuration, token, flags, timers, scan slot, life cycle | connect, cancel, disconnect, forget, enable, scan, start, stop | five tasks, flags and queues that coalesce | commands are served, a join with the radio off is undone, scan contexts have one owner | `NetWorker`, `WifiScan` |
| Credential persistence (`apps/wifi`) | dispatcher, two queues, retry slot | driver events, pump, wipe | stale events, a failing card, wipes between steps | only networks that obtained an address are saved, none is lost, none comes back | `WifiPersistence` |
| Network store (`wifi_storage`) | `wifi.cfg` | load, add, remove | read, change, rewrite from two tasks; truncation | no change is lost | |
| Wi-Fi screens (`cyberdeck_wifi_state_machine`) | screen, selection, tokens | keys, completions, ticks | completions of earlier attempts | stale tokens change nothing | (token of the search: `WifiScan`) |
| Storage transaction, boot repair (`cyberdeck_local_shell`, `cyberdeck_app_storage`) | temporary, target, `.rollback` | write, flush, replace, repair | a reset between two steps | the old or the new text is always on the card | `SafeSave` |
| Recovery latch (`apps/system`) | interrupted boots, latch in NVS | begin boot, checkpoint, clear | a reset anywhere, a commit that fails either way | that many interrupted boots latch the safe mode | `Recovery` |
| Application runtime (`apps/runtime`) | states, grants, foreground, quotas | register, start, stop, restart, switch | failing hooks in a cascade | dependencies of a running application run, grants die with it | `AppRuntime` |
| Keyboard dispatch (`platform/input`) | queue, 8 tickets, generation | submit, callback, start, stop, invalidate | callbacks that outlive a stop | no event twice, none after a stop | `KeyboardDispatch`, `KeyDelivery` |
| Cat worker (`apps/shell`) | queue, worker, sessions, stop signal | start, request, stop, stop from the shutdown | answers and stops that come late | an accepted request is answered, to its own session | `CatWorker` |
| Event log (`platform/logging`) | state, admitted callers, two queues, two workers | write, durable write, quiesce | the quiesce against waiting callers | nothing runs after the close, a request has one owner | `EventLog` |
| Bluetooth (`apps/bluetooth`) | commands, events, screens, background windows | search, background scan, cancel | completions of superseded operations | an answer is that of the search, every search ends | `BleScan` |
| SSH client (`apps/ssh`, `cyberdeck_ui`) | one session task, question queues, event queue, epochs | connect, answer, disconnect, wait | answers typed for another session, a full queue, the handle | answers go where they were typed, the terminal heals | `SshClient` |
| Network diagnostics (`apps/network`) | one worker, request, generation | start, request, cancel, stop | a stop that gives up | no worker is forgotten | `NetDiag` |
| Time synchronisation (`apps/system`) | six atomics, a worker | start, boot ready, listener, stop | writes without a common lock | a new connection is not forgotten | `TimeSync` |
| Screen time-out (`platform/display/screen_off`) | policy, gate, queue, two keys of flash | set, save, quiesce, boot | a set inside the close, a torn pair | what was accepted is stored at the close | `ScreenTimeout` |
| Music (`apps/music`) | player worker, queue, generation, card lease, scan task | start, play, pause, halt, repeat, stop, scan, quiesce | a stop that times out, a repetition queued after a halt | silence after a halt, nothing freed in use | `Music` |
| Shell session, editors, history, scrollback | text | keys | bounds | pure functions | |
| Battery protection | votes, latch | observe, set option | hysteresis, invalid readings | the charger is off only while charging and full | |

How they meet: everything that touches the card takes a lease of the SD
coordinator (the shell's own file commands do not, and the shutdown stops them
by freezing the user interface); the shutdown stops every owner in turn and
then fences, drains and unmounts; other tasks enter LVGL through the dispatch
slot or `lv_async_call`; the Wi-Fi driver's events feed the network worker and
the credential pipeline, and both obey the connection token of the manager.

The shapes of trouble are few: a step that reads under a lock and acts after it,
a bounded queue that refuses, a callback or an event that arrives for something
that ended, a wait that expires together with the thing it waited for, and a
reset in the middle. `hazards` in `PROJECT.json` lists them at their lines.

## Modules and runs

`PROJECT.json` maps every definition to its lines. In all modules a region under
one mutex is one action; a member function that gives its mutex up, calls out
without it, or stores an atomic before it locks, is split there.

A component is a module; the modules named `MC...` put components together for
TLC. Where two components interact, one module extends or instantiates the other
(`Poweroff` extends `SdIo`, `SafeSave` extends `Recovery`, `NetWorker` uses the
operators of `NetCoordinator`). Where they share nothing as modelled, an MC module
takes their disjoint union: the variable `subject` is chosen at the start and
never changes, a behaviour moves the component it names, and the others stay in
their initial states, where their fairness asks for nothing (or is asked only of
the subject). The reachable states are those of the components side by side, so a
property of one component means what it says. The runs of such a union are one
question each about several components with one answer.

Each module has one type invariant (`...TypeOK`). Those that a proof uses are
proved; the others only fix the shape of the state and are not part of a run.

### SdIo, NetCoordinator, EventLog, SshClient (run `shutdown_parts`)

The four parts a shutdown closes.

`SdIo`: `gate`, `nextId`, `closeOwner`, `active`, `persistFailed` are the
coordinator's members; `lease` and `token` are what its callers hold. `drain` is
an entry and two ends because it waits. Three users, two closers and nine
identifiers: enough for a close while leases are held, a second closer with a
stale token, and the wrap of the counter. `LeaseAccounting`: the count is the
number of live leases and a closed gate has none.

`NetCoordinator`: each method is an operator on the object, so that a caller
which makes several calls under one lock composes them. The run uses the
firmware's own capacity of eight and reserve of four; three accepted socket errors
bound the history. `TeardownIsQueued`: a teardown that was begun keeps both its
items queued, whatever else fills the queue.

`EventLog`: the counter of admitted callers is added to before the state is read,
and both are actions; a durable request is shared by its caller and the binary
worker; `queue` and `durable` are the FreeRTOS queues; the projection of the binary
worker feeds the text worker. One plain and two durable callers, queues of one
place, two attempts and two calls of each: a full queue, a time-out that meets the
acknowledgement, and a stop that meets each of them. `RequestsAreOwned`: a request
is deleted by whichever of the two comes last. `NothingAfterClosed`: after the close
no call is inside and no worker runs. `QuiesceReturns` assumes that the workers, the
calls under way and the stop itself run, in the behaviours that move the log; nobody
has to call and no deadline has to expire. The run `event_log_drain` is described below.

`SshClient`: the session task from its creation to its end, the three question
queues, the stop flag, the handle, and the bounded queue of events between the
task and the terminal with its epochs. Two sessions with three chunks each and a
queue of two places. `AnswersAreOwn`: a session goes by what was typed for it.
`RefusedChunksAreHealed`: after a refused chunk the terminal is told to start over
before it shows a later one; its `excused` set names the two cases in which the code
does not (a head chunk evicted by a state, and losses before `ssh_connect` adopts the
epoch). `QueueOutlivesSession`: the queue is deleted after the task. A turn of the
interactive loop is `LoopTurn`, the only place that looks at the stop, and two drains:
the lines of the user, then what the server sends (stdout and stderr, two loops alike).
A drain goes on while there is something left (`EndDrain` is one of its choices, and
none that is forced), so a server that never pauses keeps the session, whatever was
asked: `StopIsHeard` says that a session asked to stop ends if its drains end, and
carries that premise itself. The fairness is of the session task outside its drains;
libssh's calls return (their time-outs are libssh's) and users never have to act.
`Chunks` bounds the numbers that tell chunks apart, not the time the server sends.

### Poweroff, PowerCut, LvglDispatch (run `poweroff`)

Two parts that promise to come back although what they wait for may hang.

`Poweroff` extends `SdIo` with the controller (`status`, `stage`), the requester,
the shutdown task, its watchdog, the clock, the tasks that use the card with and
without a lease, the event log, the mount and the pulse train. `Enter` is the
admission of a stage with its budget test, one action per kind of stage is its
`ports::run`, `Passed` and `StageFails` are the tests after it. The eleven owners
stop, fail or hang. `PowerCut` is the promise without tasks or stages: clients are
barred, the volume is unmounted when nobody is inside, the signal moves only
then, one verdict is given; `RefinesPowerCut` is checked and proved. Budget 3,
reserve 2, pulse 1 and clock 5 let the budget expire at every stage and between
the last test and the signal. `RequestResolves` assumes that the worker, the
watchdog and the clock run (they are separate FreeRTOS tasks and a hardware
timer) and nothing about the owners, any of which may hang.

`LvglDispatch`: every atomic operation on the job word is an action. Two callers,
tokens modulo three and up to five operations make a late callback meet its own
token again (the bound on operations is not a multiple of the token space, so that
the last operation is not mistaken for the first). `OneAdmission` (proved): the slot is
free, held by one caller or owed by one callback. `FrameIsOwn`: a caller told success reads
its own frame. The fairness is of the callers alone: with the LVGL task dead,
`run()` returns (`RunReturns`). `AdmissionComesBack` carries its premise itself,
that the LVGL task runs its callbacks and that they return.

### AppRuntime (runs `app_runtime`, `app_exclusive`)

The supervisor. `start_index()` and `stop_index()` recurse over dependencies and
dependents, so a call of the interface is `call` (what is left of it) and `stack`
(their frames); each hook, each section under `grant_mutex_` and each dependency
is a step, because workers copy grants (`held`) and test them at any moment. Calls
of the interface do not overlap: after the boot they come from the console. A
failing hook fails every application that waits for it (`FailAll`), a failing
teardown unwinds the call and leaves what is stopped stopped. Names are numbers in
order of registration, which is what `start_all`, `stop_all` and the recomputed
foreground follow. `app_runtime` has the firmware's shape in small (event log,
shell, Wi-Fi, a foreground application over Wi-Fi) and two services that need each
other, so that the cycle is met; `MaxGeneration`, the bound on starts, is three:
every application is started, stopped and started again. The run checks
`DependenciesRun` and `GrantNeverRevived` (and the music application below, joined by
`MCApplications`). `ConsoleIsNeverStopped` is proved instead. `CallReturns` (every call
returns if its hooks do) holds under `FairSpec` with the constants of
`MCApplications.cfg`; it is not part of the run either. The run
stops at that bound, hence `CHECK_DEADLOCK FALSE`. `app_exclusive` has a second foreground
application and the calls the console can make.

### SafeSave, Recovery, WifiPersistence, ScreenTimeout (run `storage`)

What must outlive an interruption.

`Recovery` is the record of interrupted boots in flash and its copy in memory: the
stages of `app_main()` up to the checkpoint, each save that is reported as failed
while the flash has it or not, the operator's command, a reset anywhere. `SafeSave`
extends it with one file, its temporary and its `.rollback`, two writers (the editor,
and the serial bridge, whose WRITE lease is shared), `rm`, and the repair at boot;
`link()` on FAT copies, so a reset may leave a torn file. Three interrupted boots as
in the firmware, a counter that saturates at four, three versions of the text.
`BootLoopCaught`; `NothingLost`: what was last reported as saved is complete under its
name or in its sidecar (except what somebody removed by hand during a save, see
below); `VanishedComesBack`: what the boot puts back is that content.

`WifiPersistence`: dispatcher, persistence queue and coordinator are records with an
operator per method; the manager's token, its configured network and the driver
decide what enters. Two networks, queues of two places and connection tokens up
to three: an attempt may be under way or stale while another is current. A save may
fail at every attempt; `RetriedUntilSaved` assumes that the worker runs and that the
card works at last. The branch of the event worker for a pending retry after its
timer is not reachable, because the timer's turn takes the retry first. An empty
snapshot can be queued after a wipe and is never saved; the premise of
`RetriedUntilSaved` excludes it.

`ScreenTimeout`: the command, the gate of the stop, the queue, the task, the two keys
in flash and resets. `QuiescedIsStored`: when the shutdown was told that the
persistence is closed, the last accepted time-out is in the flash.

### KeyboardDispatch, KeyDelivery, CatWorker (run `async_calls`)

Both hand heap blocks to LVGL's list of asynchronous calls, which the model runs in
any order. `KeyboardDispatch`: tickets, blocks, the queue, generations and their
exhaustion; a block that was freed may be allocated again at its address.
`BlocksAreOwned` (proved), `KeysGetThrough` (LVGL runs its calls and handlers return), and the
refinement of `KeyDelivery`, in which a key is pending, then handled once or dismissed
for good. `CatWorker`: queue, worker, delivery, start, and the two stops with their
deadlines: `QueueOutlivesWorker`, `AnswersTheAsker`, `AcceptedIsAnswered` (the worker
and LVGL run). Two submitters, three blocks, two places and three generations; three
requests and two sessions.

### NetWorker (run `net_worker`)

The worker's turn, its run of the drained item without the lock, the timers' flags,
the driver's events and the user's commands. What holds no lock throughout is split: a
command that stores a flag and then locks; the change of the manager's view by a
disconnect and its call of the driver (`RunDisconnect`, `WorkerLeaves`); and
`try_connect()`, which looks for a network (`RunRetry`) and then, without a lock, tells
the driver to join it (`WorkerJoins`; `UserJoins` where the user's own command calls
it), while the radio may be switched off and the credentials wiped in between. Which commands and session events occur is a constant: the run
has connect (with cancel and disconnect) and the switch of the radio, socket errors
from the SSH session, and a queue of five places with the reserve of four, so that
the queue is met full; "forget" is modelled and left out of the run for its size.
`SubmissionSucceeds`: a cancel or disconnect always finds its place. A retry that had
found the network may join it after the radio was switched off; `OffIsCaughtUp` says
that such a join is never left alone: while the driver joins, is associated or is about
to be told so with the radio off, a disconnect is being submitted, queued or run.
`OffGoesQuiet` assumes that the worker is a task
that runs, and that after a disconnect the driver reports the end of the association
(ESP-IDF's documented behaviour); timers and users are never assumed to act.

### WifiScan, NetDiag, TimeSync (run `network_tasks`)

`WifiScan`: the search of the shell, the request of the serial bridge and the scan
of the network worker use one driver and one place under one mutex with a time-out.
Contexts are heap addresses that are allocated again. `ContextsAreOwned`: no context
is used after its deletion or leaked. `SearchIsAnswered` and `PlaceComesBack` assume
that the tasks run and that the driver ends every scan it began. Two addresses and two
searches: a cancelled search and its successor meet the late SCAN_DONE. `NetDiag`:
`NoWorkerNoRequest` says that a worker and the request it serves are forgotten
together or not at all; its generation wraps at three. `TimeSync`: each atomic variable
is written by itself; `NoConnectionForgotten`: the tasks do not come to rest over a
connection for which no attempt was begun. Two connections, two attempts (the firmware
has three).

### BleScan (runs `ble_scan`, `ble_narrow`)

The searching half of the state machine, the background scheduler, the manager task
with its command queue, the NimBLE host that calls back late, and the event queue.
A token travels through the host as a pointer (`Arg`) and back; those of the windows
begin at 2^63 (`Base`), those of the searches at 1. The target's pointers have 32 bits,
and both runs have them: with `PtrMod = Base` the windows come back as 0, 1, 2 and so on.
`ble_scan` (`MCBleScan`) also starts with pointers that hold every token, the only case
in which the reports of a window come through to the scheduler (`Match`, `Ignore`).
`AnswerIsOwn`: an answer shown as finished belongs to a discovery of that very search
which is over, except where the pointer makes a window that was opened by then the number
of that search (`Mistakable`, a defect of the firmware described below). `SearchEnds`: no
search goes on for ever, because its deadline runs on every tick. Two searches and two
windows (the second is the one that can be mistaken), two commands, one event, one
report, patience of two ticks; one search where pointers are wide, since the width
matters only to windows. The run takes nothing for granted of a cancelled
discovery (`CancelReports = FALSE`): the host may complete it, or end it without a word.
Both tasks run, a discovery that is not cancelled ends and what is due is called back.
`ble_narrow` is described below.

### Music (run `app_runtime`)

The music application is one of those the supervisor starts and stops; the player
has a worker of its own. `player`, `requests` and `worker` are the members of
`player::impl` and the position of its `run()`; a test of the generation and what
follows it are two steps wherever the code holds no lock over both. `scan` is the
scan task with its flags, `reading` says which of the two holds a lease of the card.
The deck (the LVGL task, with the shell's commands and the touch screen) and the
shutdown both stop the player; the shutdown closes the gate of the card first and
then freezes the keyboard, while what can be touched is still obeyed. A queue of two
places (the firmware has eight: a halt empties it, and at most one repetition comes
before its own stop) and four generations: play, halt, play, and one kept for the
shutdown. `SilencedStaysSilent`: after a halt or a stop nothing of an earlier track is
shown until the next play. `SilenceComes` assumes that the worker runs: a player that
stays silenced closes its output and gives its lease back, also when it was paused or
about to repeat. `FreedIsUnused`: no worker without its queue, no scan that will give
a deleted semaphore, and after the quiesce of the shutdown nobody reads the card.

## What is proved

Every theorem is of the form `Spec => []Inv` or `Spec => [][A]_vars` (two are
refinements) and holds for every value of the constants under the named
assumptions: any number of users, callers, tasks and sessions, any length of every
queue, any number of attempts and resets. Each proof has an inductive invariant that is
a conjunction of named parts, one lemma for the preservation of each part with a step
per action, and a short temporal step. Every safety invariant a run checks is proved,
and so is every action property. No theorem has a hypothesis beyond those assumptions;
those about the Bluetooth searches hold for any width of a pointer that tells the
searches apart.

| Module | Theorem | Statement | Why it is inductive |
|---|---|---|---|
| ShutdownProofs | LeasesAreCounted, FenceHasOneOwner | the lease count; identifiers are not reused and the fence has one owner | live leases have distinct identifiers below the next one, and only a fencing closer's token equals the owner |
| ShutdownProofs | TypeCorrect, UnmountSafety, CutSafety, VerdictFinal, FencePermanent | types; exclusive unmount; safe cut; one verdict; the fence stays | the position of the worker determines what has been barred, drained and unmounted before it |
| ShutdownProofs | ShutdownImplementsPowerCut | `Spec => PowerCut!Spec` | every action is mapped to a step or a stutter under that invariant |
| DisplayProofs | TypeCorrect, AdmissionHasOneOwner, SuccessMeansOwnFrame, CallbackRunsItsPayload, CompletionIsSignalled | one owner of the slot; results and payloads are not mixed; no lost wake-up | the places of the callers, the callback and the job word are tied together by token |
| DisplayProofs | SshTypeCorrect, AnswersGoHome, QueueIsDeletedLast, LossesAreHealed | a session goes by what was typed for it; the queue is deleted after the task; after a loss the terminal starts over before it shows more | between the events sent before a missing chunk and those sent after it the epoch has grown, and the event the task would put next counts as sent |
| ApplicationsProofs | TypeCorrect, NeverRevived, DependenciesAlwaysRun | types; a revoked grant stays revoked; what a running application depends on runs | frames are those of one start or of one stop, distinct while they wait; only the innermost application is starting; the dependencies a start has behind it run, the dependents a stop has behind it do not |
| ApplicationsProofs | ConsoleStays | no call stops the application that owns the console, itself or by a cascade, whatever it depends on | whatever is being stopped or is still to be stopped is not needed by the console; what the console needs is closed under dependencies after as many steps as there are applications, since each step adds one or is the last that matters |
| ApplicationsProofs | MusicTypeCorrect, NothingFreedIsUsed, NothingSilencedIsShown | no worker without its queue, no scan that gives a deleted semaphore, no reading after the quiesce; a halted track is not shown again | no generation is ahead of the player's, and after a halt every track known of is behind it; what is open follows from where the worker and the scan are |
| TeardownProofs | CoordTypeCorrect, TeardownIsNeverLost, NoticeIsNotRepeated, CommandsAreNeverRefused, TeardownIsFinal | the teardown stays queued; notices are at most the errors; commands find a place; nothing after the end | a bound on each kind of item in the queue leaves room for the critical ones |
| TeardownProofs | LogTypeCorrect, RequestsAreNeitherLostNorShared, ClosedIsAtRest, ClosedIsProjected | a request has an owner until the last of two deletes it; nothing after the close; the projection is drained (from `EventLogLimits`) | the count of admitted callers is that of the callers inside, and the stop passes a wait only when it is zero |
| StorageProofs | TypeCorrect, SavedIsKept, TheSavedComesBack | no reported save is lost; the boot restores it | the step a writer is at says which of the three names hold the old and the new version complete |
| StorageProofs | LoopIsCaught, OnlyTheOperatorClears | that many unacknowledged boots latch safe mode; the latch is cleared by command alone (from `Limit < MaxCount`) | the count of the boots without checkpoint is at most the count in flash, but for the boot under way |
| StorageProofs | ScreenTypeCorrect, TheAcceptedIsStored | a time-out accepted before the close is in flash when the close is reported | the last accepted copy is the last of the queue, or the one being saved, or in flash; behind a closed gate the stop is the last of the queue |
| AsyncCallsProofs | TypeCorrect, OwnedOnce, TicketsAlwaysComeBack, DeliversOnce | one owner per block; a ticket in use has its call; `Spec => KeyDelivery!Spec` | calls in the list carry distinct tickets, and a block is in the queue, in one hand or free |
| AsyncCallsProofs | CatTypeCorrect, QueueIsKept, OnlyTheAskerHears, AnsweredOnce | the queue outlives the worker; an answer reaches the session that asked, once | a request is in one place, and whoever waits for it there is of the session in which it was asked for |
| NetworkTasksProofs | ScanTypeCorrect, ContextsHaveOneOwner | no scan context is used after its deletion or leaked | the four possible owners of a context exclude each other pair by pair |
| NetworkTasksProofs | DiagTypeCorrect, NoWorkerIsForgotten | a worker and its request are forgotten together | the handle is set exactly while the worker lives or has just given its semaphore |
| NetworkTasksProofs | SyncTypeCorrect, ConnectionsAreTried | a connection without attempt is on somebody's mind | it has a request raised, or a task stands at a step that raises or takes one |
| RadioProofs | WorkerTypeCorrect, CommandsFindTheirPlace, JoinsAreUndone | a cancel or disconnect is taken at once; a join with the radio off is followed by a disconnect | ordinary work stays below the reserve and each command is queued once; the user's own joins begin with the radio on, and from the switch to the end of the disconnect somebody holds it |
| RadioProofs | BleTypeCorrect, SearchHearsItsOwn | a search shown as finished is one whose own discovery is over, or one whose number the pointer of an opened window also gives | the discovery under way is the one the manager knows; a completion that is due, called or published was that of a discovery which is over, or of an opened window; a token below the pointers' width comes back as itself |

The lemmas about sequences and counts are in the module that needs them. The
assumptions on constants are named in the module that declares them and evaluated
by TLC in every run that extends it.

What the prover cannot do by itself is induction. Where it is needed (the session events
that the network worker tells the coordinator one after the other, the first application
that may be next in the foreground, the steps that find what the console needs) the modules take the least member of a set, from
the library's theorem that `<` on the naturals is well-founded; the function defined by
recursion on the number of events (`told`), and the sets that `cascade_stops_console` runs
through (`Reaching`), are shown to exist in the same way. The
modules with theorems contain no recursive operator.

Not proved, and why: liveness (`RequestResolves`, `RunReturns`,
`AdmissionComesBack`, `StopIsHeard`, `QuiesceReturns`, `OffGoesQuiet`,
`RetriedUntilSaved`, `KeysGetThrough`, `AcceptedIsAnswered`, `SearchIsAnswered`,
`PlaceComesBack`, `SearchEnds`, `CallReturns`, `SilenceComes`) needs fairness and
`ENABLED`, which the provers at hand do not treat; they are model-checked.
`WifiPersistence` has one property that holds,
and it is a liveness property.

Some properties are defined and not part of a run: those a theorem covers for every
value (`ClosedIsDrained`, `ExpiredNeverPulses`, `SentIsComplete`, `FenceIsPermanent`,
`VerdictIsFinal`, `UnmountIsExclusive`, `CutIsSafe`, `CommandsAreTaken`,
`AnnouncedAtMostOnce`, `LatchOnlyClearedByOperator`, `ClaimedPayloadIsCurrent`,
`FenceIsExclusive`, `IdsNeverReused`, `TicketsComeBack`, `ProjectionIsDrained`,
`NoLostWakeup`, `OneAdmission`, `BlocksAreOwned`, `ConsoleIsNeverStopped`), and the sentences of the repository below that the code does not keep.

## Where code and documentation disagree

Four runs end in a violation that TLC must find; each states a sentence of the
repository that the code does not keep.

- `app_exclusive`: after the stop of any other application the supervisor takes
  the shell for the active foreground, and the next switch starts a second
  foreground application beside the one that still runs.
- `ble_narrow`: on the 32-bit target the callbacks of the first background window carry
  the token 0, and the manager drops its reports and its completion. A search that
  preempts the window leaves `s_scan_cancel_pending` set for good, and every later
  search is refused without a word. The run grants what the comment says
  (`CancelReports = TRUE`): the host completes every discovery whose cancel it took.
  Where it does not, the flag stays set for any width of the pointer.
- `event_log_drain`: the binary worker tests the stop after its last look at the
  queues; an event admitted before the stop may stay in a queue that nobody reads.
- `ssh_wait`: the handle of a task that ended at once is stored after its end; every
  wait for it then fails and every later connect is refused. In the firmware those
  who wait are the runtime's stop of the application and the shutdown.
  (`cyberdeck_ui_deinit` also waits, and nothing calls it.)

These statements are kept in the modules and TLC finds each violated under the
constants given here; they are not runs:

- `WifiPersistence`, `Networks = {home, work}`, `Capacity = 2`, `MaxToken = 4`,
  `CredSpec`: `SavedWasConnected` (`WIFI.md:6-8`; a network that never obtained an
  address is saved, because the handler of GOT_IP takes the configuration of a newer
  attempt) and `ForgottenStaysForgotten` (`wifi_mgr.h:69`; a waiting snapshot writes
  a forgotten network again). `Networks = {home}`, `Capacity = 1`, `MaxToken = 2`,
  `FairCredSpec`: `RefusedGoesOn` (`cyberdeck_wifi_persistence_coordinator.cpp:49`;
  a snapshot refused by the full queue is never offered again).
- `WifiScan`, constants of `MCNetworkTasks.cfg`, `ScanSpec`: `CompletionIsOwn`
  (`wifi_mgr.cpp:1257`; the SCAN_DONE of a cancelled scan completes the next one, and
  `esp_wifi_scan_stop()` after the unlock may stop somebody else's scan).
- `SshClient`, `Sessions = 1`, `EventCapacity = 3`, `Chunks = 2`, `SshSpec`:
  `StatesOutrankData` (the comment at `cyberdeck_ui.cpp:1996`; with a state at the head
  of a full queue that state and the new one are lost while chunks remain) and
  `ActiveHasTask` (`ssh_client.h` on `is_active`; a silent `return false` in
  `verify_host_key` leaves CONNECTING without a task).

Seen while modelling, without a statement of its own:

- SSH: a server that keeps sending keeps the session task in its read loops
  (`ssh_client.cpp:366-376`, `383-393`), which do not look at the stop: the bounded waits
  for its end expire and the stop of the application and the stage of the shutdown fail.
  (`StopIsHeard` without its premise is violated under the constants of
  `shutdown_parts`.)
- Wi-Fi: a retry may join for a moment after the radio was switched off (`try_connect()`
  tests `s_has_cfg` and then calls the driver without a lock).
- A socket error that finds four items queued is not announced although the phase
  changes (the header of the network coordinator promises one notice).
- `code-map.md:1864` says that the grant is revoked before the teardown; the code
  keeps it, by a comment of its own, until the teardown has succeeded.
- The late give of a cancelled scan answers the bridge's next request
  (`cyberdeck_serial_bridge.cpp:1892`).
- `cyberdeck_local_shell.cpp:767` claims not to replace a destination that another
  writer created concurrently; between the copy of the old file and its unlink the file
  can be removed and written anew, and the new text is then the one unlinked
  (`NothingLost` excepts it). A torn `.rollback` makes later saves refuse.
  Sidecars in sub-directories are not looked for at boot.
- `app_main.cpp:84` says that the recovery state is persisted before services start; a
  failed save is reported and the boot goes on.
- Bluetooth: the second background window comes back with the token 1, the third with
  2, and so on: the completion of a window is taken for that of the search with this
  token. That is the case `AnswerIsOwn` excepts (`Mistakable`); without the exception TLC
  finds it violated under the constants of `ble_scan`, and with wide pointers alone it holds. Where
  pointers are wide, a window that met the bond is taken, at its end, for one the user
  preempted (`cyberdeck_ble_background.cpp:171` and `:197`), and the reconnection
  it was opened for is not scheduled. A background window whose SCAN_START is refused silently or overwritten keeps its slot. A late
  report after FINISHED enters the interactive list (`cyberdeck_ui.cpp:491` and
  `ble_mgr.cpp:1196` say otherwise).
- Time: `time_sync_traceability.md:75` promises one request per connection token, and
  two callers of `request_for_status` make a second one after a success; the code also
  retries. After a stop that timed out, `start()` returns `ESP_OK` without a worker. The
  load and store of `start()` (line 348) can overwrite the `ready` of `boot_ready()`,
  which may also give a semaphore that `stop()` deletes. A token whose attempts are
  exhausted is not tried again when it returns.
- Screen: a command refused by the gate or by a full queue has already changed the
  policy in force; a torn pair of keys makes the next boot take the default.
- Music: a stop that timed out leaves the player initialised and shutting down; the next
  `start()` returns true and every play is refused until a stop succeeds. A quiesce that
  failed leaves scans refused. A seek that was not taken yet applies to the next track.
  A paused player keeps its lease of the card.

## Not modelled

Components without a model, or the part of one that has none, and why
(`PROJECT.json` says it for every component):

- The network store (`wifi_storage`) is one step of `WifiPersistence` that may fail;
  the interleaving of its read, change and rewrite by two tasks is a listed hazard
  without a property. Audit and survey have a worker and a transaction of the kind
  that `CatWorker` and `SafeSave` treat.
- The Wi-Fi manager's start with its rollback and stop with its quarantine join every
  task once, in order, and call the driver in between.
- Bluetooth pairing, connecting and HID, the bond store, SSH's file of known hosts,
  what libssh does within a call: protocols of the libraries, or data.
- Wi-Fi and Bluetooth screens beyond the searches, the shell session, editors,
  history, the window manager, quotas, facades and service ports: sequential code of
  one task; much of it is pure and tested on the host.
- Battery policy and readers, keyboard driver, fonts, demo, catalogues, the
  screenshot server (its display lock is `LvglDispatch`), the rest of the serial
  bridge: tables, parsing, formatting or polling.
- Music beyond the player's control: seek, volume, order of the tracks, metadata,
  durations, diagnostics and what the codec does.
- Vendored components, build files, tools.

Within the modelled components data is abstracted to what the properties tell apart:
a text is a version, a network a name, an answer the session it was typed for; the
causes of failures, messages, durations in milliseconds and logging are left out. A
time-out is a step that may happen at any moment while the wait lasts, so that no
property depends on the length of a deadline; only the shutdown counts its budget.
