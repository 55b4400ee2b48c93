----------------------------- MODULE AppRuntime -----------------------------
(***************************************************************************)
(* The application supervisor: apps/runtime/cyberdeck_app_runtime.cpp.     *)
(* Applications start after their dependencies and stop after their        *)
(* dependents.  start_index() and stop_index() call themselves, so a call  *)
(* of the interface is a stack of frames, and every hook, every section    *)
(* under grant_mutex_ and every dependency is a step: workers copy and     *)
(* check grants in between.  Calls of the interface do not overlap.        *)
(***************************************************************************)
EXTENDS Naturals, Sequences

CONSTANTS
    Count,          \* count_: applications are numbered as they registered
    Deps,           \* manifest::dependencies
    Foreground,     \* applications of type foreground
    Console,        \* those that own the console
    NeedActive,     \* those whose commands require that they are in front
    Interface,      \* the calls that the callers make
    MaxGeneration   \* model bound: no call begins beyond this generation

Apps == 1 .. Count
NoApp == 0

ASSUME AppsAssumption ==
    /\ Count \in Nat /\ MaxGeneration \in Nat
    /\ Deps \in [Apps -> SUBSET Apps]
    /\ Foreground \subseteq Apps /\ Console \subseteq Foreground /\ NeedActive \subseteq Foreground
    /\ Interface \subseteq {"start", "switch", "line", "stop", "restart", "start_all", "stop_all"}

VARIABLES
    state,   \* states_
    gen,     \* grant_generations_
    quota,   \* applications that hold a quota
    active,  \* active_foreground_
    stack,   \* frames of start_index and stop_index, the innermost first
    call,    \* the call in progress: what is left of it
    held     \* a copy of a grant in the hands of a worker

vars == <<state, gen, quota, active, stack, call, held>>

States == {"registered", "starting", "running", "failed"}
Grants == [app : Apps \cup {NoApp}, gen : Nat]
Frames == [app : Apps, at : {"deps", "begun", "published", "dependents"}, todo : SUBSET Apps]
Calls == [op : {"idle", "start", "open", "show", "close", "stop", "restart", "start_all", "stop_all"},
          app : Apps \cup {NoApp}, todo : SUBSET Apps, ok : BOOLEAN]
Idle == [op |-> "idle", app |-> NoApp, todo |-> {}, ok |-> TRUE]

TypeOK ==
    /\ state \in [Apps -> States]
    /\ gen \in [Apps -> Nat]
    /\ quota \in SUBSET Apps
    /\ active \in Foreground \cup {NoApp}
    /\ stack \in Seq(Frames)
    /\ call \in Calls
    /\ held \in Grants

\* register_application() reserves the quota of every application.
Init ==
    /\ state = [a \in Apps |-> "registered"]
    /\ gen = [a \in Apps |-> 0]
    /\ quota = Apps
    /\ active = NoApp
    /\ stack = <<>>
    /\ call = Idle
    /\ held = [app |-> NoApp, gen |-> 0]

-----------------------------------------------------------------------------
Running(a) == state[a] = "running"
Least(S) == CHOOSE a \in S : \A b \in S : a <= b
Greatest(S) == CHOOSE a \in S : \A b \in S : b <= a
FirstOf(S) == IF S = {} THEN NoApp ELSE Least(S)
Dependents(a) == {b \in Apps : a \in Deps[b]}

\* cascade_stops_console(): applications whose stop reaches the console.
Reaching[n \in 0 .. Count] ==
    IF n = 0 THEN Console
    ELSE Reaching[n - 1] \cup UNION {Deps[a] : a \in Reaching[n - 1]}
StopsConsole(a) == a \in Reaching[Count]

\* grant::valid()
Valid(g) ==
    /\ g.app # NoApp /\ g.gen # 0
    /\ g.gen = gen[g.app]
    /\ state[g.app] \in {"starting", "running"}

RunningForeground == {a \in Foreground : Running(a)}

Refresh == active' = FirstOf(RunningForeground)

-----------------------------------------------------------------------------
(* start_index() and stop_index() *)

StartFrame(a) == [app |-> a, at |-> "deps", todo |-> Deps[a]]

\* Slip: the dependents of an application are left running.
StopFrameAlone(a) == [app |-> a, at |-> "dependents", todo |-> {}]

StopFrame(a) == [app |-> a, at |-> "dependents", todo |-> Dependents(a)]

StartFrames(a) == IF Running(a) THEN <<>> ELSE <<StartFrame(a)>>
StopFrames(a) == IF state[a] \in {"running", "failed"} THEN <<StopFrame(a)>> ELSE <<>>

Top == Head(stack)
At(p) == stack # <<>> /\ Top.at = p
OnStack == {stack[i].app : i \in DOMAIN stack}
Push(f) == stack' = <<f>> \o stack
Pop == stack' = Tail(stack)
Replace(f) == stack' = <<f>> \o Tail(stack)

\* A failure in start_index() fails every application that waits for it.
FailAll ==
    /\ state' = [a \in Apps |-> IF a \in OnStack THEN "failed" ELSE state[a]]
    /\ stack' = <<>>
    /\ call' = [call EXCEPT !.ok = FALSE]

StartDependency ==
    /\ At("deps") /\ Top.todo # {}
    /\ LET d == Least(Top.todo)
       IN IF Running(d) THEN Replace([Top EXCEPT !.todo = @ \ {d}]) /\ UNCHANGED <<state, call>>
          ELSE IF d \in OnStack THEN FailAll
          ELSE Push(StartFrame(d)) /\ UNCHANGED <<state, call>>
    /\ UNCHANGED <<gen, quota, active, held>>

BeginStart ==
    /\ At("deps") /\ Top.todo = {}
    /\ state' = [state EXCEPT ![Top.app] = "starting"]
    /\ Replace([Top EXCEPT !.at = "begun"])
    /\ UNCHANGED <<gen, quota, active, call, held>>

PublishGrant ==
    /\ At("begun")
    /\ quota' = quota \cup {Top.app}
    /\ gen' = [gen EXCEPT ![Top.app] = @ + 1]
    /\ Replace([Top EXCEPT !.at = "published"])
    /\ UNCHANGED <<state, active, call, held>>

\* init() and start() succeed.
HooksSucceed ==
    /\ At("published")
    /\ state' = [state EXCEPT ![Top.app] = "running"]
    /\ Pop
    /\ UNCHANGED <<gen, quota, active, call, held>>

HooksFail ==
    /\ At("published")
    /\ gen' = [gen EXCEPT ![Top.app] = @ + 1]
    /\ quota' = quota \ {Top.app}
    /\ FailAll
    /\ UNCHANGED <<active, held>>

StopDependent ==
    /\ At("dependents") /\ Top.todo # {}
    /\ LET d == Least(Top.todo)
       IN IF Running(d) THEN Push(StopFrame(d)) ELSE Replace([Top EXCEPT !.todo = @ \ {d}])
    /\ UNCHANGED <<state, gen, quota, active, call, held>>

\* Slip: the generation is left to the next start.
TeardownSucceedsKeepingGeneration ==
    /\ At("dependents") /\ Top.todo = {}
    /\ state' = [state EXCEPT ![Top.app] = "registered"]
    /\ quota' = quota \ {Top.app}
    /\ Pop
    /\ UNCHANGED <<gen, active, call, held>>

TeardownSucceeds ==
    /\ At("dependents") /\ Top.todo = {}
    /\ state' = [state EXCEPT ![Top.app] = "registered"]
    /\ gen' = [gen EXCEPT ![Top.app] = @ + 1]
    /\ quota' = quota \ {Top.app}
    /\ Pop
    /\ UNCHANGED <<active, call, held>>

\* The application stays what it was, with its grant, and can be stopped again.
TeardownFails ==
    /\ At("dependents") /\ Top.todo = {}
    /\ stack' = <<>>
    /\ call' = [call EXCEPT !.ok = FALSE]
    /\ UNCHANGED <<state, gen, quota, active, held>>

-----------------------------------------------------------------------------
(* The interface *)

MayCall(name) == name \in Interface /\ call.op = "idle" /\ \A a \in Apps : gen[a] < MaxGeneration

Go(op, a, frames) == call' = [Idle EXCEPT !.op = op, !.app = a] /\ stack' = frames

\* activate_foreground(), with the foreground it finds active.
Activate(a, front) ==
    LET previous == IF front # NoApp THEN front ELSE FirstOf(RunningForeground \ {a})
    IN IF Running(a) /\ previous = a
       THEN call' = Idle /\ stack' = <<>> /\ active' = front
       ELSE IF Running(a)
       THEN Go("show", a, <<>>) /\ active' = front
       ELSE IF previous \notin {NoApp, a} /\ Running(previous) /\ ~StopsConsole(previous)
       THEN Go("close", a, <<StopFrame(previous)>>) /\ active' = front
       ELSE Go("open", a, <<StartFrame(a)>>) /\ active' = IF previous = a THEN NoApp ELSE front

StartApplication(a) ==
    /\ MayCall("start")
    /\ IF a \in Foreground THEN Activate(a, active)
       ELSE Go("start", a, StartFrames(a)) /\ UNCHANGED active
    /\ UNCHANGED <<state, gen, quota, held>>

\* An application that is in front already is left alone.
SwitchForeground(a) ==
    /\ MayCall("switch")
    /\ a \in Foreground
    /\ ~(Running(a) /\ active = a)
    /\ Activate(a, active)
    /\ UNCHANGED <<state, gen, quota, held>>

\* A command line of a foreground application: bare, it opens one whose other
\* commands need it in front; those are refused or run without a change here.
ExecuteLine(a, bare) ==
    /\ MayCall("line")
    /\ a \in Foreground
    /\ bare \/ a \notin NeedActive
    /\ Activate(a, active)
    /\ UNCHANGED <<state, gen, quota, held>>

StopApplication(a) ==
    /\ MayCall("stop")
    /\ ~StopsConsole(a)
    /\ Go("stop", a, StopFrames(a))
    /\ UNCHANGED <<state, gen, quota, active, held>>

RestartApplication(a) ==
    /\ MayCall("restart")
    /\ ~StopsConsole(a)
    /\ Go("restart", a, IF Running(a) THEN <<StopFrame(a)>> ELSE <<>>)
    /\ UNCHANGED <<state, gen, quota, active, held>>

StartAll ==
    /\ MayCall("start_all")
    /\ call' = [Idle EXCEPT !.op = "start_all", !.todo = Apps \ Foreground]
    /\ UNCHANGED <<state, gen, quota, active, stack, held>>

StopAll ==
    /\ MayCall("stop_all")
    /\ call' = [Idle EXCEPT !.op = "stop_all", !.todo = {a \in Apps : ~StopsConsole(a)}]
    /\ UNCHANGED <<state, gen, quota, active, stack, held>>

-----------------------------------------------------------------------------
(* The rest of a call, when its frames have returned *)

Returned(op) == call.op = op /\ stack = <<>>
Finish == call' = Idle /\ stack' = <<>>

FinishStart ==
    /\ Returned("start")
    /\ Finish
    /\ UNCHANGED <<state, gen, quota, active, held>>

FinishOpen ==
    /\ Returned("open")
    /\ IF call.ok THEN active' = call.app ELSE Refresh
    /\ Finish
    /\ UNCHANGED <<state, gen, quota, held>>

FinishClose ==
    /\ Returned("close")
    /\ IF call.ok THEN Go("open", call.app, StartFrames(call.app)) ELSE Finish
    /\ UNCHANGED <<state, gen, quota, active, held>>

Rivals(a) == {b \in RunningForeground \ {a} : ~StopsConsole(b)}

Show ==
    /\ Returned("show")
    /\ IF ~call.ok THEN Finish /\ UNCHANGED active
       ELSE IF Rivals(call.app) = {} THEN Finish /\ active' = call.app
       ELSE Go("show", call.app, <<StopFrame(Least(Rivals(call.app)))>>) /\ UNCHANGED active
    /\ UNCHANGED <<state, gen, quota, held>>

FinishStop ==
    /\ Returned("stop")
    /\ IF call.ok THEN Refresh ELSE UNCHANGED active
    /\ Finish
    /\ UNCHANGED <<state, gen, quota, held>>

FinishRestart ==
    /\ Returned("restart")
    /\ IF ~call.ok THEN Finish /\ UNCHANGED active
       ELSE IF call.app \in Foreground THEN Activate(call.app, NoApp)
       ELSE Go("start", call.app, StartFrames(call.app)) /\ UNCHANGED active
    /\ UNCHANGED <<state, gen, quota, held>>

NextOfAll(op, a, frames) ==
    /\ call' = [Idle EXCEPT !.op = op, !.todo = call.todo \ {a}]
    /\ stack' = frames

StartNext ==
    /\ Returned("start_all")
    /\ IF call.todo = {} THEN Finish
       ELSE NextOfAll("start_all", Least(call.todo), StartFrames(Least(call.todo)))
    /\ UNCHANGED <<state, gen, quota, active, held>>

StopNext ==
    /\ Returned("stop_all")
    /\ IF call.todo = {} THEN Finish /\ Refresh
       ELSE NextOfAll("stop_all", Greatest(call.todo), StopFrames(Greatest(call.todo))) /\ UNCHANGED active
    /\ UNCHANGED <<state, gen, quota, held>>

-----------------------------------------------------------------------------
\* runtime::app_grant() by a worker at any time
AppGrant(a) ==
    /\ state[a] \in {"starting", "running"}
    /\ held' = [app |-> a, gen |-> gen[a]]
    /\ UNCHANGED <<state, gen, quota, active, stack, call>>

FrameStep ==
    \/ StartDependency \/ BeginStart \/ PublishGrant \/ HooksSucceed \/ HooksFail
    \/ StopDependent \/ TeardownSucceeds \/ TeardownFails

CallStep ==
    \/ FinishStart \/ FinishOpen \/ FinishClose \/ Show \/ FinishStop \/ FinishRestart
    \/ StartNext \/ StopNext

Next ==
    \/ FrameStep \/ CallStep
    \/ StartAll \/ StopAll
    \/ \E a \in Apps :
          \/ StartApplication(a) \/ SwitchForeground(a) \/ StopApplication(a) \/ RestartApplication(a)
          \/ (\E bare \in BOOLEAN : ExecuteLine(a, bare))
          \/ AppGrant(a)

Spec == Init /\ [][Next]_vars

\* Every hook returns.
FairSpec == Spec /\ WF_vars(FrameStep \/ CallStep)

-----------------------------------------------------------------------------
(* Properties *)

(* Whatever is started, stopped or fails halfway: an application that runs, *)
(* or whose hooks are being called, has all its dependencies running.       *)
DependenciesRun ==
    \A a \in Apps : state[a] \in {"starting", "running"} => \A d \in Deps[a] : Running(d)

(* A copied grant that was revoked once is never valid again, not even      *)
(* while the application that it names is being started anew.               *)
GrantNeverRevived ==
    [][held' = held /\ ~Valid(held) => ~Valid(held)']_vars

(* No call removes the application that owns the console, directly or by    *)
(* stopping what it depends on.                                             *)
ConsoleIsNeverStopped ==
    [][\A c \in Console : Running(c) => Running(c)']_vars

(* Every call comes back, cyclic dependencies and failing hooks included.   *)
CallReturns == call.op # "idle" ~> call.op = "idle"

(* code-map.md:1836: "Foreground execution is exclusive"; the console owner *)
(* is kept beside it.                                                       *)
ForegroundIsExclusive ==
    call.op = "idle" => \A a, b \in RunningForeground \ Console : a = b
=============================================================================
