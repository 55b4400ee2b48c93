------------------------- MODULE ApplicationsProofs -------------------------
(***************************************************************************)
(* The supervisor, for any applications and dependencies: types, that the  *)
(* dependencies of what runs run, that a revoked grant stays revoked, and  *)
(* that no call stops the application that owns the console.               *)
(* The music application, for any queue and number of tracks: types, that  *)
(* nothing is used after it was freed, and that what was silenced stays    *)
(* silent.                                                                 *)
(***************************************************************************)
EXTENDS AppRuntime, Music, FiniteSetTheorems, WellFoundedInduction, SequenceTheorems, TLAPS

USE DEF NoApp

-----------------------------------------------------------------------------
(* Choices and sequences *)

(* A set of numbers has a least one.                                       *)
LEMMA NatMin ==
    ASSUME NEW T \in SUBSET Nat, T # {}
    PROVE  \E m \in T : \A n \in T : m <= n
<1> DEFINE R == OpToRel(<, Nat)
<1>1. R = {ss \in Nat \X Nat : ss[1] < ss[2]}
    BY DEF OpToRel
<1>2. IsWellFoundedOn(R, Nat)
    BY NatLessThanWellFounded
<1> HIDE DEF R
<1>3. PICK m \in T : \A n \in T : ~ (<<n, m>> \in R)
    BY <1>2, WFMin
<1>4. \A n \in T : ~ (n < m)
    BY <1>1, <1>3
<1> QED
    BY <1>4

(* The least application of a set is one of the set.                       *)
LEMMA LeastIsIn ==
    ASSUME NEW S \in SUBSET Apps, S # {}
    PROVE  Least(S) \in S
<1>1. S \in SUBSET Nat
    BY DEF Apps
<1>2. \E a \in S : \A b \in S : a <= b
    BY <1>1, NatMin
<1> QED
    BY <1>2 DEF Least

(* The greatest application of a set is one of the set.                    *)
LEMMA GreatestIsIn ==
    ASSUME NEW S \in SUBSET Apps, S # {}
    PROVE  Greatest(S) \in S
<1> DEFINE T == {Count - a : a \in S}
<1>1. Count \in Nat
    BY AppsAssumption
<1>2. \A a \in S : a \in Nat /\ a <= Count
    BY <1>1 DEF Apps
<1>3. \A a \in S : Count - a \in Nat
    BY <1>1, <1>2
<1>4. T \in SUBSET Nat /\ T # {}
    BY <1>3
<1>5. PICK m \in T : \A n \in T : m <= n
    BY <1>4, NatMin
<1>6. PICK a \in S : m = Count - a
    BY <1>5
<1>7. \A b \in S : b <= a
    <2> TAKE b \in S
    <2>1. m <= Count - b
        BY <1>5
    <2>2. a \in Nat /\ b \in Nat
        BY <1>2
    <2> QED
        BY <2>1, <2>2, <1>1, <1>6
<1>8. \E x \in S : \A b \in S : b <= x
    BY <1>7
<1> QED
    BY <1>8 DEF Greatest

(* What a push and a pop leave at each place.                              *)
LEMMA Pushed ==
    ASSUME NEW S, NEW s \in Seq(S), NEW f \in S
    PROVE  /\ <<f>> \o s \in Seq(S)
           /\ Len(<<f>> \o s) = Len(s) + 1
           /\ (<<f>> \o s)[1] = f
           /\ \A i \in 1 .. Len(s) + 1 : i # 1 => i - 1 \in 1 .. Len(s) /\ (<<f>> \o s)[i] = s[i - 1]
    OBVIOUS

\* What is left after a pop, and what was on top.
LEMMA Popped ==
    ASSUME NEW S, NEW s \in Seq(S), s # <<>>
    PROVE  /\ Tail(s) \in Seq(S)
           /\ Len(Tail(s)) = Len(s) - 1
           /\ \A i \in 1 .. Len(s) - 1 : i + 1 \in 1 .. Len(s) /\ Tail(s)[i] = s[i + 1]
           /\ Head(s) = s[1] /\ s[1] \in S /\ Len(s) > 0
    OBVIOUS

(* A replaced top.                                                         *)
LEMMA Replaced ==
    ASSUME NEW S, NEW s \in Seq(S), s # <<>>, NEW f \in S
    PROVE  /\ <<f>> \o Tail(s) \in Seq(S)
           /\ Len(<<f>> \o Tail(s)) = Len(s)
           /\ (<<f>> \o Tail(s))[1] = f
           /\ \A i \in 1 .. Len(s) : i # 1 => (<<f>> \o Tail(s))[i] = s[i]
<1>1. /\ Tail(s) \in Seq(S) /\ Len(Tail(s)) = Len(s) - 1 /\ Len(s) > 0
      /\ \A i \in 1 .. Len(s) - 1 : Tail(s)[i] = s[i + 1]
    BY Popped
<1>2. /\ <<f>> \o Tail(s) \in Seq(S)
      /\ Len(<<f>> \o Tail(s)) = Len(s)
      /\ (<<f>> \o Tail(s))[1] = f
      /\ \A i \in 1 .. Len(s) : i # 1 => i - 1 \in 1 .. Len(s) - 1 /\ (<<f>> \o Tail(s))[i] = Tail(s)[i - 1]
    BY <1>1, Pushed
<1>3. \A i \in 1 .. Len(s) : i # 1 => (<<f>> \o Tail(s))[i] = s[i]
    <2> TAKE i \in 1 .. Len(s)
    <2> HAVE i # 1
    <2>1. i - 1 \in 1 .. Len(s) - 1 /\ (i - 1) + 1 = i
        BY <1>2, <1>1
    <2> QED
        BY <2>1, <1>1, <1>2
<1> QED
    BY <1>2, <1>3
-----------------------------------------------------------------------------
(* The invariant *)

\* A call that is over has left no frame.
IdleIsEmpty == call.op = "idle" => stack = <<>>

\* A call names the application that it goes on with.
Named(c) ==
    /\ c.op \in {"open", "show", "close"} => c.app \in Foreground
    /\ c.op \in {"start", "stop", "restart"} => c.app \in Apps

\* The frames of a stop, or those of a start: the ones that wait for a
\* dependency are of distinct applications that do not run.
Stopping == \A i \in 1 .. Len(stack) : stack[i].at = "dependents"
Starting ==
    /\ \A i \in 1 .. Len(stack) : stack[i].at # "dependents"
    /\ \A i \in 1 .. Len(stack) : i # 1 => stack[i].at = "deps"
    /\ \A i \in 1 .. Len(stack) : stack[i].at = "deps" => state[stack[i].app] \in {"registered", "failed"}
    /\ \A i, j \in 1 .. Len(stack) : stack[i].app = stack[j].app => i = j
OneKind == Stopping \/ Starting

\* An application is starting exactly while the innermost frame starts it.
StartingIsTop ==
    \A a \in Apps : state[a] = "starting"
        <=> stack # <<>> /\ stack[1].app = a /\ stack[1].at \in {"begun", "published"}

\* The copied grant is of this cycle or an earlier one, and of an earlier one
\* when the application is out of its cycle.
Revoked ==
    held.app # NoApp =>
        /\ held.gen <= gen[held.app]
        /\ state[held.app] \in {"registered", "failed"} => held.gen < gen[held.app]

Inv == TypeOK /\ IdleIsEmpty /\ Named(call) /\ OneKind /\ StartingIsTop /\ Revoked

\* Registered applications without a call satisfy the invariant.
LEMMA InitInv == Init => Inv
<1> SUFFICES ASSUME Init PROVE Inv
    OBVIOUS
<1> USE DEF Init
<1>1. TypeOK
    BY DEF TypeOK, States, Grants, Calls, Idle, Frames
<1>2. IdleIsEmpty /\ Named(call) /\ OneKind /\ StartingIsTop /\ Revoked
    BY DEF IdleIsEmpty, Named, Idle, OneKind, Stopping, StartingIsTop, Revoked
<1> QED
    BY <1>1, <1>2 DEF Inv

-----------------------------------------------------------------------------
(* Steps of the calls *)

\* What every step does that begins a call or goes on with one.
NewStack ==
    \/ stack' = <<>>
    \/ call'.op # "idle" /\ \E b \in Apps : stack' = <<StopFrame(b)>>
    \/ call'.op # "idle" /\ \E b \in Apps : ~Running(b) /\ stack' = <<StartFrame(b)>>
CallEffect ==
    /\ stack = <<>>
    /\ UNCHANGED <<state, gen, quota, held>>
    /\ call' \in Calls /\ Named(call')
    /\ active' \in Foreground \cup {NoApp}
    /\ NewStack

\* The frames that a call pushes are frames.
LEMMA FramesAreTyped ==
    ASSUME NEW a \in Apps
    PROVE  StartFrame(a) \in Frames /\ StopFrame(a) \in Frames
BY AppsAssumption DEF StartFrame, StopFrame, Frames, Dependents

\* The first of a set of foreground applications is one of them, or none.
LEMMA FirstForegroundTyped ==
    ASSUME NEW S \in SUBSET Foreground
    PROVE  FirstOf(S) \in S \cup {NoApp}
<1>1. S \in SUBSET Apps
    BY AppsAssumption
<1> QED
    BY <1>1, LeastIsIn DEF FirstOf

\* A call that goes on with any application.
LEMMA GoTyped ==
    ASSUME NEW op \in {"start", "stop", "restart"}, NEW a \in Apps, NEW f, Go(op, a, f)
    PROVE  call' \in Calls /\ Named(call') /\ call'.op # "idle" /\ stack' = f
BY DEF Go, Calls, Idle, Named

\* A call that goes on with a foreground application.
LEMMA GoForeground ==
    ASSUME NEW op \in {"open", "show", "close"}, NEW a \in Foreground, NEW f, Go(op, a, f)
    PROVE  call' \in Calls /\ Named(call') /\ call'.op # "idle" /\ stack' = f
BY AppsAssumption DEF Go, Calls, Idle, Named

\* A call that is over.
LEMMA FinishTyped == Finish => call' \in Calls /\ Named(call') /\ stack' = <<>>
BY DEF Finish, Calls, Idle, Named

\* A start pushes a frame only for an application that does not run.
LEMMA FramesToStart ==
    ASSUME NEW a \in Apps
    PROVE  StartFrames(a) = <<>> \/ (~Running(a) /\ StartFrames(a) = <<StartFrame(a)>>)
BY DEF StartFrames

\* A stop pushes one frame or none.
LEMMA FramesToStop ==
    ASSUME NEW a \in Apps
    PROVE  StopFrames(a) = <<>> \/ StopFrames(a) = <<StopFrame(a)>>
BY DEF StopFrames

\* Every branch of activate_foreground() leaves a well-formed call.
LEMMA ActivateEffect ==
    ASSUME NEW a \in Foreground, NEW front \in Foreground \cup {NoApp}, Activate(a, front)
    PROVE  call' \in Calls /\ Named(call') /\ active' \in Foreground \cup {NoApp} /\ NewStack
<1> DEFINE previous == IF front # NoApp THEN front ELSE FirstOf(RunningForeground \ {a})
<1>1. a \in Apps /\ Foreground \subseteq Apps
    BY AppsAssumption
<1>2. previous \in Apps \cup {NoApp}
    BY <1>1, FirstForegroundTyped DEF RunningForeground
<1> HIDE DEF previous
<1>3. \/ call' = Idle /\ stack' = <<>> /\ active' = front
      \/ Go("show", a, <<>>) /\ active' = front
      \/ previous # NoApp /\ Go("close", a, <<StopFrame(previous)>>) /\ active' = front
      \/ ~Running(a) /\ Go("open", a, <<StartFrame(a)>>) /\ active' \in {NoApp, front}
    BY DEF Activate, previous
<1>4. active' \in Foreground \cup {NoApp}
    BY <1>3
<1>5. CASE call' = Idle /\ stack' = <<>>
    BY <1>5, <1>4 DEF NewStack, Calls, Idle, Named
<1>6. CASE Go("show", a, <<>>)
    BY <1>6, <1>4, <1>1, GoForeground DEF NewStack
<1>7. CASE previous # NoApp /\ Go("close", a, <<StopFrame(previous)>>)
    <2>1. call' \in Calls /\ Named(call') /\ call'.op # "idle" /\ stack' = <<StopFrame(previous)>>
        BY <1>7, <1>1, GoForeground
    <2> QED
        BY <2>1, <1>7, <1>2, <1>4 DEF NewStack
<1>8. CASE ~Running(a) /\ Go("open", a, <<StartFrame(a)>>)
    <2>1. call' \in Calls /\ Named(call') /\ call'.op # "idle" /\ stack' = <<StartFrame(a)>>
        BY <1>8, <1>1, GoForeground
    <2> QED
        BY <2>1, <1>8, <1>1, <1>4 DEF NewStack
<1> QED
    BY <1>3, <1>5, <1>6, <1>7, <1>8

\* Beginning a call.
Begin(a) ==
    \/ StartAll \/ StopAll
    \/ StartApplication(a) \/ SwitchForeground(a) \/ StopApplication(a) \/ RestartApplication(a)
    \/ \E bare \in BOOLEAN : ExecuteLine(a, bare)

\* Every call of the interface begins with the effect of CallEffect.
LEMMA BeginEffect ==
    ASSUME TypeOK, IdleIsEmpty, NEW a \in Apps, Begin(a)
    PROVE  CallEffect
<1>0. stack = <<>> /\ active \in Foreground \cup {NoApp}
    BY DEF TypeOK, IdleIsEmpty, Begin, StartAll, StopAll, StartApplication, SwitchForeground, StopApplication,
           RestartApplication, ExecuteLine, MayCall
<1>1. CASE StartAll
    <2>1. call' \in Calls /\ Named(call')
        BY <1>1 DEF StartAll, Calls, Idle, Named
    <2> QED
        BY <1>0, <1>1, <2>1 DEF StartAll, CallEffect, NewStack
<1>2. CASE StopAll
    <2>1. call' \in Calls /\ Named(call')
        BY <1>2 DEF StopAll, Calls, Idle, Named
    <2> QED
        BY <1>0, <1>2, <2>1 DEF StopAll, CallEffect, NewStack
<1>3. CASE StartApplication(a)
    <2>1. CASE a \in Foreground
        BY <1>0, <1>3, <2>1, ActivateEffect DEF StartApplication, CallEffect
    <2>2. CASE a \notin Foreground
        <3>1. Go("start", a, StartFrames(a)) /\ active' = active /\ UNCHANGED <<state, gen, quota, held>>
            BY <1>3, <2>2 DEF StartApplication
        <3>2. call' \in Calls /\ Named(call') /\ call'.op # "idle" /\ stack' = StartFrames(a)
            BY <3>1, GoTyped
        <3> QED
            BY <1>0, <3>1, <3>2, FramesToStart DEF CallEffect, NewStack
    <2> QED
        BY <2>1, <2>2
<1>4. CASE SwitchForeground(a)
    BY <1>0, <1>4, ActivateEffect DEF SwitchForeground, CallEffect
<1>5. CASE StopApplication(a)
    <2>1. call' \in Calls /\ Named(call') /\ call'.op # "idle" /\ stack' = StopFrames(a)
        BY <1>5, GoTyped DEF StopApplication
    <2> QED
        BY <1>0, <1>5, <2>1, FramesToStop DEF StopApplication, CallEffect, NewStack
<1>6. CASE RestartApplication(a)
    <2>1. Go("restart", a, <<StopFrame(a)>>) \/ Go("restart", a, <<>>)
        BY <1>6 DEF RestartApplication
    <2>2. call' \in Calls /\ Named(call') /\ call'.op # "idle" /\ (stack' = <<StopFrame(a)>> \/ stack' = <<>>)
        BY <2>1, GoTyped
    <2> QED
        BY <1>0, <1>6, <2>2 DEF RestartApplication, CallEffect, NewStack
<1>7. ASSUME NEW bare \in BOOLEAN, ExecuteLine(a, bare) PROVE CallEffect
    BY <1>0, <1>7, ActivateEffect DEF ExecuteLine, CallEffect
<1> QED
    BY <1>1, <1>2, <1>3, <1>4, <1>5, <1>6, <1>7 DEF Begin

\* The recomputed foreground is a foreground application or none.
LEMMA RefreshTyped == Refresh => active' \in Foreground \cup {NoApp}
<1>1. RunningForeground \in SUBSET Foreground
    BY DEF RunningForeground
<1> QED
    BY <1>1, FirstForegroundTyped DEF Refresh

\* start_all and stop_all go on with one application.
LEMMA NextOfAllEffect ==
    ASSUME TypeOK, NEW op \in {"start_all", "stop_all"}, NEW a \in Apps, NEW f, NextOfAll(op, a, f)
    PROVE  call' \in Calls /\ Named(call') /\ call'.op # "idle" /\ stack' = f
BY DEF TypeOK, NextOfAll, Calls, Idle, Named

\* Every later part of a call has the effect of CallEffect.
LEMMA CallStepEffect ==
    ASSUME TypeOK, Named(call), CallStep
    PROVE  CallEffect
<1>0. stack = <<>> /\ active \in Foreground \cup {NoApp} /\ call.todo \in SUBSET Apps
    BY DEF TypeOK, Calls, CallStep, FinishStart, FinishOpen, FinishClose, Show, FinishStop, FinishRestart,
           StartNext, StopNext, Returned
<1>1. CASE FinishStart
    BY <1>0, <1>1, FinishTyped DEF FinishStart, CallEffect, NewStack
<1>2. CASE FinishOpen
    <2>1. active' \in Foreground \cup {NoApp}
        BY <1>2, RefreshTyped DEF FinishOpen, Named, Returned
    <2> QED
        BY <1>0, <1>2, <2>1, FinishTyped DEF FinishOpen, CallEffect, NewStack
<1>3. CASE FinishClose
    <2>1. CASE call.ok
        <3>1. PICK a \in Foreground : a = call.app
            BY <1>3 DEF FinishClose, Named, Returned
        <3>2. Go("open", a, StartFrames(a))
            BY <1>3, <2>1, <3>1 DEF FinishClose
        <3>3. call' \in Calls /\ Named(call') /\ call'.op # "idle" /\ stack' = StartFrames(a)
            BY <3>2, GoForeground
        <3>4. a \in Apps
            BY AppsAssumption
        <3> QED
            BY <1>0, <1>3, <3>3, <3>4, FramesToStart DEF FinishClose, CallEffect, NewStack
    <2>2. CASE ~call.ok
        BY <1>0, <1>3, <2>2, FinishTyped DEF FinishClose, CallEffect, NewStack
    <2> QED
        BY <2>1, <2>2
<1>4. CASE Show
    <2>1. PICK a \in Foreground : a = call.app
        BY <1>4 DEF Show, Named, Returned
    <2>2. CASE ~call.ok
        BY <1>0, <1>4, <2>2, FinishTyped DEF Show, CallEffect, NewStack
    <2>3. CASE call.ok /\ Rivals(a) = {}
        BY <1>0, <1>4, <2>1, <2>3, FinishTyped DEF Show, CallEffect, NewStack
    <2>4. CASE call.ok /\ Rivals(a) # {}
        <3>1. Rivals(a) \in SUBSET Apps
            BY AppsAssumption DEF Rivals, RunningForeground
        <3>2. PICK b \in Apps : b = Least(Rivals(a))
            BY <3>1, <2>4, LeastIsIn
        <3>3. Go("show", a, <<StopFrame(b)>>) /\ active' = active /\ UNCHANGED <<state, gen, quota, held>>
            BY <1>4, <2>1, <2>4, <3>2 DEF Show
        <3>4. call' \in Calls /\ Named(call') /\ call'.op # "idle" /\ stack' = <<StopFrame(b)>>
            BY <3>3, GoForeground
        <3> QED
            BY <1>0, <3>3, <3>4 DEF CallEffect, NewStack
    <2> QED
        BY <2>2, <2>3, <2>4
<1>5. CASE FinishStop
    <2>1. active' \in Foreground \cup {NoApp}
        BY <1>0, <1>5, RefreshTyped DEF FinishStop
    <2> QED
        BY <1>0, <1>5, <2>1, FinishTyped DEF FinishStop, CallEffect, NewStack
<1>6. CASE FinishRestart
    <2>1. PICK a \in Apps : a = call.app
        BY <1>6 DEF FinishRestart, Named, Returned
    <2>2. CASE ~call.ok
        BY <1>0, <1>6, <2>2, FinishTyped DEF FinishRestart, CallEffect, NewStack
    <2>3. CASE call.ok /\ a \in Foreground
        <3>1. Activate(a, NoApp) /\ UNCHANGED <<state, gen, quota, held>>
            BY <1>6, <2>1, <2>3 DEF FinishRestart
        <3> QED
            BY <1>0, <2>3, <3>1, ActivateEffect DEF CallEffect
    <2>4. CASE call.ok /\ a \notin Foreground
        <3>1. Go("start", a, StartFrames(a)) /\ active' = active /\ UNCHANGED <<state, gen, quota, held>>
            BY <1>6, <2>1, <2>4 DEF FinishRestart
        <3>2. call' \in Calls /\ Named(call') /\ call'.op # "idle" /\ stack' = StartFrames(a)
            BY <3>1, GoTyped
        <3> QED
            BY <1>0, <3>1, <3>2, FramesToStart DEF CallEffect, NewStack
    <2> QED
        BY <2>2, <2>3, <2>4
<1>7. CASE StartNext
    <2>1. CASE call.todo = {}
        BY <1>0, <1>7, <2>1, FinishTyped DEF StartNext, CallEffect, NewStack
    <2>2. CASE call.todo # {}
        <3>1. PICK a \in Apps : a = Least(call.todo)
            BY <1>0, <2>2, LeastIsIn
        <3>2. NextOfAll("start_all", a, StartFrames(a)) /\ UNCHANGED <<state, gen, quota, active, held>>
            BY <1>7, <2>2, <3>1 DEF StartNext
        <3>3. call' \in Calls /\ Named(call') /\ call'.op # "idle" /\ stack' = StartFrames(a)
            BY <3>2, NextOfAllEffect
        <3> QED
            BY <1>0, <3>2, <3>3, FramesToStart DEF CallEffect, NewStack
    <2> QED
        BY <2>1, <2>2
<1>8. CASE StopNext
    <2>1. CASE call.todo = {}
        <3>1. active' \in Foreground \cup {NoApp}
            BY <1>8, <2>1, RefreshTyped DEF StopNext
        <3> QED
            BY <1>0, <1>8, <2>1, <3>1, FinishTyped DEF StopNext, CallEffect, NewStack
    <2>2. CASE call.todo # {}
        <3>1. PICK a \in Apps : a = Greatest(call.todo)
            BY <1>0, <2>2, GreatestIsIn
        <3>2. NextOfAll("stop_all", a, StopFrames(a)) /\ UNCHANGED <<state, gen, quota, active, held>>
            BY <1>8, <2>2, <3>1 DEF StopNext
        <3>3. call' \in Calls /\ Named(call') /\ call'.op # "idle" /\ stack' = StopFrames(a)
            BY <3>2, NextOfAllEffect
        <3> QED
            BY <1>0, <3>2, <3>3, FramesToStop DEF CallEffect, NewStack
    <2> QED
        BY <2>1, <2>2
<1> QED
    BY <1>1, <1>2, <1>3, <1>4, <1>5, <1>6, <1>7, <1>8 DEF CallStep

\* That effect preserves the invariant.
LEMMA CallKeepsInv ==
    ASSUME Inv, CallEffect
    PROVE  Inv'
<1>0. TypeOK /\ StartingIsTop /\ stack = <<>> /\ NewStack /\ UNCHANGED <<state, gen, quota, held>>
    BY DEF Inv, CallEffect
<1>1. \A a \in Apps : state[a] # "starting"
    BY <1>0 DEF StartingIsTop
<1>2. CASE stack' = <<>>
    <2>1. TypeOK'
        BY <1>0, <1>2 DEF TypeOK, CallEffect
    <2>2. (OneKind /\ StartingIsTop)'
        BY <1>0, <1>1, <1>2 DEF OneKind, Stopping, StartingIsTop
    <2> QED
        BY <2>1, <2>2, <1>0, <1>2 DEF Inv, IdleIsEmpty, Revoked, CallEffect
<1>3. ASSUME call'.op # "idle", NEW b \in Apps, stack' = <<StopFrame(b)>>
      PROVE  Inv'
    <2>1. stack' \in Seq(Frames) /\ Len(stack') = 1 /\ stack'[1] = StopFrame(b)
        BY <1>3, FramesAreTyped
    <2>2. TypeOK'
        BY <1>0, <2>1 DEF TypeOK, CallEffect
    <2>3. (OneKind /\ StartingIsTop)'
        BY <1>0, <1>1, <2>1 DEF OneKind, Stopping, StartingIsTop, StopFrame
    <2> QED
        BY <2>2, <2>3, <1>0, <1>3 DEF Inv, IdleIsEmpty, Revoked, CallEffect
<1>4. ASSUME call'.op # "idle", NEW b \in Apps, ~Running(b), stack' = <<StartFrame(b)>>
      PROVE  Inv'
    <2>1. stack' \in Seq(Frames) /\ Len(stack') = 1 /\ stack'[1] = StartFrame(b)
        BY <1>4, FramesAreTyped
    <2>2. TypeOK'
        BY <1>0, <2>1 DEF TypeOK, CallEffect
    <2>3. state[b] \in {"registered", "failed"}
        BY <1>0, <1>1, <1>4 DEF TypeOK, States, Running
    <2>4. Starting'
        BY <1>0, <2>1, <2>3 DEF Starting, StartFrame
    <2>5. StartingIsTop'
        BY <1>0, <1>1, <2>1 DEF StartingIsTop, StartFrame
    <2> QED
        BY <2>2, <2>4, <2>5, <1>0, <1>4 DEF Inv, OneKind, IdleIsEmpty, Revoked, CallEffect
<1> QED
    BY <1>0, <1>2, <1>3, <1>4 DEF NewStack

-----------------------------------------------------------------------------
(* Steps of the frames *)

\* The top of the stack is a frame, its first.
LEMMA TopIsFirst ==
    ASSUME TypeOK, stack # <<>>
    PROVE  Top = stack[1] /\ Top \in Frames /\ Top.app \in Apps /\ Top.todo \in SUBSET Apps /\ Len(stack) > 0
<1>1. stack \in Seq(Frames)
    BY DEF TypeOK
<1>2. Head(stack) = stack[1] /\ stack[1] \in Frames /\ Len(stack) > 0
    BY <1>1, Popped
<1> QED
    BY <1>2 DEF Top, Frames

\* Frames belong to a call in progress.
LEMMA BusyIsNotIdle == Inv /\ stack # <<>> => call.op # "idle"
BY DEF Inv, IdleIsEmpty

\* The top frame gives way to f, of the same application.
LEMMA ReplaceTyped ==
    ASSUME TypeOK, stack # <<>>, NEW f \in Frames, f.app = Top.app, Replace(f)
    PROVE  /\ stack' \in Seq(Frames) /\ stack' # <<>> /\ Len(stack') = Len(stack)
           /\ stack'[1] = f
           /\ \A i \in 1 .. Len(stack) : i # 1 => stack'[i] = stack[i]
           /\ \A i \in 1 .. Len(stack) : stack'[i].app = stack[i].app
<1>1. stack \in Seq(Frames)
    BY DEF TypeOK
<1>2. /\ stack' \in Seq(Frames) /\ Len(stack') = Len(stack) /\ stack'[1] = f
      /\ \A i \in 1 .. Len(stack) : i # 1 => stack'[i] = stack[i]
    BY <1>1, Replaced DEF Replace
<1>3. Len(stack) > 0 /\ Top = stack[1]
    BY TopIsFirst
<1> QED
    BY <1>2, <1>3

\* What a failure leaves: no frame, and the applications of a start failed.
LEMMA FailAllEffect ==
    ASSUME Inv, stack # <<>>, Starting, FailAll
    PROVE  /\ state' \in [Apps -> States]
           /\ \A a \in Apps : state'[a] # "starting"
           /\ \A a \in Apps : state'[a] \in {"registered", "failed"}
                   => state[a] \in {"registered", "failed"} \/ (state[a] = "starting" /\ a = Top.app)
           /\ \A a \in Apps : state'[a] = "running" => state[a] = "running"
           /\ stack' = <<>> /\ call' \in Calls /\ Named(call')
<1>1. TypeOK /\ StartingIsTop /\ Named(call)
    BY DEF Inv
<1>2. Top = stack[1] /\ Top \in Frames /\ Len(stack) > 0 /\ stack \in Seq(Frames)
    BY <1>1, TopIsFirst DEF TypeOK
<1>3. OnStack = {stack[i].app : i \in 1 .. Len(stack)}
    BY <1>2 DEF OnStack
<1>4. \A a \in OnStack : state[a] \in {"registered", "failed"} \/ (state[a] = "starting" /\ a = Top.app)
    <2> SUFFICES ASSUME NEW i \in 1 .. Len(stack)
                 PROVE  \/ state[stack[i].app] \in {"registered", "failed"}
                        \/ state[stack[i].app] = "starting" /\ stack[i].app = Top.app
        BY <1>3
    <2>1. CASE stack[i].at = "deps"
        BY <2>1 DEF Starting
    <2>2. CASE stack[i].at # "deps"
        <3>1. i = 1 /\ stack[1].at # "deps" /\ stack[1].at # "dependents"
            BY <2>2, <1>2 DEF Starting
        <3>2. stack[1].at \in {"begun", "published"} /\ stack[1].app \in Apps
            BY <3>1, <1>2 DEF Frames
        <3>3. state[stack[1].app] = "starting"
            BY <3>2, <1>1 DEF StartingIsTop
        <3> QED
            BY <3>1, <3>3, <1>2
    <2> QED
        BY <2>1, <2>2
<1>5. Top.app \in OnStack
    BY <1>2, <1>3
<1>6. \A a \in Apps : state[a] = "starting" => a \in OnStack
    BY <1>1, <1>2, <1>5 DEF StartingIsTop
<1>7. state' = [a \in Apps |-> IF a \in OnStack THEN "failed" ELSE state[a]]
    BY DEF FailAll
<1>8. call' \in Calls /\ Named(call') /\ stack' = <<>>
    BY <1>1 DEF FailAll, TypeOK, Calls, Named
<1> QED
    BY <1>1, <1>4, <1>6, <1>7, <1>8 DEF TypeOK, States

\* Replacing the top by a frame that waits for less changes nothing else.
LEMMA WaitingKeepsInv ==
    ASSUME Inv, stack # <<>>, NEW f \in Frames, f.app = Top.app, f.at = Top.at, Replace(f),
           UNCHANGED <<state, gen, quota, active, call, held>>
    PROVE  Inv'
<1>1. TypeOK /\ OneKind /\ StartingIsTop
    BY DEF Inv
<1>2. /\ stack' \in Seq(Frames) /\ stack' # <<>> /\ Len(stack') = Len(stack)
      /\ stack'[1] = f
      /\ \A i \in 1 .. Len(stack) : i # 1 => stack'[i] = stack[i]
      /\ \A i \in 1 .. Len(stack) : stack'[i].app = stack[i].app
    BY <1>1, ReplaceTyped
<1>3. Top = stack[1] /\ Len(stack) > 0
    BY <1>1, TopIsFirst
<1>4. \A i \in 1 .. Len(stack) : stack'[i].at = stack[i].at
    BY <1>2, <1>3
<1>5. TypeOK'
    BY <1>1, <1>2 DEF TypeOK
<1>6. Stopping => Stopping'
    BY <1>2, <1>4 DEF Stopping
<1>7. Starting => Starting'
    BY <1>2, <1>4 DEF Starting
<1>8. StartingIsTop'
    BY <1>1, <1>2, <1>3 DEF StartingIsTop
<1> QED
    BY <1>1, <1>5, <1>6, <1>7, <1>8, BusyIsNotIdle DEF Inv, OneKind, IdleIsEmpty, Revoked

\* Pushing a stop on a stop, a start on a start.
LEMMA PushTyped ==
    ASSUME TypeOK, NEW f \in Frames, Push(f)
    PROVE  /\ stack' \in Seq(Frames) /\ stack' # <<>> /\ Len(stack') = Len(stack) + 1 /\ Len(stack) \in Nat
           /\ stack'[1] = f
           /\ \A i \in 1 .. Len(stack') : i # 1 => i - 1 \in 1 .. Len(stack) /\ stack'[i] = stack[i - 1]
<1>1. stack \in Seq(Frames)
    BY DEF TypeOK
<1>2. /\ <<f>> \o stack \in Seq(Frames) /\ Len(<<f>> \o stack) = Len(stack) + 1 /\ (<<f>> \o stack)[1] = f
      /\ \A i \in 1 .. Len(stack) + 1 : i # 1 => i - 1 \in 1 .. Len(stack) /\ (<<f>> \o stack)[i] = stack[i - 1]
    BY <1>1, Pushed
<1>3. Len(stack) \in Nat
    BY <1>1
<1> QED
    BY <1>2, <1>3 DEF Push

\* The frames that are left by a pop.
LEMMA PopTyped ==
    ASSUME TypeOK, stack # <<>>, Pop
    PROVE  /\ stack' \in Seq(Frames) /\ Len(stack') = Len(stack) - 1 /\ Len(stack) \in Nat
           /\ \A i \in 1 .. Len(stack') : i + 1 \in 1 .. Len(stack) /\ i + 1 # 1 /\ stack'[i] = stack[i + 1]
<1>1. stack \in Seq(Frames)
    BY DEF TypeOK
<1> QED
    BY <1>1, Popped DEF Pop

\* A dependency is passed, closes a cycle or is started first.
LEMMA StartDependencyKeeps == Inv /\ StartDependency => Inv'
<1> SUFFICES ASSUME Inv, StartDependency PROVE Inv'
    OBVIOUS
<1>1. TypeOK /\ OneKind /\ StartingIsTop /\ stack # <<>> /\ Top.at = "deps" /\ UNCHANGED <<gen, quota, active, held>>
    BY DEF Inv, StartDependency, At
<1>2. Top = stack[1] /\ Top \in Frames /\ Top.app \in Apps /\ Top.todo \in SUBSET Apps /\ Len(stack) > 0
    BY <1>1, TopIsFirst
<1>3. Starting
    BY <1>1, <1>2 DEF OneKind, Stopping
<1>4. PICK d \in Top.todo : d = Least(Top.todo)
    BY <1>2, LeastIsIn DEF StartDependency
<1>5. \A a \in Apps : state[a] # "starting"
    BY <1>1, <1>2 DEF StartingIsTop
<1>6. CASE Running(d)
    <2> DEFINE f == [Top EXCEPT !.todo = @ \ {d}]
    <2>1. f \in Frames /\ f.app = Top.app /\ f.at = Top.at
        BY <1>2 DEF Frames
    <2>2. Replace(f) /\ UNCHANGED <<state, call>>
        BY <1>4, <1>6 DEF StartDependency
    <2> HIDE DEF f
    <2> QED
        BY <1>1, <2>1, <2>2, WaitingKeepsInv
<1>7. CASE ~Running(d) /\ d \in OnStack
    <2>1. FailAll
        BY <1>4, <1>7 DEF StartDependency
    <2>2. /\ state' \in [Apps -> States]
          /\ \A a \in Apps : state'[a] # "starting"
          /\ \A a \in Apps : state'[a] \in {"registered", "failed"}
                  => state[a] \in {"registered", "failed"} \/ (state[a] = "starting" /\ a = Top.app)
          /\ stack' = <<>> /\ call' \in Calls /\ Named(call')
        BY <1>1, <1>3, <2>1, FailAllEffect
    <2>3. TypeOK'
        BY <1>1, <2>2 DEF TypeOK
    <2>4. Revoked'
        BY <1>1, <1>5, <2>2 DEF Inv, Revoked, TypeOK, Grants
    <2>5. (OneKind /\ StartingIsTop /\ IdleIsEmpty)'
        BY <2>2 DEF OneKind, Stopping, StartingIsTop, IdleIsEmpty
    <2> QED
        BY <2>2, <2>3, <2>4, <2>5 DEF Inv
<1>8. CASE ~Running(d) /\ d \notin OnStack
    <2>1. d \in Apps
        BY <1>2, <1>4
    <2>2. Push(StartFrame(d)) /\ UNCHANGED <<state, call>>
        BY <1>4, <1>8 DEF StartDependency
    <2>3. StartFrame(d) \in Frames /\ StartFrame(d).at = "deps" /\ StartFrame(d).app = d
        BY <2>1, FramesAreTyped DEF StartFrame
    <2>4. /\ stack' \in Seq(Frames) /\ stack' # <<>> /\ Len(stack') = Len(stack) + 1 /\ Len(stack) \in Nat
          /\ stack'[1] = StartFrame(d)
          /\ \A i \in 1 .. Len(stack') : i # 1 => i - 1 \in 1 .. Len(stack) /\ stack'[i] = stack[i - 1]
        BY <1>1, <2>2, <2>3, PushTyped
    <2>5. state[d] \in {"registered", "failed"}
        BY <1>1, <1>5, <1>8, <2>1 DEF TypeOK, States, Running
    <2>6. \A i \in 1 .. Len(stack) : stack[i].app # d /\ stack[i].at = "deps"
        <3>1. DOMAIN stack = 1 .. Len(stack)
            BY <1>1 DEF TypeOK
        <3> QED
            BY <3>1, <1>1, <1>2, <1>3, <1>8 DEF OnStack, Starting
    <2>7. Starting'
        <3>1. \A i \in 1 .. Len(stack') : stack'[i].at = "deps" /\ state'[stack'[i].app] \in {"registered", "failed"}
            BY <1>3, <2>2, <2>3, <2>4, <2>5, <2>6 DEF Starting
        <3>2. \A i \in 1 .. Len(stack') : i # 1 => stack'[i].app # stack'[1].app
            BY <2>3, <2>4, <2>6
        <3>3. \A i, j \in 1 .. Len(stack') : i # 1 /\ j # 1 /\ stack'[i].app = stack'[j].app => i = j
            <4> TAKE i, j \in 1 .. Len(stack')
            <4> HAVE i # 1 /\ j # 1 /\ stack'[i].app = stack'[j].app
            <4>1. i - 1 \in 1 .. Len(stack) /\ j - 1 \in 1 .. Len(stack) /\ stack[i - 1].app = stack[j - 1].app
                BY <2>4
            <4>2. i - 1 = j - 1
                BY <4>1, <1>3 DEF Starting
            <4> QED
                BY <4>2, <2>4
        <3> QED
            BY <3>1, <3>2, <3>3 DEF Starting
    <2>8. StartingIsTop'
        BY <1>5, <2>2, <2>3, <2>4 DEF StartingIsTop
    <2>9. TypeOK'
        BY <1>1, <2>2, <2>4 DEF TypeOK
    <2> QED
        BY <1>1, <2>2, <2>7, <2>8, <2>9, BusyIsNotIdle DEF Inv, OneKind, IdleIsEmpty, Revoked
<1> QED
    BY <1>6, <1>7, <1>8

\* What holds whenever a start has a frame on top.
LEMMA TopOfStart ==
    ASSUME Inv, stack # <<>>, Top.at # "dependents"
    PROVE  /\ TypeOK /\ StartingIsTop /\ Starting
           /\ Top = stack[1] /\ Top \in Frames /\ Top.app \in Apps /\ Len(stack) > 0 /\ Len(stack) \in Nat
           /\ \A i \in 1 .. Len(stack) : i # 1 =>
                 /\ stack[i].app # Top.app /\ stack[i].app \in Apps
                 /\ stack[i].at = "deps" /\ state[stack[i].app] \in {"registered", "failed"}
<1>1. TypeOK /\ StartingIsTop /\ OneKind /\ stack \in Seq(Frames)
    BY DEF Inv, TypeOK
<1>2. Top = stack[1] /\ Top \in Frames /\ Top.app \in Apps /\ Len(stack) > 0
    BY <1>1, TopIsFirst
<1>3. Starting
    BY <1>1, <1>2 DEF OneKind, Stopping
<1>4. \A i \in 1 .. Len(stack) : stack[i] \in Frames
    BY <1>1
<1>5. Len(stack) \in Nat
    BY <1>1
<1>6. 1 \in 1 .. Len(stack)
    BY <1>2, <1>5
<1>7. \A i \in 1 .. Len(stack) : stack[i].app \in Apps
    BY <1>4 DEF Frames
<1>8. \A i \in 1 .. Len(stack) : i # 1 => stack[i].app # Top.app
    BY <1>2, <1>3, <1>6 DEF Starting
<1> QED
    BY <1>1, <1>2, <1>3, <1>5, <1>7, <1>8 DEF Starting

\* An application begins to start: it is the innermost one.
LEMMA BeginStartKeeps == Inv /\ BeginStart => Inv'
<1> SUFFICES ASSUME Inv, BeginStart PROVE Inv'
    OBVIOUS
<1> DEFINE f == [Top EXCEPT !.at = "begun"]
<1>1. stack # <<>> /\ Top.at = "deps" /\ Replace(f) /\ UNCHANGED <<gen, quota, active, call, held>>
    BY DEF BeginStart, At
<1>2. /\ TypeOK /\ StartingIsTop /\ Starting
      /\ Top = stack[1] /\ Top \in Frames /\ Top.app \in Apps /\ Len(stack) > 0 /\ Len(stack) \in Nat
      /\ \A i \in 1 .. Len(stack) : i # 1 =>
            /\ stack[i].app # Top.app /\ stack[i].app \in Apps
            /\ stack[i].at = "deps" /\ state[stack[i].app] \in {"registered", "failed"}
    BY <1>1, TopOfStart
<1>3. f \in Frames /\ f.app = Top.app /\ f.at = "begun"
    BY <1>2 DEF Frames
<1> HIDE DEF f
<1>4. /\ stack' \in Seq(Frames) /\ stack' # <<>> /\ Len(stack') = Len(stack)
      /\ stack'[1] = f
      /\ \A i \in 1 .. Len(stack) : i # 1 => stack'[i] = stack[i]
      /\ \A i \in 1 .. Len(stack) : stack'[i].app = stack[i].app
    BY <1>1, <1>2, <1>3, ReplaceTyped
<1>5. state' = [state EXCEPT ![Top.app] = "starting"] /\ state \in [Apps -> States]
    BY <1>2 DEF BeginStart, TypeOK
<1>6. TypeOK'
    BY <1>1, <1>2, <1>4, <1>5 DEF TypeOK, States
<1>7. Starting'
    BY <1>2, <1>3, <1>4, <1>5 DEF Starting
<1>8. \A a \in Apps : state[a] # "starting"
    BY <1>1, <1>2 DEF StartingIsTop
<1>9. StartingIsTop'
    BY <1>2, <1>3, <1>4, <1>5, <1>8 DEF StartingIsTop
<1>10. Revoked'
    BY <1>1, <1>2, <1>5 DEF Inv, Revoked, TypeOK, Grants
<1>11. IdleIsEmpty' /\ Named(call')
    BY <1>1, BusyIsNotIdle DEF Inv, IdleIsEmpty
<1> QED
    BY <1>6, <1>7, <1>9, <1>10, <1>11 DEF Inv, OneKind

\* The grant of the application that is starting is published.
LEMMA PublishGrantKeeps == Inv /\ PublishGrant => Inv'
<1> SUFFICES ASSUME Inv, PublishGrant PROVE Inv'
    OBVIOUS
<1> DEFINE f == [Top EXCEPT !.at = "published"]
<1>1. stack # <<>> /\ Top.at = "begun" /\ Replace(f) /\ UNCHANGED <<state, active, call, held>>
    BY DEF PublishGrant, At
<1>2. /\ TypeOK /\ StartingIsTop /\ Starting
      /\ Top = stack[1] /\ Top \in Frames /\ Top.app \in Apps /\ Len(stack) > 0 /\ Len(stack) \in Nat
      /\ \A i \in 1 .. Len(stack) : i # 1 =>
            /\ stack[i].app # Top.app /\ stack[i].app \in Apps
            /\ stack[i].at = "deps" /\ state[stack[i].app] \in {"registered", "failed"}
    BY <1>1, TopOfStart
<1>3. f \in Frames /\ f.app = Top.app /\ f.at = "published"
    BY <1>2 DEF Frames
<1> HIDE DEF f
<1>4. /\ stack' \in Seq(Frames) /\ stack' # <<>> /\ Len(stack') = Len(stack)
      /\ stack'[1] = f
      /\ \A i \in 1 .. Len(stack) : i # 1 => stack'[i] = stack[i]
      /\ \A i \in 1 .. Len(stack) : stack'[i].app = stack[i].app
    BY <1>1, <1>2, <1>3, ReplaceTyped
<1>5. gen' = [gen EXCEPT ![Top.app] = @ + 1] /\ gen \in [Apps -> Nat] /\ quota' \in SUBSET Apps
    BY <1>2 DEF PublishGrant, TypeOK
<1>6. TypeOK'
    BY <1>1, <1>2, <1>4, <1>5 DEF TypeOK
<1>7. Starting'
    BY <1>1, <1>2, <1>3, <1>4 DEF Starting
<1>8. StartingIsTop'
    BY <1>1, <1>2, <1>3, <1>4 DEF StartingIsTop
<1>9. Revoked'
    BY <1>1, <1>2, <1>5 DEF Inv, Revoked, TypeOK, Grants
<1>10. IdleIsEmpty' /\ Named(call')
    BY <1>1, BusyIsNotIdle DEF Inv, IdleIsEmpty
<1> QED
    BY <1>6, <1>7, <1>8, <1>9, <1>10 DEF Inv, OneKind

\* The application runs, and the one that waits for it goes on.
LEMMA HooksSucceedKeeps == Inv /\ HooksSucceed => Inv'
<1> SUFFICES ASSUME Inv, HooksSucceed PROVE Inv'
    OBVIOUS
<1>1. stack # <<>> /\ Top.at = "published" /\ Pop /\ UNCHANGED <<gen, quota, active, call, held>>
    BY DEF HooksSucceed, At
<1>2. /\ TypeOK /\ StartingIsTop /\ Starting
      /\ Top = stack[1] /\ Top \in Frames /\ Top.app \in Apps /\ Len(stack) > 0 /\ Len(stack) \in Nat
      /\ \A i \in 1 .. Len(stack) : i # 1 =>
            /\ stack[i].app # Top.app /\ stack[i].app \in Apps
            /\ stack[i].at = "deps" /\ state[stack[i].app] \in {"registered", "failed"}
    BY <1>1, TopOfStart
<1>3. /\ stack' \in Seq(Frames) /\ Len(stack') = Len(stack) - 1
      /\ \A i \in 1 .. Len(stack') : i + 1 \in 1 .. Len(stack) /\ i + 1 # 1 /\ stack'[i] = stack[i + 1]
    BY <1>1, <1>2, PopTyped
<1>4. state' = [state EXCEPT ![Top.app] = "running"] /\ state \in [Apps -> States]
    BY <1>2 DEF HooksSucceed, TypeOK
<1>5. TypeOK'
    <2>1. state' \in [Apps -> States]
        BY <1>2, <1>4 DEF States
    <2> QED
        BY <1>1, <1>2, <1>3, <2>1 DEF TypeOK
<1>6. \A i \in 1 .. Len(stack') : stack'[i].at = "deps" /\ state'[stack'[i].app] \in {"registered", "failed"}
    <2> TAKE i \in 1 .. Len(stack')
    <2> DEFINE f == stack[i + 1]
    <2>1. stack'[i] = f /\ i + 1 \in 1 .. Len(stack) /\ i + 1 # 1
        BY <1>3
    <2>2. f.app # Top.app /\ f.app \in Apps /\ f.at = "deps" /\ state[f.app] \in {"registered", "failed"}
        BY <1>2, <2>1
    <2> HIDE DEF f
    <2> QED
        BY <1>4, <2>1, <2>2
<1>7. \A i, j \in 1 .. Len(stack') : stack'[i].app = stack'[j].app => i = j
    <2> TAKE i, j \in 1 .. Len(stack')
    <2> HAVE stack'[i].app = stack'[j].app
    <2>1. i + 1 \in 1 .. Len(stack) /\ j + 1 \in 1 .. Len(stack) /\ stack[i + 1].app = stack[j + 1].app
        BY <1>3
    <2>2. i + 1 = j + 1
        BY <2>1, <1>2 DEF Starting
    <2> QED
        BY <2>2
<1>8. Starting'
    BY <1>6, <1>7 DEF Starting
<1>9. \A a \in Apps : state'[a] # "starting"
    BY <1>2, <1>4 DEF StartingIsTop
<1>10. stack' # <<>> => stack'[1].at = "deps"
    BY <1>3, <1>6
<1>11. StartingIsTop'
    BY <1>9, <1>10 DEF StartingIsTop
<1>12. Revoked'
    BY <1>1, <1>2, <1>4 DEF Inv, Revoked, TypeOK, Grants
<1>13. IdleIsEmpty' /\ Named(call')
    BY <1>1, BusyIsNotIdle DEF Inv, IdleIsEmpty
<1> QED
    BY <1>5, <1>8, <1>11, <1>12, <1>13 DEF Inv, OneKind

\* A hook fails: the grant is revoked with the state that it needs.
LEMMA HooksFailKeeps == Inv /\ HooksFail => Inv'
<1> SUFFICES ASSUME Inv, HooksFail PROVE Inv'
    OBVIOUS
<1>1. stack # <<>> /\ Top.at = "published" /\ FailAll /\ UNCHANGED <<active, held>>
    BY DEF HooksFail, At
<1>2. TypeOK /\ Starting /\ Top.app \in Apps
    BY <1>1, TopOfStart
<1>3. /\ state' \in [Apps -> States]
      /\ \A a \in Apps : state'[a] # "starting"
      /\ \A a \in Apps : state'[a] \in {"registered", "failed"}
              => state[a] \in {"registered", "failed"} \/ (state[a] = "starting" /\ a = Top.app)
      /\ stack' = <<>> /\ call' \in Calls /\ Named(call')
    BY <1>1, <1>2, FailAllEffect
<1>4. gen' = [gen EXCEPT ![Top.app] = @ + 1] /\ gen \in [Apps -> Nat] /\ quota' \in SUBSET Apps
    BY <1>2 DEF HooksFail, TypeOK
<1>5. TypeOK'
    BY <1>1, <1>2, <1>3, <1>4 DEF TypeOK
<1>6. Revoked'
    BY <1>1, <1>2, <1>3, <1>4 DEF Inv, Revoked, TypeOK, Grants
<1>7. (OneKind /\ StartingIsTop /\ IdleIsEmpty)'
    BY <1>3 DEF OneKind, Stopping, StartingIsTop, IdleIsEmpty
<1> QED
    BY <1>3, <1>5, <1>6, <1>7 DEF Inv

\* What holds whenever a stop has a frame on top.
LEMMA TopOfStop ==
    ASSUME Inv, stack # <<>>, Top.at = "dependents"
    PROVE  /\ TypeOK /\ Stopping
           /\ Top = stack[1] /\ Top \in Frames /\ Top.app \in Apps /\ Top.todo \in SUBSET Apps
           /\ \A a \in Apps : state[a] # "starting"
<1>1. TypeOK /\ StartingIsTop /\ OneKind
    BY DEF Inv
<1>2. Top = stack[1] /\ Top \in Frames /\ Top.app \in Apps /\ Top.todo \in SUBSET Apps /\ Len(stack) > 0
    BY <1>1, TopIsFirst
<1>3. Len(stack) \in Nat /\ 1 \in 1 .. Len(stack)
    BY <1>1, <1>2 DEF TypeOK
<1>4. Stopping
    BY <1>1, <1>2, <1>3 DEF OneKind, Starting
<1> QED
    BY <1>1, <1>2, <1>4 DEF StartingIsTop

\* A dependent that runs is stopped first.
LEMMA StopDependentKeeps == Inv /\ StopDependent => Inv'
<1> SUFFICES ASSUME Inv, StopDependent PROVE Inv'
    OBVIOUS
<1>1. /\ stack # <<>> /\ Top.at = "dependents" /\ Top.todo # {}
      /\ UNCHANGED <<state, gen, quota, active, call, held>>
    BY DEF StopDependent, At
<1>2. /\ TypeOK /\ Stopping
      /\ Top = stack[1] /\ Top \in Frames /\ Top.app \in Apps /\ Top.todo \in SUBSET Apps
      /\ \A a \in Apps : state[a] # "starting"
    BY <1>1, TopOfStop
<1>3. PICK d \in Apps : d = Least(Top.todo)
    BY <1>1, <1>2, LeastIsIn
<1>4. CASE ~Running(d)
    <2> DEFINE f == [Top EXCEPT !.todo = @ \ {d}]
    <2>1. f \in Frames /\ f.app = Top.app /\ f.at = Top.at
        BY <1>2 DEF Frames
    <2>2. Replace(f)
        BY <1>3, <1>4 DEF StopDependent
    <2> HIDE DEF f
    <2> QED
        BY <1>1, <2>1, <2>2, WaitingKeepsInv
<1>5. CASE Running(d)
    <2>1. Push(StopFrame(d))
        BY <1>3, <1>5 DEF StopDependent
    <2>2. StopFrame(d) \in Frames /\ StopFrame(d).at = "dependents"
        BY FramesAreTyped DEF StopFrame
    <2>3. /\ stack' \in Seq(Frames) /\ stack' # <<>> /\ Len(stack') = Len(stack) + 1 /\ Len(stack) \in Nat
          /\ stack'[1] = StopFrame(d)
          /\ \A i \in 1 .. Len(stack') : i # 1 => i - 1 \in 1 .. Len(stack) /\ stack'[i] = stack[i - 1]
        BY <1>2, <2>1, <2>2, PushTyped
    <2>4. Stopping'
        BY <1>2, <2>2, <2>3 DEF Stopping
    <2>5. StartingIsTop'
        BY <1>1, <1>2, <2>2, <2>3 DEF StartingIsTop
    <2>6. TypeOK'
        BY <1>1, <1>2, <2>3 DEF TypeOK
    <2> QED
        BY <1>1, <2>4, <2>5, <2>6, BusyIsNotIdle DEF Inv, OneKind, IdleIsEmpty, Revoked
<1> QED
    BY <1>4, <1>5

\* The application is out of its cycle, and every copy of its grant with it.
LEMMA TeardownSucceedsKeeps == Inv /\ TeardownSucceeds => Inv'
<1> SUFFICES ASSUME Inv, TeardownSucceeds PROVE Inv'
    OBVIOUS
<1>1. stack # <<>> /\ Top.at = "dependents" /\ Pop /\ UNCHANGED <<active, call, held>>
    BY DEF TeardownSucceeds, At
<1>2. /\ TypeOK /\ Stopping /\ Top.app \in Apps
      /\ \A a \in Apps : state[a] # "starting"
    BY <1>1, TopOfStop
<1>3. /\ stack' \in Seq(Frames) /\ Len(stack') = Len(stack) - 1
      /\ \A i \in 1 .. Len(stack') : i + 1 \in 1 .. Len(stack) /\ i + 1 # 1 /\ stack'[i] = stack[i + 1]
    BY <1>1, <1>2, PopTyped
<1>4. /\ state' = [state EXCEPT ![Top.app] = "registered"] /\ state \in [Apps -> States]
      /\ gen' = [gen EXCEPT ![Top.app] = @ + 1] /\ gen \in [Apps -> Nat] /\ quota' \in SUBSET Apps
    BY <1>2 DEF TeardownSucceeds, TypeOK
<1>5. TypeOK'
    BY <1>1, <1>2, <1>3, <1>4 DEF TypeOK, States
<1>6. Stopping'
    BY <1>2, <1>3 DEF Stopping
<1>7. \A a \in Apps : state'[a] # "starting"
    BY <1>2, <1>4
<1>8. stack' # <<>> => stack'[1].at = "dependents"
    BY <1>3, <1>6 DEF Stopping
<1>9. StartingIsTop'
    BY <1>7, <1>8 DEF StartingIsTop
<1>10. Revoked'
    BY <1>1, <1>2, <1>4 DEF Inv, Revoked, TypeOK, Grants
<1>11. IdleIsEmpty' /\ Named(call')
    BY <1>1, BusyIsNotIdle DEF Inv, IdleIsEmpty
<1> QED
    BY <1>5, <1>6, <1>9, <1>10, <1>11 DEF Inv, OneKind

\* A stop that fails unwinds, and the grant stays with the application.
LEMMA TeardownFailsKeeps == Inv /\ TeardownFails => Inv'
<1> SUFFICES ASSUME Inv, TeardownFails PROVE Inv'
    OBVIOUS
<1>1. /\ stack # <<>> /\ Top.at = "dependents" /\ stack' = <<>> /\ call' = [call EXCEPT !.ok = FALSE]
      /\ UNCHANGED <<state, gen, quota, active, held>>
    BY DEF TeardownFails, At
<1>2. TypeOK /\ \A a \in Apps : state[a] # "starting"
    BY <1>1, TopOfStop
<1>3. call' \in Calls /\ Named(call')
    BY <1>1, <1>2 DEF Inv, TypeOK, Calls, Named
<1>4. TypeOK'
    BY <1>1, <1>2, <1>3 DEF TypeOK
<1>5. (OneKind /\ StartingIsTop /\ IdleIsEmpty)'
    BY <1>1, <1>2 DEF OneKind, Stopping, StartingIsTop, IdleIsEmpty
<1> QED
    BY <1>1, <1>3, <1>4, <1>5 DEF Inv, Revoked

\* A worker copies a grant only in the cycle that it is of.
LEMMA AppGrantKeeps ==
    ASSUME Inv, NEW a \in Apps, AppGrant(a)
    PROVE  Inv'
<1>1. TypeOK /\ UNCHANGED <<state, gen, quota, active, stack, call>>
    BY DEF Inv, AppGrant
<1>2. held' = [app |-> a, gen |-> gen[a]] /\ state[a] \in {"starting", "running"} /\ gen[a] \in Nat
    BY <1>1 DEF AppGrant, TypeOK
<1>3. TypeOK'
    BY <1>1, <1>2 DEF TypeOK, Grants
<1>4. Revoked'
    BY <1>1, <1>2 DEF Revoked
<1> QED
    BY <1>1, <1>3, <1>4 DEF Inv, IdleIsEmpty, OneKind, Stopping, Starting, StartingIsTop

\* Every step of start_index() and stop_index() preserves the invariant.
LEMMA FrameKeepsInv == Inv /\ FrameStep => Inv'
BY StartDependencyKeeps, BeginStartKeeps, PublishGrantKeeps, HooksSucceedKeeps, HooksFailKeeps,
   StopDependentKeeps, TeardownSucceedsKeeps, TeardownFailsKeeps DEF FrameStep

(* A step is a step of the frames, a step of the calls or a copied grant.  *)
LEMMA NextCases ==
    ASSUME Next
    PROVE  \/ FrameStep
           \/ CallStep
           \/ StartAll \/ StopAll
           \/ \E a \in Apps : Begin(a)
           \/ \E a \in Apps : AppGrant(a)
BY DEF Next, Begin

(* A call begins with the effect that CallKeepsInv relies on.              *)
LEMMA AllEffect == TypeOK /\ IdleIsEmpty /\ (StartAll \/ StopAll) => CallEffect
<1> SUFFICES ASSUME TypeOK, IdleIsEmpty, StartAll \/ StopAll PROVE CallEffect
    OBVIOUS
<1>1. stack = <<>> /\ UNCHANGED <<state, gen, quota, held, active, stack>>
    BY DEF IdleIsEmpty, StartAll, StopAll, MayCall
<1>2. call' \in Calls /\ Named(call')
    BY DEF StartAll, StopAll, Calls, Idle, Named
<1> QED
    BY <1>1, <1>2 DEF CallEffect, NewStack, TypeOK

(* The invariant is inductive.                                             *)
LEMMA NextInv == Inv /\ [Next]_vars => Inv'
<1> SUFFICES ASSUME Inv, [Next]_vars PROVE Inv'
    OBVIOUS
<1>0. TypeOK /\ IdleIsEmpty /\ Named(call)
    BY DEF Inv
<1>1. CASE FrameStep
    BY <1>1, FrameKeepsInv
<1>2. CASE CallStep
    BY <1>0, <1>2, CallStepEffect, CallKeepsInv
<1>3. CASE StartAll \/ StopAll
    BY <1>0, <1>3, AllEffect, CallKeepsInv
<1>4. ASSUME NEW a \in Apps, Begin(a) PROVE Inv'
    BY <1>0, <1>4, BeginEffect, CallKeepsInv
<1>5. ASSUME NEW a \in Apps, AppGrant(a) PROVE Inv'
    BY <1>5, AppGrantKeeps
<1>6. CASE UNCHANGED vars
    BY <1>6 DEF vars, Inv, TypeOK, IdleIsEmpty, Named, OneKind, Stopping, Starting, StartingIsTop, Revoked
<1> QED
    BY <1>1, <1>2, <1>3, <1>4, <1>5, <1>6, NextCases

(* The states, generations, quotas, frames and calls of the supervisor     *)
(* keep their types; the foreground that it tracks is one.                 *)
THEOREM TypeCorrect == Spec => []TypeOK
<1>1. Inv => TypeOK
    BY DEF Inv
<1> QED
    BY <1>1, InitInv, NextInv, PTL DEF Spec

-----------------------------------------------------------------------------
(* Revoked grants *)

\* A cycle that ended is not entered again under the same generation.
LEMMA FrameStepRevokes ==
    ASSUME Inv, FrameStep, held' = held, ~Valid(held)
    PROVE  ~Valid(held)'
<1> SUFFICES ASSUME held.app # NoApp, held.gen # 0,
                    held.gen = gen'[held.app], state'[held.app] \in {"starting", "running"}
             PROVE  FALSE
    BY DEF Valid
<1> DEFINE a == held.app
<1>1. TypeOK /\ a \in Apps /\ held.gen \in Nat /\ gen[a] \in Nat /\ state[a] \in States
    BY DEF Inv, TypeOK, Grants
<1>2. /\ held.gen <= gen[a]
      /\ state[a] \in {"registered", "failed"} => held.gen < gen[a]
    BY DEF Inv, Revoked
<1>3. gen'[a] >= gen[a]
    <2>1. CASE gen' = gen
        BY <1>1, <2>1
    <2>2. CASE gen' = [gen EXCEPT ![Top.app] = @ + 1]
        BY <1>1, <2>2 DEF TypeOK
    <2> QED
        BY <2>1, <2>2 DEF FrameStep, StartDependency, BeginStart, PublishGrant, HooksSucceed, HooksFail,
                          StopDependent, TeardownSucceeds, TeardownFails
<1>4. held.gen = gen[a] /\ gen'[a] = gen[a]
    <2> HIDE DEF a
    <2>1. gen'[a] = held.gen
        BY DEF a
    <2> QED
        BY <2>1, <1>1, <1>2, <1>3
<1>5. state[a] \in {"starting", "running"}
    BY <1>1, <1>2, <1>4 DEF States
<1> QED
    BY <1>4, <1>5 DEF Valid

(* A revoked grant stays revoked over one step.                            *)
LEMMA StepRevokes ==
    ASSUME Inv, [Next]_vars, held' = held, ~Valid(held)
    PROVE  ~Valid(held)'
<1>0. TypeOK /\ IdleIsEmpty /\ Named(call)
    BY DEF Inv
<1>1. CASE FrameStep
    BY <1>1, FrameStepRevokes
<1>2. CASE state' = state /\ gen' = gen
    BY <1>2 DEF Valid
<1>3. CallEffect => state' = state /\ gen' = gen
    BY DEF CallEffect
<1>4. \/ FrameStep \/ CallEffect \/ UNCHANGED vars \/ \E a \in Apps : AppGrant(a)
    BY <1>0, NextCases, CallStepEffect, AllEffect, BeginEffect
<1> QED
    BY <1>1, <1>2, <1>3, <1>4 DEF vars, AppGrant

(* No copy of a grant that was revoked is ever valid again, for any number *)
(* of applications, any dependencies (cyclic ones too) and any calls.      *)
THEOREM NeverRevived == Spec => GrantNeverRevived
<1>1. Inv /\ [Next]_vars => [held' = held /\ ~Valid(held) => ~Valid(held)']_vars
    BY StepRevokes
<1> QED
    BY <1>1, InitInv, NextInv, PTL DEF Spec, GrantNeverRevived

-----------------------------------------------------------------------------
(* Dependencies *)

\* What a frame has behind it: dependencies that run, dependents that do not.
WorkDone ==
    \A i \in 1 .. Len(stack) :
        /\ stack[i].at = "deps" => \A d \in Deps[stack[i].app] \ stack[i].todo : Running(d)
        /\ stack[i].at = "dependents" => \A b \in Dependents(stack[i].app) \ stack[i].todo : ~Running(b)

DepsInv == DependenciesRun /\ WorkDone

\* Frames that are begun have everything to do.
LEMMA FreshFrames ==
    ASSUME NEW a \in Apps
    PROVE  /\ StartFrame(a).app = a /\ StartFrame(a).at = "deps" /\ StartFrame(a).todo = Deps[a]
           /\ StopFrame(a).app = a /\ StopFrame(a).at = "dependents" /\ StopFrame(a).todo = Dependents(a)
BY DEF StartFrame, StopFrame

\* A call begins without frames, and those it pushes have done nothing yet.
LEMMA CallKeepsDeps ==
    ASSUME Inv, DepsInv, CallEffect
    PROVE  DepsInv'
<1>1. state' = state /\ NewStack
    BY DEF CallEffect
<1>2. DependenciesRun'
    BY <1>1 DEF DepsInv, DependenciesRun, Running
<1>3. ASSUME NEW b \in Apps, stack' = <<StopFrame(b)>> \/ stack' = <<StartFrame(b)>> PROVE WorkDone'
    <2>1. Len(stack') = 1 /\ (stack'[1] = StopFrame(b) \/ stack'[1] = StartFrame(b))
        BY <1>3
    <2> QED
        BY <2>1, FreshFrames DEF WorkDone
<1>4. stack' = <<>> => WorkDone'
    BY DEF WorkDone
<1> QED
    BY <1>1, <1>2, <1>3, <1>4 DEF DepsInv, NewStack

\* A start that fails takes no application down that others run on.
LEMMA FailKeepsDeps ==
    ASSUME Inv, DepsInv, stack # <<>>, Starting, FailAll
    PROVE  DepsInv'
<1>1. TypeOK /\ StartingIsTop
    BY DEF Inv
<1>2. /\ \A a \in Apps : state'[a] # "starting"
      /\ \A a \in Apps : state'[a] \in {"registered", "failed"}
              => state[a] \in {"registered", "failed"} \/ (state[a] = "starting" /\ a = Top.app)
      /\ \A a \in Apps : state'[a] = "running" => state[a] = "running"
      /\ stack' = <<>> /\ state' \in [Apps -> States]
    BY FailAllEffect
<1>3. \A a \in Apps : state[a] = "running" => state'[a] = "running"
    BY <1>2 DEF States
<1>4. DependenciesRun'
    <2> SUFFICES ASSUME NEW a \in Apps, state'[a] \in {"starting", "running"}, NEW d \in Deps[a]
                 PROVE  Running(d)'
        BY DEF DependenciesRun
    <2>1. state[a] = "running" /\ d \in Apps
        BY <1>2, AppsAssumption
    <2>2. state[d] = "running"
        BY <2>1 DEF DepsInv, DependenciesRun, Running
    <2> QED
        BY <2>1, <2>2, <1>3 DEF Running
<1>5. WorkDone'
    BY <1>2 DEF WorkDone
<1> QED
    BY <1>4, <1>5 DEF DepsInv

\* Passing a dependency, or pushing a frame, changes no state.
LEMMA SameStateDeps == DepsInv /\ state' = state => DependenciesRun'
BY DEF DepsInv, DependenciesRun, Running

\* A frame that is pushed has done nothing yet.
LEMMA PushKeepsDeps ==
    ASSUME TypeOK, DepsInv, state' = state, NEW a \in Apps, Push(StartFrame(a)) \/ Push(StopFrame(a))
    PROVE  DepsInv'
<1>1. StartFrame(a) \in Frames /\ StopFrame(a) \in Frames
    BY FramesAreTyped
<1>2. PICK f \in {StartFrame(a), StopFrame(a)} : Push(f)
    OBVIOUS
<1>3. /\ stack' \in Seq(Frames) /\ Len(stack') = Len(stack) + 1 /\ Len(stack) \in Nat /\ stack'[1] = f
      /\ \A i \in 1 .. Len(stack') : i # 1 => i - 1 \in 1 .. Len(stack) /\ stack'[i] = stack[i - 1]
    BY <1>1, <1>2, PushTyped
<1>4. WorkDone'
    <2> SUFFICES ASSUME NEW i \in 1 .. Len(stack')
                 PROVE  /\ stack'[i].at = "deps" => \A d \in Deps[stack'[i].app] \ stack'[i].todo : Running(d)'
                        /\ stack'[i].at = "dependents"
                              => \A b \in Dependents(stack'[i].app) \ stack'[i].todo : ~Running(b)'
        BY DEF WorkDone
    <2>1. CASE i = 1
        BY <2>1, <1>3, FreshFrames
    <2>2. CASE i # 1
        <3>1. i - 1 \in 1 .. Len(stack) /\ stack'[i] = stack[i - 1]
            BY <2>2, <1>3
        <3> QED
            BY <3>1 DEF DepsInv, WorkDone, Running
    <2> QED
        BY <2>1, <2>2
<1> QED
    BY <1>4, SameStateDeps DEF DepsInv

\* A top frame that did a little more.
LEMMA ReplaceKeepsDeps ==
    ASSUME TypeOK, DepsInv, state' = state, stack # <<>>, NEW f \in Frames, f.app = Top.app, Replace(f),
           f.at = "deps" => \A d \in Deps[f.app] \ f.todo : Running(d),
           f.at = "dependents" => \A b \in Dependents(f.app) \ f.todo : ~Running(b)
    PROVE  DepsInv'
<1>1. /\ Len(stack') = Len(stack) /\ stack'[1] = f
      /\ \A i \in 1 .. Len(stack) : i # 1 => stack'[i] = stack[i]
    BY ReplaceTyped
<1>2. WorkDone'
    BY <1>1 DEF DepsInv, WorkDone, Running
<1> QED
    BY <1>2, SameStateDeps DEF DepsInv

\* A dependency that was passed runs.
LEMMA StartDependencyKeepsDeps == Inv /\ DepsInv /\ StartDependency => DepsInv'
<1> SUFFICES ASSUME Inv, DepsInv, StartDependency PROVE DepsInv'
    OBVIOUS
<1>1. TypeOK /\ OneKind /\ stack # <<>> /\ Top.at = "deps"
    BY DEF Inv, StartDependency, At
<1>2. Top = stack[1] /\ Top \in Frames /\ Top.app \in Apps /\ Top.todo \in SUBSET Apps /\ Len(stack) > 0
    BY <1>1, TopIsFirst
<1>3. Starting
    BY <1>1, <1>2 DEF OneKind, Stopping
<1>4. PICK d \in Top.todo : d = Least(Top.todo)
    BY <1>2, LeastIsIn DEF StartDependency
<1>5. CASE Running(d)
    <2> DEFINE f == [Top EXCEPT !.todo = @ \ {d}]
    <2>1. f \in Frames /\ f.app = Top.app /\ f.at = Top.at /\ f.todo = Top.todo \ {d}
        BY <1>2 DEF Frames
    <2>2. Replace(f) /\ state' = state
        BY <1>4, <1>5 DEF StartDependency
    <2>3. Len(stack) \in Nat /\ 1 \in 1 .. Len(stack)
        BY <1>1, <1>2 DEF TypeOK
    <2>4. \A x \in Deps[Top.app] \ Top.todo : Running(x)
        BY <1>1, <1>2, <2>3 DEF DepsInv, WorkDone
    <2> HIDE DEF f
    <2>5. \A x \in Deps[f.app] \ f.todo : Running(x)
        BY <1>5, <2>1, <2>4
    <2> QED
        BY <1>1, <2>1, <2>2, <2>5, ReplaceKeepsDeps
<1>6. CASE ~Running(d) /\ d \in OnStack
    <2>1. FailAll
        BY <1>4, <1>6 DEF StartDependency
    <2> QED
        BY <2>1, <1>1, <1>3, FailKeepsDeps
<1>7. CASE ~Running(d) /\ d \notin OnStack
    <2>1. Push(StartFrame(d)) /\ state' = state /\ d \in Apps
        BY <1>2, <1>4, <1>7 DEF StartDependency
    <2> QED
        BY <2>1, <1>1, PushKeepsDeps
<1> QED
    BY <1>5, <1>6, <1>7

\* An application begins to start only when all its dependencies run.
LEMMA BeginStartKeepsDeps == Inv /\ DepsInv /\ BeginStart => DepsInv'
<1> SUFFICES ASSUME Inv, DepsInv, BeginStart PROVE DepsInv'
    OBVIOUS
<1> DEFINE f == [Top EXCEPT !.at = "begun"]
<1>1. stack # <<>> /\ Top.at = "deps" /\ Top.todo = {} /\ Replace(f)
    BY DEF BeginStart, At
<1>2. /\ TypeOK /\ Starting
      /\ Top = stack[1] /\ Top \in Frames /\ Top.app \in Apps /\ Len(stack) > 0 /\ Len(stack) \in Nat
    BY <1>1, TopOfStart
<1>3. f \in Frames /\ f.app = Top.app /\ f.at = "begun"
    BY <1>2 DEF Frames
<1> HIDE DEF f
<1>4. /\ Len(stack') = Len(stack) /\ stack'[1] = f
      /\ \A i \in 1 .. Len(stack) : i # 1 => stack'[i] = stack[i]
    BY <1>1, <1>2, <1>3, ReplaceTyped
<1>5. state' = [state EXCEPT ![Top.app] = "starting"] /\ state \in [Apps -> States]
    BY <1>2 DEF BeginStart, TypeOK
<1>6. 1 \in 1 .. Len(stack) /\ state[Top.app] # "running"
    BY <1>1, <1>2 DEF Starting
<1>7. \A d \in Deps[Top.app] : Running(d)
    BY <1>1, <1>2, <1>6 DEF DepsInv, WorkDone
<1>8. \A a \in Apps : Running(a)' <=> Running(a)
    BY <1>2, <1>5, <1>6 DEF Running
<1>9. DependenciesRun'
    <2> SUFFICES ASSUME NEW a \in Apps, state'[a] \in {"starting", "running"}, NEW d \in Deps[a]
                 PROVE  Running(d)'
        BY DEF DependenciesRun
    <2>1. d \in Apps
        BY AppsAssumption
    <2>2. Running(d)
        BY <1>5, <1>7 DEF DepsInv, DependenciesRun
    <2> QED
        BY <2>1, <2>2, <1>8
<1>10. WorkDone'
    <2> SUFFICES ASSUME NEW i \in 1 .. Len(stack), i # 1
                 PROVE  stack[i].at = "deps" => \A d \in Deps[stack[i].app] \ stack[i].todo : Running(d)'
        BY <1>2, <1>3, <1>4 DEF WorkDone, Starting
    <2>1. stack[i] \in Frames
        BY <1>2 DEF TypeOK
    <2>2. stack[i].app \in Apps
        BY <2>1 DEF Frames
    <2>3. \A d \in Deps[stack[i].app] : d \in Apps
        BY <2>2, AppsAssumption
    <2> QED
        BY <2>3, <1>8 DEF DepsInv, WorkDone
<1> QED
    BY <1>9, <1>10 DEF DepsInv

\* Publishing a grant changes only the place of the frame.
LEMMA PublishGrantKeepsDeps == Inv /\ DepsInv /\ PublishGrant => DepsInv'
<1> SUFFICES ASSUME Inv, DepsInv, PublishGrant PROVE DepsInv'
    OBVIOUS
<1> DEFINE f == [Top EXCEPT !.at = "published"]
<1>1. stack # <<>> /\ Top.at = "begun" /\ Replace(f) /\ state' = state
    BY DEF PublishGrant, At
<1>2. TypeOK /\ Top \in Frames
    BY <1>1, TopOfStart
<1>3. f \in Frames /\ f.app = Top.app /\ f.at = "published"
    BY <1>2 DEF Frames
<1> HIDE DEF f
<1> QED
    BY <1>1, <1>2, <1>3, ReplaceKeepsDeps

\* An application that runs from now on is one whose dependencies run.
LEMMA HooksSucceedKeepsDeps == Inv /\ DepsInv /\ HooksSucceed => DepsInv'
<1> SUFFICES ASSUME Inv, DepsInv, HooksSucceed PROVE DepsInv'
    OBVIOUS
<1>1. stack # <<>> /\ Top.at = "published" /\ Pop
    BY DEF HooksSucceed, At
<1>2. /\ TypeOK /\ StartingIsTop /\ Starting /\ Top = stack[1] /\ Top.app \in Apps
      /\ Len(stack) > 0 /\ Len(stack) \in Nat
    BY <1>1, TopOfStart
<1>3. /\ stack' \in Seq(Frames)
      /\ \A i \in 1 .. Len(stack') : i + 1 \in 1 .. Len(stack) /\ i + 1 # 1 /\ stack'[i] = stack[i + 1]
    BY <1>1, <1>2, PopTyped
<1>4. state' = [state EXCEPT ![Top.app] = "running"] /\ state \in [Apps -> States]
    BY <1>2 DEF HooksSucceed, TypeOK
<1>5. state[Top.app] = "starting"
    BY <1>1, <1>2 DEF StartingIsTop
<1>6. \A a \in Apps : Running(a) => Running(a)'
    BY <1>2, <1>4 DEF Running
<1>7. DependenciesRun'
    <2> SUFFICES ASSUME NEW a \in Apps, state'[a] \in {"starting", "running"}, NEW d \in Deps[a]
                 PROVE  Running(d)'
        BY DEF DependenciesRun
    <2>1. d \in Apps /\ Running(d)
        BY <1>4, <1>5, AppsAssumption DEF DepsInv, DependenciesRun
    <2> QED
        BY <2>1, <1>6
<1>8. WorkDone'
    <2> SUFFICES ASSUME NEW i \in 1 .. Len(stack')
                 PROVE  /\ stack'[i].at # "dependents"
                        /\ stack'[i].at = "deps" => \A d \in Deps[stack'[i].app] \ stack'[i].todo : Running(d)'
        BY DEF WorkDone
    <2>1. i + 1 \in 1 .. Len(stack) /\ stack'[i] = stack[i + 1] /\ stack'[i] \in Frames
        BY <1>3
    <2>2. stack'[i].app \in Apps
        BY <2>1 DEF Frames
    <2>3. \A d \in Deps[stack'[i].app] : d \in Apps
        BY <2>2, AppsAssumption
    <2> QED
        BY <2>1, <2>3, <1>2, <1>6 DEF DepsInv, WorkDone, Starting
<1> QED
    BY <1>7, <1>8 DEF DepsInv

\* A dependent that was passed does not run.
LEMMA StopDependentKeepsDeps == Inv /\ DepsInv /\ StopDependent => DepsInv'
<1> SUFFICES ASSUME Inv, DepsInv, StopDependent PROVE DepsInv'
    OBVIOUS
<1>1. stack # <<>> /\ Top.at = "dependents" /\ Top.todo # {} /\ state' = state
    BY DEF StopDependent, At
<1>2. TypeOK /\ Top = stack[1] /\ Top \in Frames /\ Top.app \in Apps /\ Top.todo \in SUBSET Apps
    BY <1>1, TopOfStop
<1>3. PICK d \in Apps : d = Least(Top.todo)
    BY <1>1, <1>2, LeastIsIn
<1>4. CASE ~Running(d)
    <2> DEFINE f == [Top EXCEPT !.todo = @ \ {d}]
    <2>1. f \in Frames /\ f.app = Top.app /\ f.at = Top.at /\ f.todo = Top.todo \ {d}
        BY <1>2 DEF Frames
    <2>2. Replace(f)
        BY <1>3, <1>4 DEF StopDependent
    <2>3. 1 \in 1 .. Len(stack)
        BY <1>1, <1>2, TopIsFirst DEF TypeOK
    <2>4. \A b \in Dependents(Top.app) \ Top.todo : ~Running(b)
        BY <1>1, <1>2, <2>3 DEF DepsInv, WorkDone
    <2> HIDE DEF f
    <2>5. \A b \in Dependents(f.app) \ f.todo : ~Running(b)
        BY <1>4, <2>1, <2>4
    <2> QED
        BY <1>1, <1>2, <2>1, <2>2, <2>5, ReplaceKeepsDeps
<1>5. CASE Running(d)
    <2>1. Push(StopFrame(d))
        BY <1>3, <1>5 DEF StopDependent
    <2> QED
        BY <2>1, <1>1, <1>2, PushKeepsDeps
<1> QED
    BY <1>4, <1>5

\* An application leaves when none of its dependents runs.
LEMMA TeardownSucceedsKeepsDeps == Inv /\ DepsInv /\ TeardownSucceeds => DepsInv'
<1> SUFFICES ASSUME Inv, DepsInv, TeardownSucceeds PROVE DepsInv'
    OBVIOUS
<1>1. stack # <<>> /\ Top.at = "dependents" /\ Top.todo = {} /\ Pop
    BY DEF TeardownSucceeds, At
<1>2. /\ TypeOK /\ Stopping /\ Top = stack[1] /\ Top.app \in Apps
      /\ \A a \in Apps : state[a] # "starting"
    BY <1>1, TopOfStop
<1>3. /\ stack' \in Seq(Frames) /\ Len(stack) \in Nat
      /\ \A i \in 1 .. Len(stack') : i + 1 \in 1 .. Len(stack) /\ i + 1 # 1 /\ stack'[i] = stack[i + 1]
    BY <1>1, <1>2, PopTyped
<1>4. state' = [state EXCEPT ![Top.app] = "registered"] /\ state \in [Apps -> States]
    BY <1>2 DEF TeardownSucceeds, TypeOK
<1>5. 1 \in 1 .. Len(stack)
    BY <1>1, <1>2, <1>3, TopIsFirst
<1>6. \A b \in Dependents(Top.app) : ~Running(b)
    BY <1>1, <1>2, <1>5 DEF DepsInv, WorkDone
<1>7. \A a \in Apps : Running(a)' => Running(a)
    BY <1>2, <1>4 DEF Running
<1>8. DependenciesRun'
    <2> SUFFICES ASSUME NEW a \in Apps, state'[a] \in {"starting", "running"}, NEW d \in Deps[a]
                 PROVE  Running(d)'
        BY DEF DependenciesRun
    <2>1. d \in Apps
        BY AppsAssumption
    <2>2. Running(a) /\ a # Top.app
        BY <1>2, <1>4 DEF Running, States
    <2>3. Running(d)
        BY <2>2 DEF DepsInv, DependenciesRun, Running
    <2>4. d # Top.app
        BY <2>2, <1>6 DEF Dependents
    <2> QED
        BY <2>1, <2>3, <2>4, <1>4 DEF Running
<1>9. WorkDone'
    <2> SUFFICES ASSUME NEW i \in 1 .. Len(stack')
                 PROVE  /\ stack'[i].at # "deps"
                        /\ stack'[i].at = "dependents"
                              => \A b \in Dependents(stack'[i].app) \ stack'[i].todo : ~Running(b)'
        BY DEF WorkDone
    <2>1. i + 1 \in 1 .. Len(stack) /\ stack'[i] = stack[i + 1]
        BY <1>3
    <2>2. \A b \in Dependents(stack'[i].app) : b \in Apps
        BY DEF Dependents
    <2> QED
        BY <2>1, <2>2, <1>2, <1>7 DEF DepsInv, WorkDone, Stopping
<1> QED
    BY <1>8, <1>9 DEF DepsInv

\* A stop that fails forgets its frames and changes no state.
LEMMA TeardownFailsKeepsDeps == DepsInv /\ TeardownFails => DepsInv'
BY SameStateDeps DEF TeardownFails, DepsInv, WorkDone

\* The two invariants together are inductive.
LEMMA NextDeps == Inv /\ DepsInv /\ [Next]_vars => DepsInv'
<1> SUFFICES ASSUME Inv, DepsInv, [Next]_vars PROVE DepsInv'
    OBVIOUS
<1>0. TypeOK /\ IdleIsEmpty /\ Named(call)
    BY DEF Inv
<1>1. HooksFail => stack # <<>> /\ Starting /\ FailAll
    BY TopOfStart DEF HooksFail, At
<1>2. CASE FrameStep
    BY <1>1, <1>2, FailKeepsDeps, StartDependencyKeepsDeps, BeginStartKeepsDeps, PublishGrantKeepsDeps,
       HooksSucceedKeepsDeps, StopDependentKeepsDeps, TeardownSucceedsKeepsDeps, TeardownFailsKeepsDeps
       DEF FrameStep
<1>3. CASE CallEffect
    BY <1>3, CallKeepsDeps
<1>4. CASE state' = state /\ stack' = stack
    BY <1>4, SameStateDeps DEF DepsInv, WorkDone, Running
<1>5. \/ FrameStep \/ CallEffect \/ UNCHANGED vars \/ \E a \in Apps : AppGrant(a)
    BY <1>0, NextCases, CallStepEffect, AllEffect, BeginEffect
<1> QED
    BY <1>2, <1>3, <1>4, <1>5 DEF vars, AppGrant

(* Whatever starts, stops and fails halfway, and whatever depends on what, *)
(* an application that runs or is starting has its dependencies running.   *)
THEOREM DependenciesAlwaysRun == Spec => []DependenciesRun
<1>1. Init => DepsInv
    BY DEF Init, DepsInv, DependenciesRun, WorkDone
<1>2. DepsInv => DependenciesRun
    BY DEF DepsInv
<1> QED
    BY <1>1, <1>2, InitInv, NextInv, NextDeps, PTL DEF Spec

-----------------------------------------------------------------------------
(* The console *)

\* What is needed by a set of applications, one dependency further.
Further(S) == S \cup UNION {Deps[a] : a \in S}

\* The sets of cascade_stops_console() are there for every number of applications.
LEMMA ReachingIsDefined ==
    /\ Reaching[0] = Console
    /\ \A n \in 1 .. Count : Reaching[n] = Further(Reaching[n - 1])
<1>0. Count \in Nat
    BY AppsAssumption
<1> DEFINE Sets(f, m) ==
        f = [n \in 0 .. m |-> IF n = 0 THEN Console ELSE f[n - 1] \cup UNION {Deps[a] : a \in f[n - 1]}]
           Without == {m \in 0 .. Count : ~\E f : Sets(f, m)}
<1>1. Without = {}
    <2> SUFFICES ASSUME Without # {} PROVE FALSE
        OBVIOUS
    <2>1. Without \in SUBSET Nat
        BY <1>0
    <2>2. PICK m \in Without : \A k \in Without : m <= k
        BY <2>1, NatMin
    <2>3. m \in 0 .. Count /\ ~\E f : Sets(f, m)
        BY <2>2
    <2>4. CASE m = 0
        <3> DEFINE g == [n \in 0 .. 0 |-> Console]
        <3>1. Sets(g, 0)
            OBVIOUS
        <3> QED
            BY <2>3, <2>4, <3>1
    <2>5. CASE m # 0
        <3>1. m \in Nat /\ m <= Count /\ m - 1 \in 0 .. Count /\ ~(m <= m - 1)
            BY <1>0, <2>3, <2>5
        <3>2. m - 1 \notin Without
            BY <2>2, <3>1
        <3>3. PICK f : Sets(f, m - 1)
            BY <3>1, <3>2
        <3> DEFINE Next1 == f[m - 1] \cup UNION {Deps[a] : a \in f[m - 1]}
                   g == [n \in 0 .. m |-> IF n = m THEN Next1 ELSE f[n]]
        <3>4. /\ \A n \in 0 .. m - 1 : n # m /\ n \in 0 .. m /\ (n # 0 => n - 1 \in 0 .. m - 1)
              /\ \A n \in 0 .. m : n = m \/ n \in 0 .. m - 1
              /\ m \in 0 .. m /\ m - 1 \in 0 .. m - 1
            BY <2>5, <3>1
        <3> HIDE DEF Next1
        <3>5. g[m] = Next1 /\ \A n \in 0 .. m - 1 : g[n] = f[n]
            BY <3>4
        <3>6. g = [n \in 0 .. m |-> g[n]]
            OBVIOUS
        <3> HIDE DEF g
        <3>7. g[m] = g[m - 1] \cup UNION {Deps[a] : a \in g[m - 1]}
            BY <3>4, <3>5 DEF Next1
        <3>8. ASSUME NEW n \in 0 .. m - 1
              PROVE  g[n] = IF n = 0 THEN Console ELSE g[n - 1] \cup UNION {Deps[a] : a \in g[n - 1]}
            <4>1. f[n] = IF n = 0 THEN Console ELSE f[n - 1] \cup UNION {Deps[a] : a \in f[n - 1]}
                BY <3>3
            <4>2. g[n] = f[n] /\ (n # 0 => g[n - 1] = f[n - 1])
                BY <3>4, <3>5
            <4> QED
                BY <4>1, <4>2
        <3>9. \A n \in 0 .. m :
                  g[n] = IF n = 0 THEN Console ELSE g[n - 1] \cup UNION {Deps[a] : a \in g[n - 1]}
            BY <2>5, <3>4, <3>7, <3>8
        <3>10. Sets(g, m)
            BY <3>6, <3>9
        <3> QED
            BY <2>3, <3>10
    <2> QED
        BY <2>4, <2>5
<1>2. \E f : Sets(f, Count)
    <2>1. Count \in 0 .. Count
        BY <1>0
    <2> HIDE DEF Sets
    <2> QED
        BY <1>1, <2>1
<1>3. Reaching = CHOOSE h : Sets(h, Count)
    BY DEF Reaching
<1>4. Sets(Reaching, Count)
    <2> HIDE DEF Sets
    <2> QED
        BY <1>2, <1>3
<1>5. \A n \in 0 .. Count : Reaching[n] =
          IF n = 0 THEN Console ELSE Reaching[n - 1] \cup UNION {Deps[a] : a \in Reaching[n - 1]}
    BY <1>4
<1>6. 0 \in 0 .. Count /\ \A n \in 1 .. Count : n \in 0 .. Count /\ n # 0
    BY <1>0
<1>7. Reaching[0] = Console
    BY <1>5, <1>6
<1>8. ASSUME NEW n \in 1 .. Count
      PROVE  Reaching[n] = Reaching[n - 1] \cup UNION {Deps[a] : a \in Reaching[n - 1]}
    BY <1>5, <1>6
<1> QED
    BY <1>7, <1>8 DEF Further

\* As many steps as there are applications are enough: each one either adds an
\* application or is the last that matters.
LEMMA ReachingIsClosed ==
    /\ Console \subseteq Reaching[Count]
    /\ \A a \in Reaching[Count] : Deps[a] \subseteq Reaching[Count]
<1>0. Count \in Nat /\ Console \subseteq Apps /\ \A a \in Apps : Deps[a] \subseteq Apps
    BY AppsAssumption
<1>1. IsFiniteSet(Apps) /\ Cardinality(Apps) = Count
    BY <1>0, FS_Interval DEF Apps
<1> DEFINE Grown(n) ==
        /\ Console \subseteq Reaching[n] /\ Reaching[n] \subseteq Apps
        /\ Further(Reaching[n]) = Reaching[n] \/ n <= Cardinality(Reaching[n])
           Bad == {n \in 0 .. Count : ~Grown(n)}
<1>2. Bad = {}
    <2> SUFFICES ASSUME Bad # {} PROVE FALSE
        OBVIOUS
    <2>1. Bad \in SUBSET Nat
        BY <1>0
    <2>2. PICK m \in Bad : \A k \in Bad : m <= k
        BY <2>1, NatMin
    <2>3. m \in 0 .. Count /\ ~Grown(m)
        BY <2>2
    <2>4. m # 0
        <3>1. IsFiniteSet(Console)
            BY <1>0, <1>1, FS_Subset
        <3>2. Cardinality(Console) \in Nat
            BY <3>1, FS_CardinalityType
        <3>3. Grown(0)
            BY <1>0, <3>2, ReachingIsDefined
        <3> QED
            BY <2>3, <3>3
    <2>5. m - 1 \in 0 .. Count /\ m \in 1 .. Count /\ ~(m <= m - 1) /\ m \in Nat
        BY <1>0, <2>3, <2>4
    <2>6. Grown(m - 1)
        BY <2>2, <2>5
    <2> DEFINE S == Reaching[m - 1]
    <2>7. Reaching[m] = Further(S)
        BY <2>5, ReachingIsDefined
    <2>8. Console \subseteq S /\ S \subseteq Apps /\ (Further(S) = S \/ m - 1 <= Cardinality(S))
        BY <2>6
    <2> HIDE DEF S
    <2>9. S \subseteq Further(S) /\ Further(S) \subseteq Apps
        BY <1>0, <2>8 DEF Further
    <2>10. CASE Further(S) = S
        BY <2>3, <2>7, <2>8, <2>10
    <2>11. CASE Further(S) # S
        <3>1. IsFiniteSet(Further(S))
            BY <1>1, <2>9, FS_Subset
        <3>2. IsFiniteSet(S) /\ Cardinality(S) <= Cardinality(Further(S))
              /\ Cardinality(S) # Cardinality(Further(S))
            BY <2>9, <2>11, <3>1, FS_Subset
        <3>3. Cardinality(S) \in Nat /\ Cardinality(Further(S)) \in Nat
            BY <3>1, <3>2, FS_CardinalityType
        <3>4. m - 1 <= Cardinality(S)
            BY <2>8, <2>11
        <3>5. m <= Cardinality(Further(S))
            BY <2>5, <3>2, <3>3, <3>4
        <3> QED
            BY <2>3, <2>7, <2>8, <2>9, <3>5
    <2> QED
        BY <2>10, <2>11
<1>3. Count \in 0 .. Count
    BY <1>0
<1>4. Grown(Count)
    BY <1>2, <1>3
<1> DEFINE T == Reaching[Count]
<1>5. Console \subseteq T /\ T \subseteq Apps /\ (Further(T) = T \/ Count <= Cardinality(T))
    BY <1>4
<1> HIDE DEF T
<1>6. Further(T) = T
    <2>1. CASE Further(T) = T
        BY <2>1
    <2>2. CASE Count <= Cardinality(T)
        <3>1. IsFiniteSet(T) /\ Cardinality(T) <= Count /\ (Cardinality(T) = Count => T = Apps)
            BY <1>1, <1>5, FS_Subset
        <3>2. Cardinality(T) \in Nat
            BY <3>1, FS_CardinalityType
        <3>3. T = Apps
            BY <1>0, <2>2, <3>1, <3>2
        <3> QED
            BY <1>0, <3>3 DEF Further
    <2> QED
        BY <1>5, <2>1, <2>2
<1>7. \A a \in T : Deps[a] \subseteq T
    BY <1>6 DEF Further
<1> QED
    BY <1>5, <1>7 DEF T

\* The owner of the console stops the console, and so does what it depends on.
LEMMA ConsoleCascade ==
    /\ \A c \in Console : StopsConsole(c)
    /\ \A a \in Apps : ~StopsConsole(a) => \A b \in Dependents(a) : ~StopsConsole(b)
<1>1. \A c \in Console : StopsConsole(c)
    BY ReachingIsClosed DEF StopsConsole
<1>2. ASSUME NEW a \in Apps, ~StopsConsole(a), NEW b \in Dependents(a) PROVE ~StopsConsole(b)
    <2>1. a \in Deps[b]
        BY <1>2 DEF Dependents
    <2> QED
        BY <1>2, <2>1, ReachingIsClosed DEF StopsConsole
<1> QED
    BY <1>1, <1>2


\* Whatever is being stopped, or is still to be stopped, leaves the console alone.
Spared(a) == ~StopsConsole(a)
SparingFrames ==
    \A i \in 1 .. Len(stack) : stack[i].at = "dependents" =>
        Spared(stack[i].app) /\ \A b \in stack[i].todo : Spared(b)
SparingCall == call.op = "stop_all" => \A a \in call.todo : Spared(a)
ConsoleInv == SparingFrames /\ SparingCall

\* What a call pushes: a start, or a stop that spares the console.
SparingPush ==
    \/ stack' = <<>>
    \/ \E b \in Apps : stack' = <<StartFrame(b)>> \/ (Spared(b) /\ stack' = <<StopFrame(b)>>)

\* Such a push keeps the frames sparing.
LEMMA SparingPushKeeps == SparingPush => SparingFrames'
<1> SUFFICES ASSUME SparingPush PROVE SparingFrames'
    OBVIOUS
<1>1. CASE stack' = <<>>
    BY <1>1 DEF SparingFrames
<1>2. ASSUME NEW b \in Apps, stack' = <<StartFrame(b)>> \/ (Spared(b) /\ stack' = <<StopFrame(b)>>)
      PROVE  SparingFrames'
    <2>1. Len(stack') = 1 /\ (stack'[1] = StartFrame(b) \/ (Spared(b) /\ stack'[1] = StopFrame(b)))
        BY <1>2
    <2>2. Spared(b) => \A d \in Dependents(b) : Spared(d)
        BY ConsoleCascade DEF Spared
    <2>3. \A i \in 1 .. Len(stack') : i = 1
        BY <2>1
    <2> HIDE DEF Spared
    <2> QED
        BY <2>1, <2>2, <2>3, FreshFrames DEF SparingFrames
<1> QED
    BY <1>1, <1>2 DEF SparingPush

\* activate_foreground() closes nothing that the console needs.
LEMMA ActivateSpares ==
    ASSUME NEW a \in Foreground, NEW front \in Foreground \cup {NoApp}, Activate(a, front)
    PROVE  SparingPush /\ call'.op # "stop_all"
<1> DEFINE previous == IF front # NoApp THEN front ELSE FirstOf(RunningForeground \ {a})
<1>1. a \in Apps /\ Foreground \subseteq Apps
    BY AppsAssumption
<1>2. previous \in Apps \cup {NoApp}
    BY <1>1, FirstForegroundTyped DEF RunningForeground
<1> HIDE DEF previous
<1>3. \/ call' = Idle /\ stack' = <<>>
      \/ Go("show", a, <<>>)
      \/ previous # NoApp /\ Spared(previous) /\ Go("close", a, <<StopFrame(previous)>>)
      \/ Go("open", a, <<StartFrame(a)>>)
    BY DEF Activate, previous, Spared
<1>4. CASE call' = Idle /\ stack' = <<>>
    BY <1>4 DEF SparingPush, Idle
<1>5. CASE Go("show", a, <<>>)
    BY <1>5 DEF SparingPush, Go, Idle
<1>6. CASE previous # NoApp /\ Spared(previous) /\ Go("close", a, <<StopFrame(previous)>>)
    BY <1>2, <1>6 DEF SparingPush, Go, Idle
<1>7. CASE Go("open", a, <<StartFrame(a)>>)
    BY <1>1, <1>7 DEF SparingPush, Go, Idle
<1> QED
    BY <1>3, <1>4, <1>5, <1>6, <1>7

\* Every call begins with such a push.
LEMMA BeginSpares ==
    ASSUME TypeOK, IdleIsEmpty, NEW a \in Apps, Begin(a)
    PROVE  SparingPush /\ SparingCall'
<1>0. stack = <<>> /\ active \in Foreground \cup {NoApp}
    BY DEF TypeOK, IdleIsEmpty, Begin, StartAll, StopAll, StartApplication, SwitchForeground, StopApplication,
           RestartApplication, ExecuteLine, MayCall
<1>1. CASE StartAll
    BY <1>0, <1>1 DEF StartAll, Idle, SparingPush, SparingCall
<1>2. CASE StopAll
    BY <1>0, <1>2 DEF StopAll, Idle, SparingPush, SparingCall, Spared
<1>3. CASE StartApplication(a)
    <2>1. CASE a \in Foreground
        BY <1>0, <1>3, <2>1, ActivateSpares DEF StartApplication, SparingCall
    <2>2. CASE a \notin Foreground
        <3>1. Go("start", a, StartFrames(a))
            BY <1>3, <2>2 DEF StartApplication
        <3> QED
            BY <3>1, FramesToStart DEF Go, Idle, SparingPush, SparingCall
    <2> QED
        BY <2>1, <2>2
<1>4. CASE SwitchForeground(a)
    BY <1>0, <1>4, ActivateSpares DEF SwitchForeground, SparingCall
<1>5. CASE StopApplication(a)
    <2>1. Spared(a) /\ Go("stop", a, StopFrames(a))
        BY <1>5 DEF StopApplication, Spared
    <2> QED
        BY <2>1, FramesToStop DEF Go, Idle, SparingPush, SparingCall
<1>6. CASE RestartApplication(a)
    <2>1. Spared(a) /\ (Go("restart", a, <<StopFrame(a)>>) \/ Go("restart", a, <<>>))
        BY <1>6 DEF RestartApplication, Spared
    <2> QED
        BY <2>1 DEF Go, Idle, SparingPush, SparingCall
<1>7. ASSUME NEW bare \in BOOLEAN, ExecuteLine(a, bare) PROVE SparingPush /\ SparingCall'
    BY <1>0, <1>7, ActivateSpares DEF ExecuteLine, SparingCall
<1> QED
    BY <1>1, <1>2, <1>3, <1>4, <1>5, <1>6, <1>7 DEF Begin

\* And goes on with one.
LEMMA CallStepSpares ==
    ASSUME TypeOK, Named(call), SparingCall, CallStep
    PROVE  SparingPush /\ SparingCall'
<1>0. call.todo \in SUBSET Apps
    BY DEF TypeOK, Calls
<1>1. CASE Finish
    BY <1>1 DEF Finish, Idle, SparingPush, SparingCall
<1>2. CASE FinishStart \/ FinishOpen \/ FinishStop
    BY <1>1, <1>2 DEF FinishStart, FinishOpen, FinishStop
<1>3. CASE FinishClose
    <2>1. CASE call.ok
        <3>1. PICK a \in Apps : a = call.app
            BY <1>3, AppsAssumption DEF FinishClose, Named, Returned
        <3>2. Go("open", a, StartFrames(a))
            BY <1>3, <2>1, <3>1 DEF FinishClose
        <3> QED
            BY <3>2, FramesToStart DEF Go, Idle, SparingPush, SparingCall
    <2> QED
        BY <1>1, <1>3, <2>1 DEF FinishClose
<1>4. CASE Show
    <2>1. CASE call.ok /\ Rivals(call.app) # {}
        <3>1. Rivals(call.app) \in SUBSET Apps
            BY AppsAssumption DEF Rivals, RunningForeground
        <3>2. PICK b \in Rivals(call.app) : b = Least(Rivals(call.app))
            BY <3>1, <2>1, LeastIsIn
        <3>3. b \in Apps /\ Spared(b)
            BY <3>1, <3>2 DEF Rivals, Spared
        <3>4. Go("show", call.app, <<StopFrame(b)>>)
            BY <1>4, <2>1, <3>2 DEF Show
        <3> QED
            BY <3>3, <3>4 DEF Go, Idle, SparingPush, SparingCall
    <2> QED
        BY <1>1, <1>4, <2>1 DEF Show
<1>5. CASE FinishRestart
    <2>1. PICK a \in Apps : a = call.app
        BY <1>5 DEF FinishRestart, Named, Returned
    <2>2. CASE call.ok /\ a \in Foreground
        <3>1. Activate(a, NoApp)
            BY <1>5, <2>1, <2>2 DEF FinishRestart
        <3> QED
            BY <2>2, <3>1, ActivateSpares DEF SparingCall
    <2>3. CASE call.ok /\ a \notin Foreground
        <3>1. Go("start", a, StartFrames(a))
            BY <1>5, <2>1, <2>3 DEF FinishRestart
        <3> QED
            BY <3>1, FramesToStart DEF Go, Idle, SparingPush, SparingCall
    <2> QED
        BY <1>1, <1>5, <2>2, <2>3 DEF FinishRestart
<1>6. CASE StartNext
    <2>1. CASE call.todo # {}
        <3>1. PICK a \in Apps : a = Least(call.todo)
            BY <1>0, <2>1, LeastIsIn
        <3>2. NextOfAll("start_all", a, StartFrames(a))
            BY <1>6, <2>1, <3>1 DEF StartNext
        <3> QED
            BY <3>2, FramesToStart DEF NextOfAll, Idle, SparingPush, SparingCall
    <2> QED
        BY <1>1, <1>6, <2>1 DEF StartNext
<1>7. CASE StopNext
    <2>1. CASE call.todo # {}
        <3>1. PICK a \in call.todo : a = Greatest(call.todo)
            BY <1>0, <2>1, GreatestIsIn
        <3>2. a \in Apps /\ Spared(a) /\ \A b \in call.todo : Spared(b)
            BY <1>0, <1>7, <3>1 DEF StopNext, Returned, SparingCall
        <3>3. NextOfAll("stop_all", a, StopFrames(a))
            BY <1>7, <2>1, <3>1 DEF StopNext
        <3>4. call'.todo = call.todo \ {a} /\ stack' = StopFrames(a)
            BY <3>3 DEF NextOfAll, Idle
        <3> QED
            BY <3>2, <3>4, FramesToStop DEF SparingPush, SparingCall
    <2> QED
        BY <1>1, <1>7, <2>1 DEF StopNext
<1> QED
    BY <1>2, <1>3, <1>4, <1>5, <1>6, <1>7 DEF CallStep


\* A frame of a start in place of the top, or of the same stop with less to do.
LEMMA ReplaceSpares ==
    ASSUME TypeOK, SparingFrames, stack # <<>>, NEW f \in Frames, f.app = Top.app, Replace(f),
           f.at = "dependents" => Top.at = "dependents" /\ f.todo \subseteq Top.todo
    PROVE  SparingFrames'
<1>1. /\ Len(stack') = Len(stack) /\ stack'[1] = f
      /\ \A i \in 1 .. Len(stack) : i # 1 => stack'[i] = stack[i]
    BY ReplaceTyped
<1>2. Top = stack[1] /\ Len(stack) > 0 /\ Len(stack) \in Nat
    BY TopIsFirst DEF TypeOK
<1>3. 1 \in 1 .. Len(stack)
    BY <1>2
<1>4. f.at = "dependents" => Spared(f.app) /\ \A b \in f.todo : Spared(b)
    BY <1>2, <1>3 DEF SparingFrames
<1> HIDE DEF Spared
<1> QED
    BY <1>1, <1>4 DEF SparingFrames

\* A frame of a start, or of a stop that spares the console, on top.
LEMMA PushSpares ==
    ASSUME TypeOK, SparingFrames, NEW a \in Apps, Push(StartFrame(a)) \/ (Spared(a) /\ Push(StopFrame(a)))
    PROVE  SparingFrames'
<1>1. StartFrame(a) \in Frames /\ StopFrame(a) \in Frames
    BY FramesAreTyped
<1>2. PICK f \in {StartFrame(a), StopFrame(a)} : Push(f) /\ (f = StartFrame(a) \/ Spared(a))
    OBVIOUS
<1>3. /\ Len(stack') = Len(stack) + 1 /\ Len(stack) \in Nat /\ stack'[1] = f
      /\ \A i \in 1 .. Len(stack') : i # 1 => i - 1 \in 1 .. Len(stack) /\ stack'[i] = stack[i - 1]
    BY <1>1, <1>2, PushTyped
<1>4. Spared(a) => \A d \in Dependents(a) : Spared(d)
    BY ConsoleCascade DEF Spared
<1>5. f.at = "dependents" => Spared(f.app) /\ \A b \in f.todo : Spared(b)
    BY <1>2, <1>4, FreshFrames
<1> SUFFICES ASSUME NEW i \in 1 .. Len(stack'), stack'[i].at = "dependents"
             PROVE  Spared(stack'[i].app) /\ \A b \in stack'[i].todo : Spared(b)
    BY DEF SparingFrames, Spared, StopsConsole
<1>6. CASE i = 1
    BY <1>3, <1>5, <1>6
<1>7. CASE i # 1
    <2>1. i - 1 \in 1 .. Len(stack) /\ stack'[i] = stack[i - 1]
        BY <1>3, <1>7
    <2> QED
        BY <2>1 DEF SparingFrames
<1> QED
    BY <1>6, <1>7

\* What is left after a pop.
LEMMA PopSpares ==
    ASSUME TypeOK, SparingFrames, stack # <<>>, Pop
    PROVE  SparingFrames'
<1>1. \A i \in 1 .. Len(stack') : i + 1 \in 1 .. Len(stack) /\ stack'[i] = stack[i + 1]
    BY PopTyped
<1> SUFFICES ASSUME NEW i \in 1 .. Len(stack'), stack'[i].at = "dependents"
             PROVE  Spared(stack'[i].app) /\ \A b \in stack'[i].todo : Spared(b)
    BY DEF SparingFrames, Spared, StopsConsole
<1> QED
    BY <1>1 DEF SparingFrames

\* The frames of a call go on sparing the console, and leave its owner running.
LEMMA FrameStepSpares ==
    ASSUME Inv, ConsoleInv, FrameStep
    PROVE  ConsoleInv' /\ \A c \in Console : Running(c) => Running(c)'
<1>0. TypeOK /\ SparingFrames /\ SparingCall /\ Console \subseteq Apps /\ state \in [Apps -> States]
    BY AppsAssumption DEF Inv, ConsoleInv, TypeOK
<1>1. stack # <<>>
    BY DEF FrameStep, StartDependency, BeginStart, PublishGrant, HooksSucceed, HooksFail, StopDependent,
           TeardownSucceeds, TeardownFails, At
<1>2. Top = stack[1] /\ Top \in Frames /\ Top.app \in Apps /\ Top.todo \in SUBSET Apps /\ Len(stack) > 0
      /\ Len(stack) \in Nat /\ 1 \in 1 .. Len(stack)
    BY <1>0, <1>1, TopIsFirst DEF TypeOK
<1>3. call' = call \/ (call'.op = call.op /\ call'.todo = call.todo)
    BY <1>0 DEF TypeOK, Calls, FrameStep, StartDependency, BeginStart, PublishGrant, HooksSucceed, HooksFail,
           StopDependent, TeardownSucceeds, TeardownFails, FailAll
<1>4. SparingCall'
    BY <1>0, <1>3 DEF SparingCall, Spared, StopsConsole
<1>5. CASE Starting /\ FailAll
    <2>1. stack' = <<>>
        BY <1>5 DEF FailAll
    <2>2. \A a \in OnStack : state[a] # "running"
        <3> SUFFICES ASSUME NEW i \in 1 .. Len(stack) PROVE state[stack[i].app] # "running"
            BY <1>0 DEF OnStack, TypeOK
        <3>1. CASE stack[i].at = "deps"
            BY <1>5, <3>1 DEF Starting
        <3>2. CASE stack[i].at # "deps"
            <4>1. i = 1 /\ stack[1].at \in {"begun", "published"}
                BY <1>2, <1>5, <3>2 DEF Starting, Frames
            <4> QED
                BY <1>2, <4>1 DEF Inv, StartingIsTop
        <3> QED
            BY <3>1, <3>2
    <2>3. state' = [a \in Apps |-> IF a \in OnStack THEN "failed" ELSE state[a]]
        BY <1>5 DEF FailAll
    <2>4. \A c \in Console : Running(c) => Running(c)'
        BY <1>0, <2>2, <2>3 DEF Running
    <2> QED
        BY <1>4, <2>1, <2>4 DEF ConsoleInv, SparingFrames
<1>6. CASE StartDependency
    <2>1. Top.at = "deps" /\ Top.todo # {} /\ Starting
        BY <1>1, <1>6, TopOfStart DEF StartDependency, At
    <2>2. PICK d \in Apps : d = Least(Top.todo)
        BY <1>2, <2>1, LeastIsIn
    <2> DEFINE f == [Top EXCEPT !.todo = @ \ {d}]
    <2>3. f \in Frames /\ f.app = Top.app /\ f.at = Top.at
        BY <1>2 DEF Frames
    <2>4. \/ Replace(f) /\ state' = state
          \/ FailAll
          \/ Push(StartFrame(d)) /\ state' = state
        BY <1>6, <2>2 DEF StartDependency
    <2> HIDE DEF f
    <2>5. SparingFrames' \/ FailAll
        BY <1>0, <1>1, <2>1, <2>3, <2>4, ReplaceSpares, PushSpares
    <2> QED
        BY <1>4, <1>5, <2>1, <2>4, <2>5 DEF ConsoleInv, Running
<1>7. CASE BeginStart
    <2> DEFINE f == [Top EXCEPT !.at = "begun"]
    <2>1. Top.at = "deps" /\ Starting /\ Replace(f) /\ state' = [state EXCEPT ![Top.app] = "starting"]
        BY <1>1, <1>7, TopOfStart DEF BeginStart, At
    <2>2. f \in Frames /\ f.app = Top.app /\ f.at = "begun"
        BY <1>2 DEF Frames
    <2> HIDE DEF f
    <2>3. SparingFrames'
        BY <1>0, <1>1, <2>1, <2>2, ReplaceSpares
    <2>4. state[Top.app] # "running"
        BY <1>2, <2>1 DEF Starting
    <2>5. \A c \in Console : Running(c) => Running(c)'
        BY <1>0, <2>1, <2>4 DEF Running
    <2> QED
        BY <1>4, <2>3, <2>5 DEF ConsoleInv
<1>8. CASE PublishGrant
    <2> DEFINE f == [Top EXCEPT !.at = "published"]
    <2>1. Replace(f) /\ state' = state
        BY <1>8 DEF PublishGrant
    <2>2. f \in Frames /\ f.app = Top.app /\ f.at = "published"
        BY <1>2 DEF Frames
    <2> HIDE DEF f
    <2>3. SparingFrames'
        BY <1>0, <1>1, <2>1, <2>2, ReplaceSpares
    <2> QED
        BY <1>4, <2>1, <2>3 DEF ConsoleInv, Running
<1>9. CASE HooksSucceed
    <2>1. Pop /\ state' = [state EXCEPT ![Top.app] = "running"]
        BY <1>9 DEF HooksSucceed
    <2>2. SparingFrames'
        BY <1>0, <1>1, <2>1, PopSpares
    <2>3. \A c \in Console : Running(c) => Running(c)'
        BY <1>0, <2>1 DEF Running
    <2> QED
        BY <1>4, <2>2, <2>3 DEF ConsoleInv
<1>10. CASE HooksFail
    <2>1. Starting /\ FailAll
        BY <1>1, <1>10, TopOfStart DEF HooksFail, At
    <2> QED
        BY <1>5, <2>1
<1>11. CASE StopDependent
    <2>1. Top.at = "dependents" /\ Top.todo # {} /\ state' = state
        BY <1>11 DEF StopDependent, At
    <2>2. PICK d \in Top.todo : d = Least(Top.todo)
        BY <1>2, <2>1, LeastIsIn
    <2>3. d \in Apps /\ Spared(d)
        BY <1>0, <1>2, <2>1, <2>2 DEF SparingFrames
    <2> DEFINE f == [Top EXCEPT !.todo = @ \ {d}]
    <2>4. f \in Frames /\ f.app = Top.app /\ f.at = Top.at /\ f.todo \subseteq Top.todo
        BY <1>2 DEF Frames
    <2>5. Replace(f) \/ Push(StopFrame(d))
        BY <1>11, <2>2 DEF StopDependent
    <2> HIDE DEF f
    <2>6. SparingFrames'
        BY <1>0, <1>1, <2>1, <2>3, <2>4, <2>5, ReplaceSpares, PushSpares
    <2> QED
        BY <1>4, <2>1, <2>6 DEF ConsoleInv, Running
<1>12. CASE TeardownSucceeds
    <2>1. Top.at = "dependents" /\ Pop /\ state' = [state EXCEPT ![Top.app] = "registered"]
        BY <1>12 DEF TeardownSucceeds, At
    <2>2. SparingFrames'
        BY <1>0, <1>1, <2>1, PopSpares
    <2>3. Spared(Top.app)
        BY <1>0, <1>2, <2>1 DEF SparingFrames
    <2>4. Top.app \notin Console
        BY <2>3, ConsoleCascade DEF Spared
    <2>5. \A c \in Console : Running(c) => Running(c)'
        BY <1>0, <2>1, <2>4 DEF Running
    <2> QED
        BY <1>4, <2>2, <2>5 DEF ConsoleInv
<1>13. CASE TeardownFails
    BY <1>4, <1>13 DEF TeardownFails, ConsoleInv, SparingFrames, Running
<1> QED
    BY <1>6, <1>7, <1>8, <1>9, <1>10, <1>11, <1>12, <1>13 DEF FrameStep

\* Every step spares the console.
LEMMA NextSpares ==
    ASSUME Inv, ConsoleInv, [Next]_vars
    PROVE  ConsoleInv' /\ \A c \in Console : Running(c) => Running(c)'
<1>0. TypeOK /\ IdleIsEmpty /\ Named(call) /\ SparingCall
    BY DEF Inv, ConsoleInv
<1>1. CASE FrameStep
    BY <1>1, FrameStepSpares
<1>2. CASE SparingPush /\ SparingCall' /\ CallEffect
    <2>1. ConsoleInv'
        BY <1>2, SparingPushKeeps DEF ConsoleInv
    <2> QED
        BY <1>2, <2>1 DEF CallEffect, Running
<1>3. CASE state' = state /\ stack' = stack /\ call' = call
    BY <1>3 DEF ConsoleInv, SparingFrames, SparingCall, Spared, StopsConsole, Running
<1>4. \A a \in Apps : Begin(a) => SparingPush /\ SparingCall' /\ CallEffect
    BY <1>0, BeginSpares, BeginEffect
<1>5. CallStep => SparingPush /\ SparingCall' /\ CallEffect
    BY <1>0, CallStepSpares, CallStepEffect
<1>6. StartAll \/ StopAll => SparingPush /\ SparingCall' /\ CallEffect
    <2>1. ASSUME StartAll \/ StopAll PROVE stack' = <<>> /\ SparingCall'
        BY <1>0, <2>1 DEF StartAll, StopAll, MayCall, IdleIsEmpty, Idle, SparingCall, Spared
    <2> QED
        BY <1>0, <2>1, AllEffect DEF SparingPush
<1>7. \/ FrameStep \/ CallStep \/ StartAll \/ StopAll \/ UNCHANGED vars
      \/ (\E a \in Apps : Begin(a)) \/ (\E a \in Apps : AppGrant(a))
    BY NextCases
<1> QED
    BY <1>1, <1>2, <1>3, <1>4, <1>5, <1>6, <1>7 DEF vars, AppGrant

(* No call removes the application that owns the console, directly or by    *)
(* stopping what it depends on, for any dependencies: as many steps as there *)
(* are applications find all that the console needs.                        *)
THEOREM ConsoleStays == Spec => ConsoleIsNeverStopped
<1>1. Init => ConsoleInv
    BY DEF Init, Idle, ConsoleInv, SparingFrames, SparingCall
<1>2. Inv /\ ConsoleInv /\ [Next]_vars => ConsoleInv'
    BY NextSpares
<1>3. Inv /\ ConsoleInv /\ [Next]_vars => [\A c \in Console : Running(c) => Running(c)']_vars
    BY NextSpares
<1> QED
    BY <1>1, <1>2, <1>3, InitInv, NextInv, PTL DEF Spec, ConsoleIsNeverStopped

-----------------------------------------------------------------------------
(* The music application and its player *)

WorkerPcs == {"gone", "receive", "stop", "play", "leave", "exited", "open", "opened", "announce", "loop", "pausing",
              "resuming", "frame", "written", "failing", "close", "error", "ended", "next", "again"}
TrackPcs == {"play", "open", "opened", "announce", "loop", "pausing", "resuming", "frame", "written", "failing",
             "close", "error", "ended", "next", "again"}
SoundPcs == {"loop", "pausing", "resuming", "frame", "written", "failing", "close"}
CallerPcs == {"idle", "fenced", "frozen", "join", "enter", "bump", "discard", "send", "wait", "stopped", "quiet",
              "failed", "unpause"}
MusicRequests == [kind : {"play", "stop"}, generation : Nat]

MusicTypes ==
    /\ player \in [up : BOOLEAN, shutting : BOOLEAN, generation : Nat, paused : BOOLEAN, repeat : BOOLEAN]
    /\ requests \in Seq(MusicRequests) /\ Len(requests) <= QueueDepth
    /\ worker \in [pc : WorkerPcs, generation : Nat, eof : BOOLEAN, held : BOOLEAN]
    /\ shown \in {"stopped", "playing", "paused", "error"}
    /\ reading \subseteq {"player", "scan"} /\ signals \subseteq {"finished", "scanned"}
    /\ scan \in [pc : {"none", "begin", "walk", "end", "give"}, pending : BOOLEAN, cancel : BOOLEAN,
                 quiescing : BOOLEAN, there : BOOLEAN]
    /\ caller \in [Callers -> [pc : CallerPcs, for : {"stop", "halt", "unstart"}]]
    /\ mutex \in Callers \cup {"free"}
MusicFlags == {running, fenced, silenced, sound} \subseteq BOOLEAN

\* No generation is ahead of the current one, and once playback is silenced every
\* track that is known of is behind it.
TracksAreBehind ==
    /\ worker.generation <= player.generation
    /\ \A i \in DOMAIN requests :
          /\ requests[i].generation <= player.generation
          /\ silenced /\ requests[i].kind = "play" => requests[i].generation < player.generation
    /\ silenced /\ worker.pc \in TrackPcs => worker.generation < player.generation

\* Room is kept for the generations that calls in progress, and the shutdown, begin.
ToBump == {"join", "enter", "bump"}
RoomToStop ==
    player.generation + (IF Pc("deck") \in ToBump THEN 1 ELSE 0)
        + (IF Pc("power") \in ToBump \cup {"idle", "fenced", "frozen"} THEN 1 ELSE 0) <= MaxPlayback

\* What the worker has open, where it is.
TrackIsOpen ==
    /\ sound => worker.pc \in SoundPcs
    /\ "player" \in reading => worker.pc \in TrackPcs \ {"play", "open"}
    /\ "finished" \in signals => worker.pc = "exited"
    /\ ~player.up => worker.pc = "gone"

\* A scan that is not joined is pending, and who stops the application joined it.
Joined == {"enter", "bump", "discard", "send", "wait", "stopped"}
ScanIsJoined ==
    /\ scan.pc # "none" => scan.pending /\ scan.there
    /\ "scanned" \in signals => scan.pc = "none"
    /\ "scan" \in reading => scan.pc \in {"walk", "end"}
    /\ running => scan.there
    /\ Pc("deck") \in Joined /\ caller["deck"].for = "stop" => ~scan.pending

\* Behind the fence nothing is opened, and the shutdown waited for what was open.
FencedIsQuiet ==
    /\ Pc("power") # "idle" => fenced
    /\ Pc("power") \in Joined \cup {"quiet"} => ~scan.pending
    /\ Pc("power") \in {"stopped", "quiet"} => "player" \notin reading
    /\ caller["power"].for = "stop"

MusicInv ==
    /\ MusicTypes /\ MusicFlags
    /\ TracksAreBehind /\ RoomToStop /\ TrackIsOpen /\ ScanIsJoined /\ FencedIsQuiet

\* Nothing plays, nothing is scanned and nobody has called.
LEMMA InitMusicInv == MusicInit => MusicInv
<1> SUFFICES ASSUME MusicInit PROVE MusicInv
    OBVIOUS
<1> USE MusicLimits DEF MusicInit
<1>1. caller["deck"].pc = "idle" /\ caller["power"].pc = "idle" /\ caller["power"].for = "stop"
      /\ caller \in [Callers -> [pc : CallerPcs, for : {"stop", "halt", "unstart"}]]
    BY DEF Callers, CallerPcs
<1>2. MusicTypes
    BY <1>1 DEF MusicTypes, WorkerPcs
<1>3. MusicFlags
    BY DEF MusicFlags
<1>4. TracksAreBehind /\ TrackIsOpen
    BY DEF TracksAreBehind, TrackIsOpen, TrackPcs
<1>5. RoomToStop
    BY <1>1 DEF RoomToStop, Pc, ToBump
<1>6. ScanIsJoined /\ FencedIsQuiet
    BY <1>1 DEF ScanIsJoined, FencedIsQuiet, Pc, Joined
<1> QED
    BY <1>2, <1>3, <1>4, <1>5, <1>6 DEF MusicInv

\* The worker goes from place to place with its request, and takes only what is queued.
LEMMA WorkerGoes ==
    ASSUME MusicTypes, WorkerStep
    PROVE  /\ worker' \in [pc : WorkerPcs, generation : Nat, eof : BOOLEAN, held : BOOLEAN]
           /\ ~Receive => worker'.generation = worker.generation
           /\ Receive => /\ requests # <<>> /\ requests' = Tail(requests)
                         /\ worker'.generation = Head(requests).generation
                         /\ worker'.pc \in {"leave", Head(requests).kind}
           /\ worker'.pc \in TrackPcs => worker.pc \in TrackPcs \/ Receive
           /\ worker.pc \notin {"gone", "exited"} /\ worker'.pc # "gone"
           /\ worker'.pc = "exited" => worker.pc = "leave"
<1> USE DEF WorkerAt, To, NextRequest, WorkerPcs, TrackPcs
<1>0. worker \in [pc : WorkerPcs, generation : Nat, eof : BOOLEAN, held : BOOLEAN]
    BY DEF MusicTypes
<1>1. CASE Receive
    <2>1. Head(requests) \in MusicRequests
        BY <1>1 DEF Receive, MusicTypes
    <2>2. Head(requests).kind \in {"play", "stop"} /\ Head(requests).generation \in Nat
        BY <2>1 DEF MusicRequests
    <2> QED
        BY <1>0, <1>1, <2>2 DEF Receive
<1>2. CASE RunStop \/ RunPlay \/ OpenTrack \/ PrepareTrack
    BY <1>0, <1>2 DEF RunStop, RunPlay, OpenTrack, PrepareTrack, Receive
<1>3. CASE AnnounceTrack \/ TurnLoop \/ ShowPause \/ PlayFrame
    BY <1>0, <1>3 DEF AnnounceTrack, TurnLoop, ShowPause, PlayFrame, Receive
<1>4. CASE ShowFrame \/ CloseTrack \/ ShowError \/ ShowEnd
    BY <1>0, <1>4 DEF ShowFrame, CloseTrack, ShowError, ShowEnd, Receive
<1>5. CASE ChooseNext \/ PlayAgain \/ LeavePlayer
    BY <1>0, <1>5 DEF ChooseNext, PlayAgain, LeavePlayer, Receive
<1> QED
    BY <1>1, <1>2, <1>3, <1>4, <1>5 DEF WorkerStep

\* What a step of the worker leaves alone.
LEMMA WorkerLeaves ==
    WorkerStep => UNCHANGED <<player, application, caller, mutex, silenced>>
BY DEF WorkerStep, Receive, RunStop, RunPlay, OpenTrack, PrepareTrack, AnnounceTrack, TurnLoop, ShowPause, PlayFrame,
       ShowFrame, CloseTrack, ShowError, ShowEnd, ChooseNext, PlayAgain, LeavePlayer

\* The queue of the worker after one of its steps.
LEMMA WorkerQueues ==
    ASSUME MusicTypes, WorkerStep
    PROVE  \/ requests' = requests
           \/ Receive
           \/ /\ worker.pc = "again" /\ Len(requests) < QueueDepth
              /\ requests' = Append(requests, [kind |-> "play", generation |-> worker.generation])
<1>1. CASE Receive \/ PlayAgain
    BY <1>1 DEF PlayAgain, WorkerAt
<1>2. CASE ~(Receive \/ PlayAgain)
    BY <1>2 DEF WorkerStep, RunStop, RunPlay, OpenTrack, PrepareTrack, AnnounceTrack, TurnLoop, ShowPause, PlayFrame,
       ShowFrame, CloseTrack, ShowError, ShowEnd, ChooseNext, LeavePlayer
<1> QED
    BY <1>1, <1>2

\* What is shown after a step of the worker.
LEMMA WorkerShows ==
    ASSUME MusicTypes, WorkerStep
    PROVE  \/ shown' \in {shown, "stopped"}
           \/ shown' \in {"playing", "paused", "error"} /\ worker.pc \in TrackPcs /\ IsCurrent
<1> USE DEF WorkerAt, Publish, TrackPcs
<1>1. CASE Receive \/ RunStop \/ RunPlay \/ OpenTrack \/ PrepareTrack
    BY <1>1 DEF Receive, RunStop, RunPlay, OpenTrack, PrepareTrack
<1>2. CASE AnnounceTrack \/ ShowPause \/ ShowFrame
    BY <1>2 DEF AnnounceTrack, ShowPause, ShowFrame
<1>3. CASE ShowError \/ ShowEnd
    BY <1>3 DEF ShowError, ShowEnd
<1>4. CASE TurnLoop \/ PlayFrame \/ CloseTrack \/ ChooseNext \/ PlayAgain \/ LeavePlayer
    BY <1>4 DEF TurnLoop, PlayFrame, CloseTrack, ChooseNext, PlayAgain, LeavePlayer
<1> QED
    BY <1>1, <1>2, <1>3, <1>4 DEF WorkerStep

\* The worker tells of its end once, and holds its own lease only.
LEMMA WorkerHolds ==
    ASSUME MusicTypes, WorkerStep
    PROVE  /\ signals' = signals \/ signals' = signals \cup {"finished"}
           /\ \/ reading' = reading
              \/ reading' = reading \cup {"player"}
              \/ reading' = reading \ {"player"}
           /\ fenced => reading' = reading \/ reading' = reading \ {"player"}
<1> USE DEF NextRequest
<1>1. CASE Receive \/ RunStop \/ RunPlay \/ OpenTrack \/ PrepareTrack \/ AnnounceTrack
    BY <1>1 DEF Receive, RunStop, RunPlay, OpenTrack, PrepareTrack, AnnounceTrack
<1>2. CASE TurnLoop \/ ShowPause \/ PlayFrame \/ ShowFrame \/ CloseTrack
    BY <1>2 DEF TurnLoop, ShowPause, PlayFrame, ShowFrame, CloseTrack
<1>3. CASE ShowError \/ ShowEnd \/ ChooseNext \/ PlayAgain \/ LeavePlayer
    BY <1>3 DEF ShowError, ShowEnd, ChooseNext, PlayAgain, LeavePlayer
<1> QED
    BY <1>1, <1>2, <1>3 DEF WorkerStep

\* The worker has open what its place says.
LEMMA WorkerOpens ==
    ASSUME MusicTypes, TrackIsOpen, WorkerStep
    PROVE  TrackIsOpen'
<1> USE DEF TrackIsOpen, WorkerAt, NextRequest, To, TrackPcs, SoundPcs
<1>0. /\ worker \in [pc : WorkerPcs, generation : Nat, eof : BOOLEAN, held : BOOLEAN]
      /\ player' = player
    BY WorkerLeaves DEF MusicTypes
<1>1. CASE Receive
    <2>1. worker'.pc \in {"leave", "stop", "play"}
        <3>1. Head(requests) \in MusicRequests
            BY <1>1 DEF Receive, MusicTypes
        <3> QED
            BY <3>1, <1>1, WorkerGoes DEF MusicRequests
    <2> QED
        BY <1>0, <1>1, <2>1 DEF Receive
<1>2. CASE RunStop \/ RunPlay \/ OpenTrack
    BY <1>0, <1>2 DEF RunStop, RunPlay, OpenTrack
<1>3. CASE PrepareTrack
    BY <1>0, <1>3 DEF PrepareTrack
<1>4. CASE AnnounceTrack
    BY <1>0, <1>4 DEF AnnounceTrack
<1>5. CASE TurnLoop
    <2>1. worker.pc = "loop" /\ worker'.pc \in {"close", "pausing", "resuming", "frame"} /\ UNCHANGED <<reading, signals>>
        BY <1>0, <1>5 DEF TurnLoop
    <2> QED
        BY <1>0, <2>1
<1>6. CASE ShowPause
    BY <1>0, <1>6 DEF ShowPause
<1>7. CASE PlayFrame
    <2>1. worker.pc = "frame" /\ worker'.pc \in {"loop", "close", "failing", "written"} /\ UNCHANGED <<reading, signals>>
        BY <1>0, <1>7 DEF PlayFrame
    <2> QED
        BY <1>0, <2>1
<1>8. CASE ShowFrame
    BY <1>0, <1>8 DEF ShowFrame
<1>9. CASE CloseTrack
    BY <1>0, <1>9 DEF CloseTrack
<1>10. CASE ShowError
    BY <1>0, <1>10 DEF ShowError
<1>11. CASE ShowEnd
    BY <1>0, <1>11 DEF ShowEnd
<1>12. CASE ChooseNext
    BY <1>0, <1>12 DEF ChooseNext
<1>13. CASE PlayAgain
    BY <1>0, <1>13 DEF PlayAgain
<1>14. CASE LeavePlayer
    BY <1>0, <1>14 DEF LeavePlayer
<1> QED
    BY <1>1, <1>2, <1>3, <1>4, <1>5, <1>6, <1>7, <1>8, <1>9, <1>10, <1>11, <1>12, <1>13, <1>14 DEF WorkerStep

\* The tracks that the worker and its queue know of stay as old as they were.
LEMMA WorkerKeepsBehind ==
    ASSUME MusicTypes, TracksAreBehind, WorkerStep
    PROVE  TracksAreBehind'
<1> USE DEF TracksAreBehind
<1>1. player' = player /\ silenced' = silenced
    BY WorkerLeaves
<1>2. requests \in Seq(MusicRequests) /\ worker.generation \in Nat /\ player.generation \in Nat
    BY DEF MusicTypes
<1>3. CASE Receive
    <2>0. requests # <<>> /\ requests' = Tail(requests)
        BY <1>3, WorkerGoes
    <2>1. /\ 1 \in DOMAIN requests /\ Head(requests) = requests[1] /\ requests[1].kind \in {"play", "stop"}
          /\ \A i \in DOMAIN requests' : i + 1 \in DOMAIN requests /\ requests'[i] = requests[i + 1]
        <3>1. /\ 1 \in DOMAIN requests /\ Head(requests) = requests[1] /\ requests[1] \in MusicRequests
              /\ \A i \in DOMAIN requests' : i + 1 \in DOMAIN requests /\ requests'[i] = requests[i + 1]
            BY <1>2, <2>0
        <3> QED
            BY <3>1 DEF MusicRequests
    <2>2. worker'.generation = requests[1].generation /\ worker'.pc \in {"leave", requests[1].kind}
        BY <1>3, <2>1, WorkerGoes
    <2>3. worker'.pc \in TrackPcs => requests[1].kind = "play"
        BY <2>1, <2>2 DEF TrackPcs
    <2> QED
        BY <1>1, <2>1, <2>2, <2>3
<1>4. CASE ~Receive
    <2>1. worker'.generation = worker.generation /\ (worker'.pc \in TrackPcs => worker.pc \in TrackPcs)
        BY <1>4, WorkerGoes
    <2>2. CASE requests' = requests
        BY <1>1, <2>1, <2>2
    <2>3. CASE /\ worker.pc = "again"
               /\ requests' = Append(requests, [kind |-> "play", generation |-> worker.generation])
        <3> DEFINE r == [kind |-> "play", generation |-> worker.generation]
        <3>1. \A i \in DOMAIN requests' : requests'[i] = r \/ (i \in DOMAIN requests /\ requests'[i] = requests[i])
            BY <1>2, <2>3
        <3>2. r.kind = "play" /\ r.generation = worker.generation /\ worker.pc \in TrackPcs
            BY <2>3 DEF TrackPcs
        <3> HIDE DEF r
        <3> QED
            BY <1>1, <2>1, <3>1, <3>2
    <2> QED
        BY <1>4, <2>2, <2>3, WorkerQueues
<1> QED
    BY <1>3, <1>4

\* A step of the worker keeps everything.
LEMMA WorkerKeeps ==
    ASSUME MusicInv, WorkerStep
    PROVE  MusicInv'
<1>0. /\ MusicTypes /\ MusicFlags /\ TracksAreBehind /\ RoomToStop /\ TrackIsOpen /\ ScanIsJoined /\ FencedIsQuiet
      /\ UNCHANGED <<player, scan, running, fenced, caller, mutex, silenced>>
    BY WorkerLeaves DEF MusicInv, application
<1>1. MusicTypes'
    <2>1. requests' \in Seq(MusicRequests) /\ Len(requests') <= QueueDepth
        <3>1. requests \in Seq(MusicRequests) /\ Len(requests) <= QueueDepth /\ worker.generation \in Nat
              /\ QueueDepth \in Nat
            BY <1>0, MusicLimits DEF MusicTypes
        <3>2. [kind |-> "play", generation |-> worker.generation] \in MusicRequests
            BY <3>1 DEF MusicRequests
        <3>3. CASE Receive
            BY <1>0, <3>1, <3>3, WorkerGoes
        <3>4. CASE ~Receive
            BY <1>0, <3>1, <3>2, <3>4, WorkerQueues
        <3> QED
            BY <3>3, <3>4
    <2>2. shown' \in {"stopped", "playing", "paused", "error"}
        BY <1>0, WorkerShows DEF MusicTypes
    <2>3. reading' \subseteq {"player", "scan"} /\ signals' \subseteq {"finished", "scanned"}
        BY <1>0, WorkerHolds DEF MusicTypes
    <2>4. worker' \in [pc : WorkerPcs, generation : Nat, eof : BOOLEAN, held : BOOLEAN]
        BY <1>0, WorkerGoes
    <2> QED
        BY <1>0, <2>1, <2>2, <2>3, <2>4 DEF MusicTypes
<1>2. MusicFlags'
    <2>1. sound' \in BOOLEAN
        BY <1>0 DEF MusicFlags, WorkerStep, Receive, RunStop, RunPlay, OpenTrack, PrepareTrack, AnnounceTrack,
                    TurnLoop, ShowPause, PlayFrame, ShowFrame, CloseTrack, ShowError, ShowEnd, ChooseNext, PlayAgain,
                    LeavePlayer
    <2> QED
        BY <1>0, <2>1 DEF MusicFlags
<1>3. RoomToStop'
    BY <1>0 DEF RoomToStop, Pc
<1>4. ScanIsJoined'
    <2>1. ("scanned" \in signals' => "scanned" \in signals) /\ ("scan" \in reading' => "scan" \in reading)
        BY <1>0, WorkerHolds
    <2> QED
        BY <1>0, <2>1 DEF ScanIsJoined, Pc
<1>5. FencedIsQuiet'
    <2>1. fenced => ("player" \in reading' => "player" \in reading)
        BY <1>0, WorkerHolds
    <2> QED
        BY <1>0, <2>1 DEF FencedIsQuiet, Pc
<1> QED
    BY <1>0, <1>1, <1>2, <1>3, <1>4, <1>5, WorkerKeepsBehind, WorkerOpens DEF MusicInv

\* So does a step of the scan.
LEMMA ScanKeeps ==
    ASSUME MusicInv, ScanStep
    PROVE  MusicInv'
<1>0. /\ MusicTypes /\ MusicFlags /\ TracksAreBehind /\ RoomToStop /\ TrackIsOpen /\ ScanIsJoined /\ FencedIsQuiet
      /\ UNCHANGED <<player, requests, worker, shown, sound, running, fenced, caller, mutex, silenced>>
    BY DEF MusicInv, ScanStep
<1>1. /\ scan' \in [pc : {"none", "begin", "walk", "end", "give"}, pending : BOOLEAN, cancel : BOOLEAN,
                    quiescing : BOOLEAN, there : BOOLEAN]
      /\ scan'.pending = scan.pending /\ scan'.there = scan.there
      /\ reading' \subseteq {"player", "scan"} /\ signals' \subseteq {"finished", "scanned"}
      /\ "player" \in reading' => "player" \in reading
      /\ "finished" \in signals' => "finished" \in signals
      /\ scan.pc # "none"
      /\ "scanned" \in signals' => scan'.pc = "none" \/ "scanned" \in signals
      /\ "scan" \in reading' => scan'.pc \in {"walk", "end"}
    BY <1>0 DEF MusicTypes, ScanIsJoined, ScanStep, ScanTo, ScanOpens, ScanWalks, ScanEnds, ScanGives
<1>2. MusicTypes'
    BY <1>0, <1>1 DEF MusicTypes
<1>3. MusicFlags' /\ TracksAreBehind' /\ RoomToStop'
    BY <1>0 DEF MusicFlags, TracksAreBehind, RoomToStop, Pc
<1>4. TrackIsOpen' /\ ScanIsJoined' /\ FencedIsQuiet'
    BY <1>0, <1>1 DEF TrackIsOpen, ScanIsJoined, FencedIsQuiet, Pc
<1> QED
    BY <1>0, <1>2, <1>3, <1>4 DEF MusicInv

\* Where a caller goes from where it is.
LEMMA CallerGoes ==
    ASSUME MusicTypes, NEW c \in Callers, NEW pc \in CallerPcs, GoesTo(c, pc)
    PROVE  /\ caller' \in [Callers -> [pc : CallerPcs, for : {"stop", "halt", "unstart"}]]
           /\ caller'[c].pc = pc /\ caller'[c].for = caller[c].for
           /\ \A d \in Callers : d # c => caller'[d] = caller[d]
BY DEF MusicTypes, GoesTo

\* The deck begins a call of the player.
LEMMA CallBegins ==
    ASSUME MusicTypes, NEW what \in {"halt", "unstart"}, Begins(what)
    PROVE  /\ caller' \in [Callers -> [pc : CallerPcs, for : {"stop", "halt", "unstart"}]]
           /\ caller'["deck"].pc = "enter" /\ caller'["deck"].for = what
           /\ caller'["power"] = caller["power"]
BY DEF MusicTypes, Begins, Callers, CallerPcs

\* A call that gives up goes back to where it waits for nothing.
LEMMA CallGivesUp ==
    ASSUME MusicTypes, NEW c \in Callers, GivesUp(c)
    PROVE  /\ caller' \in [Callers -> [pc : CallerPcs, for : {"stop", "halt", "unstart"}]]
           /\ caller'[c].pc = (IF c = "power" THEN "failed" ELSE "idle") /\ caller'[c].for = caller[c].for
           /\ \A d \in Callers : d # c => caller'[d] = caller[d]
           /\ mutex' \in Callers \cup {"free"}
<1>1. (IF c = "power" THEN "failed" ELSE "idle") \in CallerPcs
    BY DEF CallerPcs
<1> QED
    BY <1>1, CallerGoes DEF GivesUp, MusicTypes

\* What a call begun by the deck or the shutdown looks like.
LEMMA ScanIsCancelled ==
    ASSUME MusicTypes, NEW c \in Callers, CancelScan(c)
    PROVE  /\ caller' \in [Callers -> [pc : CallerPcs, for : {"stop", "halt", "unstart"}]]
           /\ caller'[c].pc = (IF scan.pending THEN "join" ELSE "enter") /\ caller'[c].for = "stop"
           /\ \A d \in Callers : d # c => caller'[d] = caller[d]
           /\ scan' \in [pc : {"none", "begin", "walk", "end", "give"}, pending : BOOLEAN, cancel : BOOLEAN,
                          quiescing : BOOLEAN, there : BOOLEAN]
           /\ scan'.pc = scan.pc /\ scan'.pending = scan.pending /\ scan'.there = scan.there
BY DEF MusicTypes, CancelScan, CallerPcs

\* Commands leave room for the shutdown's generation, and use it once.
LEMMA CommandsKeepRoom ==
    ASSUME MusicTypes, RoomToStop, CommandStep
    PROVE  RoomToStop'
<1> USE DEF RoomToStop, ToBump, Pc, Callers
<1>0. player.generation \in Nat /\ MaxPlayback \in Nat
    BY MusicLimits DEF MusicTypes
<1>1. CASE PowerFences \/ PowerFreezes
    <2>1. PICK pc \in {"fenced", "frozen"} :
             player' = player /\ GoesTo("power", pc) /\ Pc("power") \in {"idle", "fenced"}
        BY <1>1 DEF PowerFences, PowerFreezes
    <2> QED
        BY <1>0, <2>1, CallerGoes DEF CallerPcs
<1>2. CASE Halt
    BY <1>0, <1>2, CallBegins DEF Halt, Counts
<1>3. CASE Start
    <2>1. player'.generation = player.generation
        BY <1>3 DEF Start, StartPlayer, MusicTypes
    <2> QED
        BY <1>0, <1>3, <2>1, CallBegins DEF Start, Counts
<1>4. CASE Play
    <2>1. player'.generation = player.generation + 1 /\ GoesTo("deck", "unpause") /\ Counts
        BY <1>4 DEF Play, MusicTypes
    <2>2. "unpause" \in CallerPcs
        BY DEF CallerPcs
    <2> QED
        BY <1>0, <2>1, <2>2, CallerGoes DEF Counts
<1>5. CASE Unpause
    <2>1. player'.generation = player.generation /\ GoesTo("deck", "idle")
        BY <1>5 DEF Unpause, MusicTypes
    <2>2. "idle" \in CallerPcs
        BY DEF CallerPcs
    <2> QED
        BY <1>0, <2>1, <2>2, CallerGoes
<1>6. CASE PauseOrResume \/ CycleRepeat \/ StartScan
    <2>1. player'.generation = player.generation /\ caller' = caller
        BY <1>6 DEF PauseOrResume, CycleRepeat, StartScan, MusicTypes
    <2> QED
        BY <2>1
<1>7. ASSUME NEW c \in Callers, CancelScan(c) PROVE RoomToStop'
    <2>1. /\ player' = player
          /\ c = "deck" => Counts
          /\ c = "power" => Pc(c) = "frozen"
        BY <1>7 DEF CancelScan
    <2> QED
        BY <1>0, <1>7, <2>1, ScanIsCancelled DEF Counts
<1>8. ASSUME NEW c \in Callers, JoinScan(c) \/ Discard(c) \/ Stopped(c) PROVE RoomToStop'
    <2>1. PICK pc \in {"enter", "failed", "send", "quiet", "idle"} :
             GoesTo(c, pc) /\ (pc = "enter" => Pc(c) = "join") /\ (pc = "idle" => c # "power")
        BY <1>8 DEF JoinScan, Discard, Stopped
    <2>2. player' = player /\ pc \in CallerPcs
        BY <1>8 DEF JoinScan, Discard, Stopped, CallerPcs
    <2> QED
        BY <1>0, <2>1, <2>2, CallerGoes
<1>9. ASSUME NEW c \in Callers, JoinTimesOut(c) \/ WaitTimesOut(c) PROVE RoomToStop'
    BY <1>0, <1>9, CallGivesUp DEF JoinTimesOut, WaitTimesOut
<1>10. ASSUME NEW c \in Callers, EnterPlayer(c) PROVE RoomToStop'
    <2>1. PICK pc \in {"bump", "idle", "stopped"} : GoesTo(c, pc) /\ Pc(c) = "enter" /\ (pc = "idle" => caller[c].for = "halt")
        BY <1>10 DEF EnterPlayer
    <2>2. player'.generation = player.generation /\ pc \in CallerPcs
        BY <1>10 DEF EnterPlayer, MusicTypes, CallerPcs
    <2> QED
        BY <1>0, <2>1, <2>2, CallerGoes
<1>11. ASSUME NEW c \in Callers, BumpGeneration(c) PROVE RoomToStop'
    <2>1. player'.generation = player.generation + 1 /\ GoesTo(c, "discard") /\ Pc(c) = "bump" /\ "discard" \in CallerPcs
        BY <1>11 DEF BumpGeneration, MusicTypes, CallerPcs
    <2> QED
        BY <1>0, <2>1, CallerGoes
<1>12. ASSUME NEW c \in Callers, SendStop(c) PROVE RoomToStop'
    <2>1. player' = player /\ (GoesTo(c, "wait") \/ GivesUp(c)) /\ Pc(c) = "send" /\ "wait" \in CallerPcs
        BY <1>12 DEF SendStop, CallerPcs
    <2> QED
        BY <1>0, <2>1, CallerGoes, CallGivesUp
<1>13. ASSUME NEW c \in Callers, DeleteWorker(c) PROVE RoomToStop'
    <2>1. player'.generation = player.generation /\ GoesTo(c, "stopped") /\ "stopped" \in CallerPcs
        BY <1>13 DEF DeleteWorker, MusicTypes, CallerPcs
    <2> QED
        BY <1>0, <2>1, CallerGoes
<1> QED
    BY <1>1, <1>2, <1>3, <1>4, <1>5, <1>6, <1>7, <1>8, <1>9, <1>10, <1>11, <1>12, <1>13 DEF CommandStep

\* Where the callers are after a command is a place to be.
LEMMA CommandsMoveCallers ==
    ASSUME MusicTypes, CommandStep
    PROVE  /\ caller' \in [Callers -> [pc : CallerPcs, for : {"stop", "halt", "unstart"}]]
           /\ mutex' \in Callers \cup {"free"}
<1> USE DEF Callers
<1>0. mutex \in Callers \cup {"free"} /\ caller \in [Callers -> [pc : CallerPcs, for : {"stop", "halt", "unstart"}]]
    BY DEF MusicTypes
<1>1. CASE PowerFences \/ PowerFreezes
    BY <1>0, <1>1, CallerGoes DEF PowerFences, PowerFreezes, CallerPcs
<1>2. CASE Halt \/ Start
    BY <1>0, <1>2, CallBegins DEF Halt, Start
<1>3. CASE Play \/ Unpause
    BY <1>0, <1>3, CallerGoes DEF Play, Unpause, CallerPcs
<1>4. CASE PauseOrResume \/ CycleRepeat \/ StartScan
    BY <1>0, <1>4 DEF PauseOrResume, CycleRepeat, StartScan
<1>5. ASSUME NEW c \in Callers, CancelScan(c)
      PROVE  caller' \in [Callers -> [pc : CallerPcs, for : {"stop", "halt", "unstart"}]] /\ mutex' = mutex
    BY <1>5, ScanIsCancelled DEF CancelScan
<1>6. ASSUME NEW c \in Callers, JoinScan(c) \/ Discard(c) \/ Stopped(c) \/ EnterPlayer(c) \/ BumpGeneration(c)
                                \/ DeleteWorker(c)
      PROVE  /\ caller' \in [Callers -> [pc : CallerPcs, for : {"stop", "halt", "unstart"}]]
             /\ mutex' \in Callers \cup {"free"}
    <2>1. \E pc \in CallerPcs : GoesTo(c, pc)
        BY <1>6 DEF JoinScan, Discard, Stopped, EnterPlayer, BumpGeneration, DeleteWorker, CallerPcs
    <2>2. mutex' \in {mutex, c, "free"}
        BY <1>6 DEF JoinScan, Discard, Stopped, EnterPlayer, BumpGeneration, DeleteWorker
    <2> QED
        BY <1>0, <2>1, <2>2, CallerGoes
<1>7. ASSUME NEW c \in Callers, JoinTimesOut(c) \/ WaitTimesOut(c)
      PROVE  /\ caller' \in [Callers -> [pc : CallerPcs, for : {"stop", "halt", "unstart"}]]
             /\ mutex' \in Callers \cup {"free"}
    BY <1>7, CallGivesUp DEF JoinTimesOut, WaitTimesOut
<1>8. ASSUME NEW c \in Callers, SendStop(c)
      PROVE  /\ caller' \in [Callers -> [pc : CallerPcs, for : {"stop", "halt", "unstart"}]]
             /\ mutex' \in Callers \cup {"free"}
    <2>1. (GoesTo(c, "wait") /\ mutex' = mutex) \/ GivesUp(c)
        BY <1>8 DEF SendStop
    <2> QED
        BY <1>0, <2>1, CallerGoes, CallGivesUp DEF CallerPcs
<1> QED
    BY <1>0, <1>1, <1>2, <1>3, <1>4, <1>5, <1>6, <1>7, <1>8 DEF CommandStep

\* What commands do to the player and to the worker, which they only make and delete.
LEMMA CommandsKeepPlayer ==
    ASSUME MusicTypes, CommandStep
    PROVE  /\ player' \in [up : BOOLEAN, shutting : BOOLEAN, generation : Nat, paused : BOOLEAN, repeat : BOOLEAN]
           /\ player'.generation \in {player.generation, player.generation + 1}
           /\ worker' \in [pc : WorkerPcs, generation : Nat, eof : BOOLEAN, held : BOOLEAN]
           /\ worker'.generation = worker.generation
           /\ worker'.pc \in {worker.pc, "gone", "receive"}
           /\ shown' \in {shown, "stopped"} /\ sound' = sound /\ reading' = reading
<1>0. /\ player \in [up : BOOLEAN, shutting : BOOLEAN, generation : Nat, paused : BOOLEAN, repeat : BOOLEAN]
      /\ worker \in [pc : WorkerPcs, generation : Nat, eof : BOOLEAN, held : BOOLEAN]
    BY DEF MusicTypes
<1>1. CASE PowerFences \/ PowerFreezes \/ Halt \/ StartScan
    BY <1>0, <1>1 DEF PowerFences, PowerFreezes, Halt, StartScan, playing
<1>2. CASE Start
    BY <1>0, <1>2 DEF Start, StartPlayer, WorkerPcs
<1>3. CASE Play
    BY <1>0, <1>3 DEF Play
<1>7. CASE Unpause \/ CycleRepeat
    BY <1>0, <1>7 DEF Unpause, CycleRepeat, playing
<1>8. CASE PauseOrResume
    BY <1>0, <1>8 DEF PauseOrResume, playing
<1>4. CASE \E c \in Callers : CancelScan(c) \/ JoinScan(c) \/ JoinTimesOut(c) \/ Discard(c) \/ SendStop(c)
                              \/ WaitTimesOut(c) \/ Stopped(c)
    BY <1>0, <1>4 DEF CancelScan, JoinScan, JoinTimesOut, Discard, SendStop, WaitTimesOut, Stopped, playing
<1>5. CASE \E c \in Callers : EnterPlayer(c) \/ BumpGeneration(c)
    BY <1>0, <1>5 DEF EnterPlayer, BumpGeneration, playing
<1>6. CASE \E c \in Callers : DeleteWorker(c)
    BY <1>0, <1>6 DEF DeleteWorker, WorkerPcs
<1> QED
    BY <1>1, <1>2, <1>3, <1>4, <1>5, <1>6, <1>7, <1>8 DEF CommandStep

\* The queue after a command: as it was, empty, or with one request more.
LEMMA CommandsQueue ==
    ASSUME MusicTypes, CommandStep
    PROVE  \/ requests' = requests
           \/ requests' = <<>>
           \/ /\ Len(requests) < QueueDepth
              /\ \/ Play /\ requests' = Append(requests, [kind |-> "play", generation |-> player.generation + 1])
                 \/ /\ player' = player
                    /\ requests' = Append(requests, [kind |-> "stop", generation |-> player.generation])
BY DEF CommandStep, PowerFences, PowerFreezes, Halt, StartScan, Start, StartPlayer, Play, Unpause, PauseOrResume,
       CycleRepeat, CancelScan, JoinScan, JoinTimesOut, Discard, SendStop, WaitTimesOut, Stopped, EnterPlayer,
       BumpGeneration, DeleteWorker, playing

\* The scan after a command.
LEMMA CommandsKeepScan ==
    ASSUME MusicTypes, CommandStep
    PROVE  /\ scan' \in [pc : {"none", "begin", "walk", "end", "give"}, pending : BOOLEAN, cancel : BOOLEAN,
                         quiescing : BOOLEAN, there : BOOLEAN]
           /\ signals' \subseteq signals
<1>0. /\ scan \in [pc : {"none", "begin", "walk", "end", "give"}, pending : BOOLEAN, cancel : BOOLEAN,
                   quiescing : BOOLEAN, there : BOOLEAN]
    BY DEF MusicTypes
<1>1. CASE PowerFences \/ PowerFreezes \/ Halt \/ Play \/ Unpause \/ PauseOrResume \/ CycleRepeat
    BY <1>0, <1>1 DEF PowerFences, PowerFreezes, Halt, Play, Unpause, PauseOrResume, CycleRepeat, application
<1>2. CASE Start \/ StartScan
    BY <1>0, <1>2 DEF Start, StartPlayer, StartScan
<1>3. CASE \E c \in Callers : CancelScan(c) \/ JoinScan(c) \/ JoinTimesOut(c) \/ Discard(c) \/ SendStop(c)
                              \/ WaitTimesOut(c)
    BY <1>0, <1>3 DEF CancelScan, JoinScan, JoinTimesOut, Discard, SendStop, WaitTimesOut, application
<1>4. CASE \E c \in Callers : EnterPlayer(c) \/ BumpGeneration(c) \/ DeleteWorker(c)
    BY <1>0, <1>4 DEF EnterPlayer, BumpGeneration, DeleteWorker, application
<1>5. ASSUME NEW c \in Callers, Stopped(c) PROVE scan' \in [pc : {"none", "begin", "walk", "end", "give"},
         pending : BOOLEAN, cancel : BOOLEAN, quiescing : BOOLEAN, there : BOOLEAN] /\ signals' \subseteq signals
    <2>1. PICK there \in BOOLEAN, quiescing \in BOOLEAN :
             scan' = [scan EXCEPT !.there = there, !.quiescing = quiescing] /\ signals' = signals
        BY <1>0, <1>5 DEF Stopped
    <2> QED
        BY <1>0, <2>1
<1> QED
    BY <1>1, <1>2, <1>3, <1>4, <1>5 DEF CommandStep

\* The types after a command.
LEMMA CommandsAreTyped ==
    ASSUME MusicTypes, CommandStep
    PROVE  MusicTypes'
<1>1. requests' \in Seq(MusicRequests) /\ Len(requests') <= QueueDepth
    <2>1. requests \in Seq(MusicRequests) /\ Len(requests) <= QueueDepth /\ player.generation \in Nat /\ QueueDepth \in Nat
        BY MusicLimits DEF MusicTypes
    <2>2. /\ [kind |-> "play", generation |-> player.generation + 1] \in MusicRequests
          /\ [kind |-> "stop", generation |-> player.generation] \in MusicRequests
        BY <2>1 DEF MusicRequests
    <2>3. CASE requests' = <<>>
        BY <2>1, <2>3
    <2>4. \A r \in MusicRequests : Len(requests) < QueueDepth
             => Append(requests, r) \in Seq(MusicRequests) /\ Len(Append(requests, r)) <= QueueDepth
        BY <2>1
    <2> QED
        BY <2>1, <2>2, <2>3, <2>4, CommandsQueue
<1> QED
    BY <1>1, CommandsMoveCallers, CommandsKeepPlayer, CommandsKeepScan DEF MusicTypes

\* The flags after a command.
LEMMA CommandsKeepFlags ==
    ASSUME MusicFlags, MusicTypes, CommandStep
    PROVE  MusicFlags'
<1> USE DEF MusicFlags, application, playing
<1>0. sound' = sound
    BY CommandsKeepPlayer
<1>1. CASE PowerFences \/ PowerFreezes \/ Halt \/ StartScan \/ Start \/ Play \/ Unpause \/ PauseOrResume \/ CycleRepeat
    BY <1>0, <1>1 DEF PowerFences, PowerFreezes, Halt, StartScan, Start, Play, Unpause, PauseOrResume, CycleRepeat
<1>2. CASE \E c \in Callers : CancelScan(c) \/ JoinScan(c) \/ JoinTimesOut(c) \/ Discard(c) \/ SendStop(c)
                              \/ WaitTimesOut(c) \/ EnterPlayer(c) \/ BumpGeneration(c) \/ DeleteWorker(c)
    BY <1>0, <1>2 DEF CancelScan, JoinScan, JoinTimesOut, Discard, SendStop, WaitTimesOut, EnterPlayer,
                      BumpGeneration, DeleteWorker
<1>3. CASE \E c \in Callers : Stopped(c)
    BY <1>0, <1>3 DEF Stopped
<1> QED
    BY <1>1, <1>2, <1>3 DEF CommandStep

\* Only play() and a stop begin a generation, and a stop leaves every track behind it.
LEMMA CommandsKeepBehind ==
    ASSUME MusicTypes, TracksAreBehind, CommandStep
    PROVE  TracksAreBehind'
<1> USE DEF TracksAreBehind
<1>0. /\ requests \in Seq(MusicRequests) /\ worker.generation \in Nat /\ player.generation \in Nat
      /\ \A i \in DOMAIN requests : requests[i].generation \in Nat
      /\ player'.generation \in {player.generation, player.generation + 1}
      /\ worker'.generation = worker.generation /\ worker'.pc \in {worker.pc, "gone", "receive"}
    <2>1. requests \in Seq(MusicRequests)
        BY DEF MusicTypes
    <2>2. \A i \in DOMAIN requests : requests[i] \in MusicRequests
        BY <2>1
    <2> QED
        BY <2>1, <2>2, CommandsKeepPlayer DEF MusicTypes, MusicRequests
<1>1. worker'.pc \in TrackPcs => worker.pc \in TrackPcs
    BY <1>0 DEF TrackPcs
<1>2. /\ silenced' = silenced \/ silenced' = FALSE \/ player'.generation = player.generation + 1
      /\ Play => silenced' = FALSE
    BY <1>0 DEF CommandStep, PowerFences, PowerFreezes, Halt, StartScan, Start, Play, Unpause, PauseOrResume,
                CycleRepeat, CancelScan, JoinScan, JoinTimesOut, Discard, SendStop, WaitTimesOut, Stopped,
                EnterPlayer, BumpGeneration, DeleteWorker, MusicTypes
<1>3. /\ worker'.generation <= player'.generation
      /\ silenced' /\ worker'.pc \in TrackPcs => worker'.generation < player'.generation
    BY <1>0, <1>1, <1>2
<1>4. CASE requests' = requests \/ requests' = <<>>
    BY <1>0, <1>2, <1>3, <1>4
<1>5. CASE Play /\ requests' = Append(requests, [kind |-> "play", generation |-> player.generation + 1])
    <2> DEFINE r == [kind |-> "play", generation |-> player.generation + 1]
    <2>1. \A i \in DOMAIN requests' : requests'[i] = r \/ (i \in DOMAIN requests /\ requests'[i] = requests[i])
        BY <1>0, <1>5
    <2>2. r.generation = player'.generation /\ ~silenced'
        BY <1>2, <1>5 DEF Play, MusicTypes
    <2> HIDE DEF r
    <2> QED
        BY <1>0, <1>3, <2>1, <2>2
<1>6. CASE player' = player /\ requests' = Append(requests, [kind |-> "stop", generation |-> player.generation])
    <2> DEFINE r == [kind |-> "stop", generation |-> player.generation]
    <2>1. \A i \in DOMAIN requests' : requests'[i] = r \/ (i \in DOMAIN requests /\ requests'[i] = requests[i])
        BY <1>0, <1>6
    <2>2. r.generation = player'.generation /\ r.kind = "stop"
        BY <1>6
    <2>3. silenced' => silenced
        <3>1. player'.generation # player.generation + 1
            BY <1>0, <1>6
        <3> QED
            BY <1>2, <3>1
    <2> HIDE DEF r
    <2> QED
        BY <1>0, <1>3, <1>6, <2>1, <2>2, <2>3
<1> QED
    BY <1>4, <1>5, <1>6, CommandsQueue

\* A worker is made when the player comes up and deleted when it said that it ended.
LEMMA CommandsKeepOpen ==
    ASSUME MusicTypes, TrackIsOpen, CommandStep
    PROVE  TrackIsOpen'
<1> USE DEF TrackIsOpen
<1>0. /\ sound' = sound /\ reading' = reading /\ signals' \subseteq signals
      /\ worker \in [pc : WorkerPcs, generation : Nat, eof : BOOLEAN, held : BOOLEAN]
      /\ player \in [up : BOOLEAN, shutting : BOOLEAN, generation : Nat, paused : BOOLEAN, repeat : BOOLEAN]
    BY CommandsKeepPlayer, CommandsKeepScan DEF MusicTypes
<1>1. CASE Start
    <2>1. \/ player.up /\ player' = player /\ worker' = worker
          \/ ~player.up /\ player'.up = TRUE /\ worker'.pc = "receive" /\ signals' = {}
        BY <1>0, <1>1 DEF Start, StartPlayer
    <2> QED
        BY <1>0, <2>1 DEF TrackPcs, SoundPcs
<1>2. CASE \E c \in Callers : DeleteWorker(c)
    <2>1. "finished" \in signals /\ signals' = signals \ {"finished"} /\ worker'.pc = "gone" /\ player'.up = FALSE
        BY <1>0, <1>2 DEF DeleteWorker
    <2> QED
        BY <1>0, <2>1 DEF TrackPcs, SoundPcs
<1>3. CASE ~Start /\ ~\E c \in Callers : DeleteWorker(c)
    <2>1. worker' = worker
        BY <1>3 DEF CommandStep, PowerFences, PowerFreezes, Halt, StartScan, Play, Unpause, PauseOrResume, CycleRepeat,
                    CancelScan, JoinScan, JoinTimesOut, Discard, SendStop, WaitTimesOut, Stopped, EnterPlayer,
                    BumpGeneration, playing
    <2>2. player'.up = player.up
        <3>1. CASE PowerFences \/ PowerFreezes \/ Halt \/ StartScan
            BY <3>1 DEF PowerFences, PowerFreezes, Halt, StartScan
        <3>2. CASE Play \/ Unpause \/ PauseOrResume \/ CycleRepeat
            BY <1>0, <3>2 DEF Play, Unpause, PauseOrResume, CycleRepeat
        <3>3. CASE \E c \in Callers : EnterPlayer(c) \/ BumpGeneration(c)
            BY <1>0, <3>3 DEF EnterPlayer, BumpGeneration
        <3>4. CASE \E c \in Callers : CancelScan(c) \/ JoinScan(c) \/ JoinTimesOut(c) \/ Discard(c) \/ SendStop(c)
                                      \/ WaitTimesOut(c) \/ Stopped(c)
            BY <3>4 DEF CancelScan, JoinScan, JoinTimesOut, Discard, SendStop, WaitTimesOut, Stopped
        <3> QED
            BY <1>3, <3>1, <3>2, <3>3, <3>4 DEF CommandStep
    <2> QED
        BY <1>0, <2>1, <2>2
<1> QED
    BY <1>1, <1>2, <1>3

\* Who stops the application waits for the scan first, and nobody starts one meanwhile.
LEMMA CommandsKeepScans ==
    ASSUME MusicTypes, ScanIsJoined, FencedIsQuiet, TrackIsOpen, CommandStep
    PROVE  ScanIsJoined' /\ FencedIsQuiet'
<1> USE DEF ScanIsJoined, FencedIsQuiet, Pc, Joined, Callers
<1>0. /\ reading' = reading /\ signals' \subseteq signals
      /\ scan \in [pc : {"none", "begin", "walk", "end", "give"}, pending : BOOLEAN, cancel : BOOLEAN,
                   quiescing : BOOLEAN, there : BOOLEAN]
    BY CommandsKeepPlayer, CommandsKeepScan DEF MusicTypes
<1>1. CASE PowerFences \/ PowerFreezes
    <2>1. PICK pc \in {"fenced", "frozen"} : GoesTo("power", pc) /\ fenced' /\ scan' = scan /\ running' = running
        BY <1>1 DEF PowerFences, PowerFreezes, application
    <2> QED
        BY <1>0, <2>1, CallerGoes DEF CallerPcs
<1>2. CASE Halt
    BY <1>0, <1>2, CallBegins DEF Halt, Counts, application
<1>3. CASE Start
    <2>1. /\ fenced' = fenced /\ scan'.pc = scan.pc /\ scan'.pending = scan.pending
          /\ scan.there => scan'.there
          /\ \/ caller' = caller /\ scan'.there
             \/ Begins("unstart") /\ running' = running
        BY <1>0, <1>3 DEF Start
    <2> QED
        BY <1>0, <2>1, CallBegins
<1>4. CASE Play \/ Unpause
    <2>1. PICK pc \in {"unpause", "idle"} : GoesTo("deck", pc) /\ UNCHANGED application
        BY <1>4 DEF Play, Unpause
    <2> QED
        BY <1>0, <2>1, CallerGoes DEF CallerPcs, application
<1>5. CASE PauseOrResume \/ CycleRepeat
    BY <1>0, <1>5 DEF PauseOrResume, CycleRepeat, application
<1>6. CASE StartScan
    <2>1. /\ caller' = caller /\ running /\ running' = running /\ ~fenced /\ fenced' = fenced /\ Pc("deck") = "idle"
          /\ scan'.there = scan.there /\ "scanned" \notin signals'
          /\ scan'.pc # "none" => scan'.pending
          /\ scan.pc = "none"
        BY <1>0, <1>6 DEF StartScan
    <2> QED
        BY <1>0, <2>1
<1>7. ASSUME NEW c \in Callers, CancelScan(c) PROVE ScanIsJoined' /\ FencedIsQuiet'
    <2>1. running' = running /\ fenced' = fenced /\ (c = "power" => Pc(c) = "frozen")
        BY <1>7 DEF CancelScan
    <2> QED
        BY <1>0, <1>7, <2>1, ScanIsCancelled
<1>8. ASSUME NEW c \in Callers, JoinScan(c) PROVE ScanIsJoined' /\ FencedIsQuiet'
    <2>1. PICK pc \in {"enter", "failed"} : GoesTo(c, pc) /\ Pc(c) = "join"
        BY <1>8 DEF JoinScan
    <2>2. /\ "scanned" \in signals /\ scan'.pc = scan.pc /\ scan'.there = scan.there /\ scan'.pending = FALSE
          /\ running' = running /\ fenced' = fenced
        BY <1>0, <1>8 DEF JoinScan
    <2> QED
        BY <1>0, <2>1, <2>2, CallerGoes DEF CallerPcs
<1>9. ASSUME NEW c \in Callers, JoinTimesOut(c) \/ WaitTimesOut(c) PROVE ScanIsJoined' /\ FencedIsQuiet'
    <2>1. GivesUp(c) /\ UNCHANGED application /\ Pc(c) \in {"join", "wait"}
        BY <1>9 DEF JoinTimesOut, WaitTimesOut
    <2> QED
        BY <1>0, <2>1, CallGivesUp DEF application
<1>10. ASSUME NEW c \in Callers, EnterPlayer(c) PROVE ScanIsJoined' /\ FencedIsQuiet'
    <2>1. PICK pc \in {"bump", "idle", "stopped"} :
             /\ GoesTo(c, pc) /\ Pc(c) = "enter" /\ UNCHANGED application
             /\ pc = "idle" => caller[c].for = "halt"
             /\ pc = "stopped" => ~player.up \/ caller[c].for = "halt"
        BY <1>10 DEF EnterPlayer
    <2>2. ~player.up => "player" \notin reading
        BY DEF TrackIsOpen, TrackPcs
    <2> QED
        BY <1>0, <2>1, <2>2, CallerGoes DEF CallerPcs, application
<1>11. ASSUME NEW c \in Callers, BumpGeneration(c) \/ Discard(c) PROVE ScanIsJoined' /\ FencedIsQuiet'
    <2>1. PICK pc \in {"discard", "send"} : GoesTo(c, pc) /\ Pc(c) \in {"bump", "discard"} /\ UNCHANGED application
        BY <1>11 DEF BumpGeneration, Discard
    <2> QED
        BY <1>0, <2>1, CallerGoes DEF CallerPcs, application
<1>12. ASSUME NEW c \in Callers, SendStop(c) PROVE ScanIsJoined' /\ FencedIsQuiet'
    <2>1. (GoesTo(c, "wait") \/ GivesUp(c)) /\ Pc(c) = "send" /\ UNCHANGED application
        BY <1>12 DEF SendStop
    <2> QED
        BY <1>0, <2>1, CallerGoes, CallGivesUp DEF CallerPcs, application
<1>13. ASSUME NEW c \in Callers, DeleteWorker(c) PROVE ScanIsJoined' /\ FencedIsQuiet'
    <2>1. GoesTo(c, "stopped") /\ Pc(c) = "wait" /\ UNCHANGED application /\ "finished" \in signals
        BY <1>13 DEF DeleteWorker
    <2>2. "player" \notin reading
        BY <2>1 DEF TrackIsOpen, TrackPcs
    <2> QED
        BY <1>0, <2>1, <2>2, CallerGoes DEF CallerPcs, application
<1>14. ASSUME NEW c \in Callers, Stopped(c) PROVE ScanIsJoined' /\ FencedIsQuiet'
    <2>1. /\ GoesTo(c, IF c = "power" THEN "quiet" ELSE "idle") /\ Pc(c) = "stopped" /\ fenced' = fenced
          /\ scan'.pc = scan.pc /\ scan'.pending = scan.pending
          /\ running' = (running /\ ~(c = "deck" /\ caller[c].for = "stop"))
          /\ scan'.there = (scan.there /\ ~(c = "deck" /\ caller[c].for = "stop"))
        BY <1>0, <1>14 DEF Stopped
    <2>2. (GoesTo(c, "quiet") /\ c = "power") \/ (GoesTo(c, "idle") /\ c = "deck")
        BY <2>1
    <2> QED
        BY <1>0, <2>1, <2>2, CallerGoes DEF CallerPcs
<1> QED
    BY <1>1, <1>2, <1>3, <1>4, <1>5, <1>6, <1>7, <1>8, <1>9, <1>10, <1>11, <1>12, <1>13, <1>14 DEF CommandStep

\* The invariant holds throughout.
LEMMA MusicInductive == MusicSpec => []MusicInv
<1>1. MusicInv /\ [MusicNext]_musicVars => MusicInv'
    <2> SUFFICES ASSUME MusicInv, [MusicNext]_musicVars PROVE MusicInv'
        OBVIOUS
    <2>1. CASE CommandStep
        BY <2>1, CommandsAreTyped, CommandsKeepFlags, CommandsKeepBehind, CommandsKeepRoom, CommandsKeepOpen,
           CommandsKeepScans DEF MusicInv
    <2>2. CASE UNCHANGED musicVars
        BY <2>2 DEF musicVars, playing, application, MusicInv, MusicTypes, MusicFlags, TracksAreBehind, RoomToStop,
                    TrackIsOpen, ScanIsJoined, FencedIsQuiet, Pc
    <2> QED
        BY <2>1, <2>2, WorkerKeeps, ScanKeeps DEF MusicNext
<1> QED
    BY <1>1, InitMusicInv, PTL DEF MusicSpec

\* A sequence is known by its elements.
LEMMA SequenceOf ==
    ASSUME NEW T, NEW n \in Nat, NEW s \in [1 .. n -> T]
    PROVE  s \in Seq(T)
BY SeqDef, Zenon

\* The types of the music application are respected, and no generation is used that
\* was kept for the shutdown.
THEOREM MusicTypeCorrect == MusicSpec => []MusicTypeOK
<1>1. MusicInv => MusicTypeOK
    <2> SUFFICES ASSUME MusicInv PROVE MusicTypeOK
        OBVIOUS
    <2>0. MusicTypes /\ MusicFlags /\ TracksAreBehind /\ RoomToStop
        BY DEF MusicInv
    <2>1. player.generation \in 0 .. MaxPlayback
        BY <2>0, MusicLimits DEF MusicTypes, RoomToStop
    <2>2. player \in [up : BOOLEAN, shutting : BOOLEAN, generation : 0 .. MaxPlayback, paused : BOOLEAN, repeat : BOOLEAN]
        BY <2>0, <2>1 DEF MusicTypes
    <2>3. requests \in Seq([kind : {"play", "stop"}, generation : 0 .. MaxPlayback])
        <3>1. requests \in Seq(MusicRequests) /\ player.generation \in Nat /\ MaxPlayback \in Nat
            BY <2>0, MusicLimits DEF MusicTypes
        <3>2. \A i \in DOMAIN requests : requests[i] \in MusicRequests /\ requests[i].generation <= player.generation
            BY <2>0, <3>1 DEF TracksAreBehind
        <3>3. \A i \in DOMAIN requests : requests[i] \in [kind : {"play", "stop"}, generation : 0 .. MaxPlayback]
            BY <2>1, <3>1, <3>2 DEF MusicRequests
        <3>4. requests \in [1 .. Len(requests) -> [kind : {"play", "stop"}, generation : 0 .. MaxPlayback]]
            BY <3>1, <3>3
        <3>5. Len(requests) \in Nat
            BY <3>1
        <3> QED
            BY <3>4, <3>5, SequenceOf
    <2> QED
        BY <2>0, <2>2, <2>3 DEF MusicTypes, MusicFlags, MusicTypeOK
<1> QED
    BY <1>1, MusicInductive, PTL

(* What a stop, of the application or of the shutdown, frees is not used:   *)
(* no worker without its queue, no scan that gives a deleted semaphore, and *)
(* nobody reads the card once the shutdown found the application quiet.     *)
THEOREM NothingFreedIsUsed == MusicSpec => []FreedIsUnused
<1>1. MusicInv => FreedIsUnused
    <2> SUFFICES ASSUME MusicInv PROVE FreedIsUnused
        OBVIOUS
    <2>1. TrackIsOpen /\ ScanIsJoined /\ FencedIsQuiet /\ reading \subseteq {"player", "scan"}
        BY DEF MusicInv, MusicTypes
    <2>2. ~player.up => worker.pc = "gone" /\ ~sound /\ "player" \notin reading
        BY <2>1 DEF TrackIsOpen, SoundPcs, TrackPcs
    <2>3. ~scan.there => scan.pc = "none"
        BY <2>1 DEF ScanIsJoined
    <2>4. Pc("power") = "quiet" => "player" \notin reading /\ "scan" \notin reading
        BY <2>1 DEF FencedIsQuiet, ScanIsJoined
    <2> QED
        BY <2>1, <2>2, <2>3, <2>4 DEF FreedIsUnused
<1> QED
    BY <1>1, MusicInductive, PTL

(* After a halt or a stop nothing of an earlier track is shown until the    *)
(* next play, whatever the worker was about to publish.                     *)
THEOREM NothingSilencedIsShown == MusicSpec => SilencedStaysSilent
<1>1. MusicInv /\ [MusicNext]_musicVars => [silenced /\ silenced' => shown' \in {shown, "stopped"}]_musicVars
    <2> SUFFICES ASSUME MusicInv, MusicNext, silenced PROVE shown' \in {shown, "stopped"}
        OBVIOUS
    <2>0. MusicTypes /\ TracksAreBehind
        BY DEF MusicInv
    <2>1. CASE WorkerStep
        <3>1. worker.pc \in TrackPcs => ~IsCurrent
            BY <2>0 DEF TracksAreBehind, IsCurrent, MusicTypes
        <3> QED
            BY <2>0, <2>1, <3>1, WorkerShows
    <2>2. CASE ScanStep
        BY <2>2 DEF ScanStep
    <2>3. CASE CommandStep
        BY <2>0, <2>3, CommandsKeepPlayer
    <2> QED
        BY <2>1, <2>2, <2>3 DEF MusicNext
<1> QED
    BY <1>1, MusicInductive, PTL DEF MusicSpec, SilencedStaysSilent
=============================================================================
