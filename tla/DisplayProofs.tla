--------------------------- MODULE DisplayProofs ---------------------------
(***************************************************************************)
(* The two ways of other tasks to the display: the calls into the LVGL     *)
(* task, whose protocol of hand-over holds for any number of callers, any  *)
(* token width and any number of operations, and the events of SSH, whose  *)
(* queue may have any length.                                              *)
(***************************************************************************)
EXTENDS LvglDispatch, SshClient, SequenceTheorems, TLAPS

\* Where the callback is decides which states the word can be in, and who will
\* give the admission back.
CallbackPhase ==
    /\ cb \in {"idle", "claimed", "call", "finish"} => cbOwner = "caller"
    /\ cb = "release" => cbOwner = "callback"
    /\ cb \in {"claimed", "call", "finish"} <=> jobStatus.state \in {"running", "detached"}
    /\ cb \in {"store", "publish"} <=> jobStatus.state \in {"finishing", "finishing_detached"}
    /\ jobStatus.state = "finishing" => cbOwner = "caller"
    /\ jobStatus.state = "finishing_detached" => cbOwner = "callback"

\* From queue() on the slot holds the payload of the admitted caller.
OwningPCs == HoldingPCs \ {"admitted", "store", "refused"}
PayloadIsOwners ==
    /\ jobStatus.state # "idle" => payload.ctx \in Callers
    /\ \A c \in Callers : pc[c] \in OwningPCs => payload = [ctx |-> c, op |-> op[c]]

\* The slot is not taken from under a caller that is publishing or collecting.
SlotIsSettled ==
    \A c \in Callers :
        /\ CallerAt(c, "publish") => jobStatus.state \in Terminal
        /\ CallerAt(c, "collect") => InState("done")

\* What the callback wrote is still there when the word says done.
FrameIsWritten ==
    \/ cb \in {"finish", "store", "publish"}
    \/ InState("done") /\ \A c \in Callers : ~CallerAt(c, "publish")
    => frame[payload.ctx] = payload.op

\* A caller that reads its frame is out of the callback's reach.
ReadersAreSafe ==
    \A c \in Callers : CallerAt(c, "reading") =>
        /\ frame[c] = op[c]
        /\ payload.ctx = c => InState("done")

IInv ==
    /\ DispatchTypeOK
    /\ OneAdmission
    /\ CallbackPhase
    /\ ClaimedPayloadIsCurrent
    /\ PayloadIsOwners
    /\ SlotIsSettled
    /\ FrameIsWritten
    /\ ReadersAreSafe
    /\ NoLostWakeup

-----------------------------------------------------------------------------
USE CallersAssumption, TokenSpaceAssumption, MaxTokensAssumption
USE DEF CallerAt, Goto, InState, Move, Give, Return, Ops, Terminal, JobStates, CallerPCs, CallbackPCs

\* Every step keeps the types.
LEMMA TypeStep == DispatchTypeOK /\ [DispatchNext]_dispatchVars => DispatchTypeOK'
<1> SUFFICES ASSUME DispatchTypeOK, [DispatchNext]_dispatchVars PROVE DispatchTypeOK'
  OBVIOUS
<1> USE DEF DispatchTypeOK, jobVars, semVars, callerVars, cbVars
<1>1. ASSUME NEW c \in Callers, TakeAdmission(c) PROVE DispatchTypeOK'
  BY <1>1 DEF TakeAdmission
<1>2. ASSUME NEW c \in Callers, AdmissionTimeout(c) PROVE DispatchTypeOK'
  BY <1>2 DEF AdmissionTimeout
<1>3. ASSUME NEW c \in Callers, DrainAndNumber(c) PROVE DispatchTypeOK'
  BY <1>3 DEF DrainAndNumber, NextRaw
<1>4. ASSUME NEW c \in Callers, QueueStore(c) PROVE DispatchTypeOK'
  <2>1. jobStatus' \in [state : JobStates, token : 0 .. TokenSpace - 1] /\ payload' \in Payloads
    BY <1>4 DEF QueueStore, Payloads
  <2>2. pc' \in [Callers -> CallerPCs]
    BY <1>4 DEF QueueStore
  <2>3. result' \in BOOLEAN /\ admission' \in {0, 1} /\ doneSem' \in {0, 1}
    BY <1>4 DEF QueueStore
  <2>4. op' \in [Callers -> Ops] /\ success' \in [Callers -> BOOLEAN] /\ generation' \in Ops
    BY <1>4 DEF QueueStore
  <2>5. async' \in SUBSET Ops /\ UNCHANGED <<frame, cb, cbPayload, cbOwner>>
    BY <1>4 DEF QueueStore
  <2> QED
    BY <2>1, <2>2, <2>3, <2>4, <2>5
<1>5. ASSUME NEW c \in Callers, QueuePublish(c) PROVE DispatchTypeOK'
  BY <1>5 DEF QueuePublish
<1>6. ASSUME NEW c \in Callers, LockDisplay(c) PROVE DispatchTypeOK'
  BY <1>6 DEF LockDisplay
<1>7. ASSUME NEW c \in Callers, Submit(c) PROVE DispatchTypeOK'
  <2>1. jobStatus' \in [state : JobStates, token : 0 .. TokenSpace - 1] /\ payload' \in Payloads
    BY <1>7 DEF Submit
  <2>2. pc' \in [Callers -> CallerPCs]
    BY <1>7 DEF Submit
  <2>3. result' \in BOOLEAN /\ admission' \in {0, 1} /\ doneSem' \in {0, 1}
    BY <1>7 DEF Submit
  <2>4. op' \in [Callers -> Ops] /\ success' \in [Callers -> BOOLEAN] /\ generation' \in Ops
    BY <1>7 DEF Submit
  <2>5. UNCHANGED <<frame, cb, cbPayload, cbOwner>>
    BY <1>7 DEF Submit
  <2>6. async' \in SUBSET Ops
    <3>1. async' \in {async, async \cup {op[c]}}
      BY <1>7 DEF Submit
    <3>2. op[c] \in Ops /\ async \in SUBSET Ops
      OBVIOUS
    <3> QED
      BY <3>1, <3>2
  <2> QED
    BY <2>1, <2>2, <2>3, <2>4, <2>5, <2>6
<1>8. ASSUME NEW c \in Callers, Wait(c) PROVE DispatchTypeOK'
  <2>1. jobStatus' \in [state : JobStates, token : 0 .. TokenSpace - 1] /\ payload' \in Payloads
    BY <1>8 DEF Wait, CheckDone, BlockOnDone
  <2>2. pc' \in [Callers -> CallerPCs]
    BY <1>8 DEF Wait, CheckDone, BlockOnDone
  <2>3. result' \in BOOLEAN /\ admission' \in {0, 1} /\ doneSem' \in {0, 1}
    BY <1>8 DEF Wait, CheckDone, BlockOnDone
  <2>4. op' \in [Callers -> Ops] /\ success' \in [Callers -> BOOLEAN] /\ generation' \in Ops
    BY <1>8 DEF Wait, CheckDone, BlockOnDone
  <2>5. async' \in SUBSET Ops /\ UNCHANGED <<frame, cb, cbPayload, cbOwner>>
    BY <1>8 DEF Wait, CheckDone, BlockOnDone
  <2> QED
    BY <2>1, <2>2, <2>3, <2>4, <2>5
<1>9. ASSUME NEW c \in Callers, ExpireWait(c) PROVE DispatchTypeOK'
  <2>1. jobStatus' \in [state : JobStates, token : 0 .. TokenSpace - 1] /\ payload' \in Payloads
    BY <1>9 DEF ExpireWait
  <2>2. pc' \in [Callers -> CallerPCs]
    BY <1>9 DEF ExpireWait
  <2>3. result' \in BOOLEAN /\ admission' \in {0, 1} /\ doneSem' \in {0, 1}
    BY <1>9 DEF ExpireWait
  <2>4. op' \in [Callers -> Ops] /\ success' \in [Callers -> BOOLEAN] /\ generation' \in Ops
    BY <1>9 DEF ExpireWait
  <2>5. async' \in SUBSET Ops /\ UNCHANGED <<frame, cb, cbPayload, cbOwner>>
    BY <1>9 DEF ExpireWait
  <2> QED
    BY <2>1, <2>2, <2>3, <2>4, <2>5
<1>10. ASSUME NEW c \in Callers, Detach(c) PROVE DispatchTypeOK'
  <2>1. jobStatus' \in [state : JobStates, token : 0 .. TokenSpace - 1] /\ payload' \in Payloads
    BY <1>10 DEF Detach, CallbackKeepsAdmission
  <2>2. pc' \in [Callers -> CallerPCs]
    BY <1>10 DEF Detach, CallbackKeepsAdmission
  <2>3. result' \in BOOLEAN /\ admission' \in {0, 1} /\ doneSem' \in {0, 1}
    BY <1>10 DEF Detach, CallbackKeepsAdmission
  <2>4. op' \in [Callers -> Ops] /\ success' \in [Callers -> BOOLEAN] /\ generation' \in Ops
    BY <1>10 DEF Detach, CallbackKeepsAdmission
  <2>5. async' \in SUBSET Ops /\ UNCHANGED <<frame, cb, cbPayload, cbOwner>>
    BY <1>10 DEF Detach, CallbackKeepsAdmission
  <2> QED
    BY <2>1, <2>2, <2>3, <2>4, <2>5
<1>11. ASSUME NEW c \in Callers, Verify(c) PROVE DispatchTypeOK'
  BY <1>11 DEF Verify
<1>12. ASSUME NEW c \in Callers, Collect(c) PROVE DispatchTypeOK'
  BY <1>12 DEF Collect
<1>13. ASSUME NEW c \in Callers, Abandon(c) PROVE DispatchTypeOK'
  BY <1>13 DEF Abandon, CallbackKeepsAdmission
<1>14. ASSUME NEW c \in Callers, FinishReading(c) PROVE DispatchTypeOK'
  BY <1>14 DEF FinishReading
<1>15. ASSUME NEW t \in async, CallbackStart(t) PROVE DispatchTypeOK'
  BY <1>15 DEF CallbackStart
<1>16. CASE ClaimPayload
  BY <1>16 DEF ClaimPayload
<1>17. CASE CallFn
  <2>1. cbPayload.op \in Ops
    BY DEF Payloads, NoPayload
  <2>2. frame' \in [Callers -> Ops]
    BY <1>17, <2>1 DEF CallFn
  <2> QED
    BY <1>17, <2>2 DEF CallFn
<1>18. CASE FinishClaim
  BY <1>18 DEF FinishClaim
<1>19. CASE FinishStore
  BY <1>19 DEF FinishStore
<1>20. CASE FinishPublish
  BY <1>20 DEF FinishPublish
<1>21. CASE SignalDone
  BY <1>21 DEF SignalDone
<1>22. CASE CallbackRelease
  BY <1>22 DEF CallbackRelease
<1>23. CASE UNCHANGED dispatchVars
  BY <1>23 DEF dispatchVars
<1> QED
  BY <1>1, <1>2, <1>3, <1>4, <1>5, <1>6, <1>7, <1>8, <1>9, <1>10, <1>11,
     <1>12, <1>13, <1>14, <1>15, <1>16, <1>17, <1>18, <1>19, <1>20, <1>21, <1>22, <1>23
     DEF DispatchNext, CallerStep, RunStep, CallbackStep

\* The free slot satisfies the inductive invariant.
LEMMA IInvInit == DispatchInit => IInv
<1> SUFFICES ASSUME DispatchInit PROVE IInv
  OBVIOUS
<1>1. 0 \in 0 .. TokenSpace - 1 /\ 0 \in Ops
  OBVIOUS
<1>2. DispatchTypeOK
  BY <1>1 DEF DispatchInit, DispatchTypeOK, Payloads, NoPayload
<1>3. OneAdmission /\ CallbackPhase /\ NoLostWakeup
  BY DEF DispatchInit, OneAdmission, CallbackPhase, NoLostWakeup, AdmittedCallers, HoldingPCs, CallbackOwes
<1>4. ClaimedPayloadIsCurrent /\ PayloadIsOwners /\ SlotIsSettled /\ FrameIsWritten /\ ReadersAreSafe
  BY DEF DispatchInit, ClaimedPayloadIsCurrent, PayloadIsOwners, SlotIsSettled, FrameIsWritten, ReadersAreSafe,
         HoldingPCs, OwningPCs
<1> QED
  BY <1>2, <1>3, <1>4 DEF IInv

\* Every step preserves the inductive invariant.
LEMMA IInvStep == IInv /\ [DispatchNext]_dispatchVars => IInv'
<1> SUFFICES ASSUME IInv, [DispatchNext]_dispatchVars PROVE IInv'
  OBVIOUS
<1>0. DispatchTypeOK'
  BY TypeStep DEF IInv
<1> USE <1>0 DEF IInv, DispatchTypeOK, OneAdmission, CallbackPhase, ClaimedPayloadIsCurrent, PayloadIsOwners,
                 SlotIsSettled, FrameIsWritten, ReadersAreSafe, NoLostWakeup, AdmittedCallers,
                 HoldingPCs, OwningPCs, CallbackOwes, jobVars, semVars, callerVars, cbVars
<1>1. ASSUME NEW c \in Callers, TakeAdmission(c) PROVE IInv'
  BY <1>1 DEF TakeAdmission
<1>2. ASSUME NEW c \in Callers, AdmissionTimeout(c) PROVE IInv'
  BY <1>2 DEF AdmissionTimeout
<1>3. ASSUME NEW c \in Callers, DrainAndNumber(c) PROVE IInv'
  BY <1>3 DEF DrainAndNumber, NextRaw
<1>4. ASSUME NEW c \in Callers, QueueStore(c) PROVE IInv'
  BY <1>4 DEF QueueStore
<1>5. ASSUME NEW c \in Callers, QueuePublish(c) PROVE IInv'
  BY <1>5 DEF QueuePublish
<1>6. ASSUME NEW c \in Callers, LockDisplay(c) PROVE IInv'
  BY <1>6 DEF LockDisplay
<1>7. ASSUME NEW c \in Callers, Submit(c) PROVE IInv'
  BY <1>7 DEF Submit
<1>8. ASSUME NEW c \in Callers, Wait(c) PROVE IInv'
  BY <1>8 DEF Wait, CheckDone, BlockOnDone
<1>9. ASSUME NEW c \in Callers, ExpireWait(c) PROVE IInv'
  BY <1>9 DEF ExpireWait
<1>10. ASSUME NEW c \in Callers, Detach(c) PROVE IInv'
  BY <1>10 DEF Detach, CallbackKeepsAdmission
<1>11. ASSUME NEW c \in Callers, Verify(c) PROVE IInv'
  BY <1>11 DEF Verify
<1>12. ASSUME NEW c \in Callers, Collect(c) PROVE IInv'
  BY <1>12 DEF Collect
<1>13. ASSUME NEW c \in Callers, Abandon(c) PROVE IInv'
  BY <1>13 DEF Abandon, CallbackKeepsAdmission
<1>14. ASSUME NEW c \in Callers, FinishReading(c) PROVE IInv'
  BY <1>14 DEF FinishReading
<1>15. ASSUME NEW t \in async, CallbackStart(t) PROVE IInv'
  BY <1>15 DEF CallbackStart
<1>16. CASE ClaimPayload
  BY <1>16 DEF ClaimPayload
<1>17. CASE CallFn
  BY <1>17 DEF CallFn
<1>18. CASE FinishClaim
  BY <1>18 DEF FinishClaim
<1>19. CASE FinishStore
  BY <1>19 DEF FinishStore
<1>20. CASE FinishPublish
  BY <1>20 DEF FinishPublish
<1>21. CASE SignalDone
  BY <1>21 DEF SignalDone
<1>22. CASE CallbackRelease
  BY <1>22 DEF CallbackRelease
<1>23. CASE UNCHANGED dispatchVars
  BY <1>23 DEF dispatchVars
<1> HIDE DEF IInv, DispatchTypeOK, OneAdmission, CallbackPhase, ClaimedPayloadIsCurrent, PayloadIsOwners,
             SlotIsSettled, FrameIsWritten, ReadersAreSafe, NoLostWakeup, AdmittedCallers,
             HoldingPCs, OwningPCs, CallbackOwes, jobVars, semVars, callerVars, cbVars
<1> QED
  BY <1>1, <1>2, <1>3, <1>4, <1>5, <1>6, <1>7, <1>8, <1>9, <1>10, <1>11,
     <1>12, <1>13, <1>14, <1>15, <1>16, <1>17, <1>18, <1>19, <1>20, <1>21, <1>22, <1>23
     DEF DispatchNext, CallerStep, RunStep, CallbackStep

\* The inductive invariant always holds.
LEMMA IInvAlways == DispatchSpec => []IInv
  BY IInvInit, IInvStep, PTL DEF DispatchSpec

\* Every variable keeps its type: every stored token fits its field.
THEOREM TypeCorrect == DispatchSpec => []DispatchTypeOK
<1>1. IInv => DispatchTypeOK
  BY DEF IInv
<1> QED
  BY <1>1, IInvAlways, PTL

\* The slot is never owned twice and never lost, however the timeouts of run()
\* and the callback interleave.
THEOREM AdmissionHasOneOwner == DispatchSpec => []OneAdmission
<1>1. IInv => OneAdmission
  BY DEF IInv
<1> QED
  BY <1>1, IInvAlways, PTL

\* A caller that is told "success" reads what its own operation wrote.
THEOREM SuccessMeansOwnFrame == DispatchSpec => []FrameIsOwn
<1>1. IInv => FrameIsOwn
  BY DEF IInv, FrameIsOwn, ReadersAreSafe, CallbackPhase
<1> QED
  BY <1>1, IInvAlways, PTL

\* The callback runs the payload of the operation it claimed.
THEOREM CallbackRunsItsPayload == DispatchSpec => []ClaimedPayloadIsCurrent
<1>1. IInv => ClaimedPayloadIsCurrent
  BY DEF IInv
<1> QED
  BY <1>1, IInvAlways, PTL

\* The completion signal is never lost on the caller that waits for it.
THEOREM CompletionIsSignalled == DispatchSpec => []NoLostWakeup
<1>1. IInv => NoLostWakeup
  BY DEF IInv
<1> QED
  BY <1>1, IInvAlways, PTL

-----------------------------------------------------------------------------
(* The client of SSH.  That a loss is told is a claim on the order of what *)
(* waits in the queue: every event carries the epoch and the chunk at      *)
(* which the task stood, so between the events before a lost chunk and     *)
(* those after it the epoch has grown; the invariant says so of every      *)
(* chunk that is missing, and of the event that the task would put next.   *)

States == AtEnd \cup {"connecting", "need_key", "need_password", "authenticating",
                      "connected", "disconnecting"}

EventSet == [generation : Generations, epoch : Nat, kind : {"state", "data"}, chunk : 0 .. Chunks]

\* Where the task may be between two states it tells, and where it may be at all.
Places == {"begin", "dial", "verify", "listenKey", "append", "authenticate", "listenPassword",
           "password", "login", "channel", "loop", "input", "output", "close", "leave"}
SessionPlaces == Places \cup {"gone", "tell", "evict"}
DeckPlaces == {"idle", "create", "store", "adopt", "answer", "stopping", "closing", "closed", "kept"}

SessionSet == [pc : SessionPlaces, then : SessionPlaces, generation : 0 .. Sessions,
               heard : 0 .. Sessions, chunk : 0 .. Chunks]

TerminalSet == [expected : 0 .. Sessions, applied : Nat, last : 0 .. Chunks,
                clean : BOOLEAN, glued : BOOLEAN]

SshTypes ==
    /\ clientState \in States /\ stopRequested \in BOOLEAN
    /\ newest \in 0 .. Sessions /\ taskHandle \in 0 .. Sessions
    /\ inbox \in [Questions -> SUBSET Generations]
    /\ session \in SessionSet
    /\ terminal \in TerminalSet
    /\ deck \in [pc : DeckPlaces, question : Questions]
    /\ events \in Seq(EventSet) /\ Len(events) <= EventCapacity
    /\ epoch \in Nat

Alive == session.pc # "gone"

\* The task that lives is that of the newest session, and its handle is known once stored.
SessionIsNewest ==
    /\ Alive => session.generation = newest /\ newest > 0
    /\ ~Alive => session.generation = 0 /\ session.heard = 0
    /\ session.pc \in {"tell", "evict"} => session.then \in Places
    /\ Alive => taskHandle = newest \/ deck.pc = "store"
    /\ deck.pc \in {"create", "closed"} => ~Alive
    /\ deck.pc \in {"create", "store", "adopt", "answer"} => newest > 0
    /\ clientState # "disconnected" => newest > 0

\* What waits for a session was typed for it.
TypedForTheNewest ==
    /\ \A q \in Questions : inbox[q] \subseteq {newest}
    /\ session.heard \in {0, session.generation}

\* The terminal expects the session that lives, once it was adopted, or none.
TerminalFollows ==
    /\ Alive /\ deck.pc \notin {"store", "adopt"} => terminal.expected \in {0, newest}
    /\ deck.pc \in {"closing", "closed", "kept"} => terminal.expected = 0
    /\ Alive /\ terminal.expected = newest => terminal.last <= session.chunk
    /\ terminal.applied <= epoch /\ terminal.expected <= newest
    /\ deck.pc \in {"create", "store", "adopt"} => terminal.expected # newest

\* Every event tells an epoch and a chunk that have been.
EventsHaveBeen ==
    \A i \in DOMAIN events :
        /\ events[i].epoch <= epoch /\ events[i].generation <= newest
        /\ deck.pc = "create" => events[i].generation # newest
        /\ Alive /\ events[i].generation = newest => events[i].chunk <= session.chunk
        /\ events[i].generation = terminal.expected => events[i].chunk >= terminal.last

\* Epochs and chunks grow along the queue.
EventsGrow ==
    \A i, j \in DOMAIN events : i < j =>
        /\ events[i].epoch <= events[j].epoch
        /\ events[i].generation = events[j].generation =>
               /\ events[i].chunk <= events[j].chunk
               /\ events[j].kind = "data" => events[i].chunk < events[j].chunk

\* An event of the session the terminal expects, in the queue or the next one, which tells
\* that the chunk k was the last one of the epoch p.
Sign(k, p) ==
    \/ \E i \in DOMAIN events : /\ events[i].generation = terminal.expected
                                /\ events[i].chunk = k /\ events[i].epoch = p
    \/ Alive /\ session.generation = terminal.expected /\ k = session.chunk /\ p = epoch

\* A chunk that is neither shown nor excused nor waiting in the queue.
Missing(c) ==
    /\ c > terminal.last /\ c \notin excused
    /\ \A i \in DOMAIN events :
          events[i].generation = terminal.expected /\ events[i].kind = "data" => events[i].chunk # c

\* Between the events before the chunk c and one of the epoch p the epoch has changed; and
\* if the terminal has been told of p already, it is clean and nothing from before c comes.
Told(c, p) ==
    /\ \A l, r \in Nat : Sign(l, r) /\ l < c => r < p
    /\ p <= terminal.applied => terminal.clean /\ \A l, r \in Nat : Sign(l, r) => l >= c

\* Whatever comes after a missing chunk tells that something is missing.
LossesAreTold ==
    deck.pc \notin {"store", "adopt"} =>
        \A c, k, p \in Nat : Missing(c) /\ Sign(k, p) /\ c <= k => Told(c, p)

SshInv ==
    /\ SshTypes /\ SessionIsNewest /\ TypedForTheNewest
    /\ TerminalFollows /\ EventsHaveBeen /\ EventsGrow
    /\ LossesAreTold /\ RefusedChunksAreHealed

-----------------------------------------------------------------------------
\* The record of the session in a step that leaves the session what it is.
SameSession ==
    /\ session' \in SessionSet /\ Alive /\ Alive'
    /\ session'.generation = session.generation /\ session'.chunk = session.chunk
    /\ session'.pc \in {"tell", "evict"} => session'.then \in Places

LEMMA PlacesAreDistinct ==
    /\ Places \subseteq SessionPlaces /\ {"gone", "tell", "evict"} \subseteq SessionPlaces
    /\ \A place \in Places : place \notin {"gone", "tell", "evict"}
BY DEF Places, SessionPlaces

LEMMA GoEffect ==
    ASSUME session \in SessionSet, Alive, NEW place \in Places, Go(place)
    PROVE  SameSession /\ session'.heard = session.heard
BY PlacesAreDistinct DEF Go, SessionSet, SameSession, Alive

LEMMA AnnounceEffect ==
    ASSUME session \in SessionSet, Alive, NEW s, NEW then \in Places, Announce(s, then)
    PROVE  SameSession /\ session'.heard = session.heard /\ clientState' = s
BY PlacesAreDistinct DEF Announce, SessionSet, SameSession, Alive

\* A step of the task that says nothing and hears nothing.
Quiet ==
    /\ UNCHANGED around /\ clientState' \in States
    /\ SameSession /\ session'.heard = session.heard

LEMMA QuietSteps ==
    ASSUME SshInv,
           \/ BeginSession \/ Dial \/ VerifyHostKey \/ AppendKey \/ Authenticate \/ CheckPassword
           \/ StopListening \/ Login \/ OpenChannel \/ LoopTurn \/ EndDrain \/ CloseSession
    PROVE  Quiet
<1> DEFINE Moves ==
      \/ \E place \in Places : Go(place) /\ UNCHANGED clientState
      \/ \E s \in States, then \in Places : Announce(s, then)
<1>1. Alive /\ UNCHANGED around
  BY DEF Alive, Runs, Listening, Draining, BeginSession, Dial, VerifyHostKey, AppendKey,
         Authenticate, CheckPassword, StopListening, Login, OpenChannel, LoopTurn, EndDrain,
         CloseSession
<1>2. Moves
  <2>1. CASE BeginSession
    BY <2>1 DEF BeginSession, Places, States
  <2>2. CASE Dial
    BY <2>2 DEF Dial, Fail, GiveUp, Places, States, AtEnd
  <2>3. CASE VerifyHostKey
    BY <2>3 DEF VerifyHostKey, Fail, Places, States, AtEnd
  <2>4. CASE AppendKey
    BY <2>4 DEF AppendKey, Fail, Places, States, AtEnd
  <2>5. CASE Authenticate
    BY <2>5 DEF Authenticate, Fail, Places, States, AtEnd
  <2>6. CASE CheckPassword
    BY <2>6 DEF CheckPassword, GiveUp, Places, States, AtEnd
  <2>7. CASE StopListening
    BY <2>7 DEF StopListening, GiveUp, Places, States, AtEnd
  <2>8. CASE Login
    BY <2>8 DEF Login, Fail, Places, States, AtEnd
  <2>9. CASE OpenChannel
    BY <2>9 DEF OpenChannel, Fail, Places, States, AtEnd
  <2>10. CASE LoopTurn
    BY <2>10 DEF LoopTurn, Places, States
  <2>11. CASE EndDrain
    <3>1. AfterDrain[session.pc] \in Places
      BY <2>11 DEF EndDrain, Draining, AfterDrain, Places
    <3>2. QED
      BY <2>11, <3>1 DEF EndDrain, Places, States
  <2>12. CASE CloseSession
    BY <2>12 DEF CloseSession, GiveUp, Places, States, AtEnd
  <2>13. QED
    BY <2>1, <2>2, <2>3, <2>4, <2>5, <2>6, <2>7, <2>8, <2>9, <2>10, <2>11, <2>12
<1>3. session \in SessionSet /\ clientState \in States
  BY DEF SshInv, SshTypes
<1>4. SameSession /\ session'.heard = session.heard /\ clientState' \in States
  BY <1>1, <1>2, <1>3, GoEffect, AnnounceEffect
<1>5. QED
  BY <1>1, <1>4 DEF Quiet

\* The task takes an answer.
Heard ==
    /\ SameSession
    /\ \E q \in Questions : \E g \in inbox[q] :
          inbox' = [inbox EXCEPT ![q] = @ \ {g}] /\ session'.heard = g
    /\ UNCHANGED <<client, wire, terminal, deck, excused>>

LEMMA HeardSteps ==
    ASSUME SshInv, TakeKey \/ TakePassword \/ TakeLine
    PROVE  Heard
<1>1. ASSUME NEW q \in Questions, NEW place \in Places,
             Alive, Took(q, place)
      PROVE  Heard
  <2>1. PICK g \in inbox[q] : /\ inbox' = [inbox EXCEPT ![q] = @ \ {g}]
                              /\ session' = [session EXCEPT !.pc = place, !.heard = g]
    BY <1>1 DEF Took
  <2>2. session \in SessionSet /\ g \in 0 .. Sessions
    BY DEF SshInv, SshTypes, Generations
  <2>3. SameSession /\ session'.heard = g
    BY <1>1, <2>1, <2>2, PlacesAreDistinct DEF SessionSet, Alive, SameSession
  <2>4. QED
    BY <1>1, <2>1, <2>3 DEF Heard, Took
<1>2. CASE TakeKey
  BY <1>1, <1>2 DEF TakeKey, Runs, Alive, Questions, Places
<1>3. CASE TakePassword
  BY <1>1, <1>3 DEF TakePassword, Runs, Alive, Questions, Places
<1>4. CASE TakeLine
  BY <1>1, <1>4 DEF TakeLine, Runs, Alive, Questions, Places
<1>5. QED
  BY <1>2, <1>3, <1>4

\* What Append and Tail do to the places of the queue.
LEMMA AppendPlaces ==
    ASSUME NEW S, NEW s \in Seq(S), NEW e \in S
    PROVE  /\ Append(s, e) \in Seq(S) /\ Len(Append(s, e)) = Len(s) + 1
           /\ DOMAIN Append(s, e) = 1 .. Len(s) + 1 /\ DOMAIN s = 1 .. Len(s) /\ Len(s) \in Nat
           /\ \A i \in 1 .. Len(s) : Append(s, e)[i] = s[i]
           /\ Append(s, e)[Len(s) + 1] = e
OBVIOUS

LEMMA TailPlaces ==
    ASSUME NEW S, NEW s \in Seq(S), s # <<>>
    PROVE  /\ Tail(s) \in Seq(S) /\ Len(Tail(s)) = Len(s) - 1 /\ Len(s) \in Nat \ {0}
           /\ DOMAIN Tail(s) = 1 .. Len(s) - 1 /\ DOMAIN s = 1 .. Len(s)
           /\ \A i \in 1 .. Len(s) - 1 : Tail(s)[i] = s[i + 1]
           /\ Head(s) = s[1] /\ Head(s) \in S
OBVIOUS

\* Every event a task puts into the queue is one of its session, its epoch and its chunk.
LEMMA EventIsTyped ==
    ASSUME SshInv, Alive, NEW kind \in {"state", "data"}
    PROVE  /\ Event(kind) \in EventSet
           /\ Event(kind).generation = newest /\ Event(kind).epoch = epoch
           /\ Event(kind).kind = kind /\ Event(kind).chunk = session.chunk
           /\ Event(kind).generation = session.generation
BY DEF SshInv, SshTypes, SessionSet, SessionIsNewest, Event, EventSet, Generations

\* What a send to the queue is, whole or in place of the head.
LEMMA TellEffect ==
    ASSUME SshInv, Tell
    PROVE  /\ SameSession /\ session'.heard = session.heard
           /\ \/ UNCHANGED events
              \/ events' = Append(events, Event("state")) /\ Len(events) < EventCapacity
           /\ UNCHANGED <<client, inbox, epoch, terminal, deck, excused>>
<1>1. session \in SessionSet /\ session.pc = "tell" /\ session.then \in Places /\ Alive
  BY DEF SshInv, SshTypes, SessionIsNewest, Tell, Runs, Alive
<1>2. CASE Len(events) < EventCapacity
  <2>1. session' = [session EXCEPT !.pc = session.then, !.then = "gone"]
    BY <1>2 DEF Tell, Go
  <2>2. QED
    BY <1>1, <1>2, <2>1, PlacesAreDistinct DEF Tell, SameSession, SessionSet, Alive
<1>3. CASE ~(Len(events) < EventCapacity)
  <2>1. session' = [session EXCEPT !.pc = "evict"]
    BY <1>3 DEF Tell
  <2>2. SameSession /\ session'.heard = session.heard
    BY <1>1, <2>1, PlacesAreDistinct DEF SameSession, SessionSet, Alive
  <2>3. QED
    BY <1>3, <2>2 DEF Tell
<1>4. QED
  BY <1>2, <1>3

\* The state that takes the place of the head of a full queue tells a new epoch.
LEMMA LateEventIsTyped ==
    ASSUME SshInv, Alive
    PROVE  LET e == [Event("state") EXCEPT !.epoch = epoch + 1]
           IN  /\ e \in EventSet /\ e.generation = newest /\ e.epoch = epoch + 1
               /\ e.kind = "state" /\ e.chunk = session.chunk
<1>1. PICK s \in EventSet : /\ s = Event("state") /\ s.generation = newest
                            /\ s.kind = "state" /\ s.chunk = session.chunk
  BY EventIsTyped
<1>2. epoch + 1 \in Nat
  BY DEF SshInv, SshTypes
<1>3. QED
  BY <1>1, <1>2 DEF EventSet

LEMMA ChunkIsTyped ==
    ASSUME SshInv, Alive, session.chunk < Chunks
    PROVE  LET e == [Event("data") EXCEPT !.chunk = @ + 1]
           IN  /\ e \in EventSet /\ e.generation = newest /\ e.epoch = epoch
               /\ e.kind = "data" /\ e.chunk = session.chunk + 1
<1>1. session.chunk \in 0 .. Chunks /\ Chunks \in Nat
  BY SshLimits DEF SshInv, SshTypes, SessionSet
<1>2. QED
  BY <1>1, EventIsTyped DEF EventSet

LEMMA EvictEffect ==
    ASSUME SshInv, Evict
    PROVE  /\ SameSession /\ session'.heard = session.heard /\ epoch' = epoch + 1
           /\ UNCHANGED <<client, inbox, terminal, deck>>
           /\ \/ /\ events # <<>> /\ Head(events).kind = "data"
                 /\ events' = Append(Tail(events), [Event("state") EXCEPT !.epoch = epoch + 1])
                 /\ excused' = IF Head(events).generation = session.generation
                               THEN excused \cup {Head(events).chunk} ELSE excused
              \/ /\ events # <<>> /\ Head(events).kind # "data" /\ events' = Tail(events)
                 /\ UNCHANGED excused
              \/ events = <<>> /\ events' = <<>> /\ UNCHANGED excused
<1>1. session \in SessionSet /\ session.pc = "evict" /\ session.then \in Places /\ Alive
  BY DEF SshInv, SshTypes, SessionIsNewest, Evict, Runs, Alive
<1>2. SameSession /\ session'.heard = session.heard
  BY <1>1, GoEffect, PlacesAreDistinct DEF Evict
<1>3. QED
  BY <1>2 DEF Evict

LEMMA ReceiveEffect ==
    ASSUME SshInv, ReceiveChunk
    PROVE  /\ Alive /\ Alive' /\ session' \in SessionSet
           /\ session'.pc \notin {"tell", "evict"} /\ session'.heard = session.heard
           /\ session'.generation = session.generation /\ session'.chunk = session.chunk + 1
           /\ session.chunk < Chunks
           /\ UNCHANGED <<client, inbox, terminal, deck, excused>>
           /\ \/ epoch' = epoch + 1 /\ UNCHANGED events
              \/ /\ Len(events) < EventCapacity - 1 /\ UNCHANGED epoch
                 /\ events' = Append(events, [Event("data") EXCEPT !.chunk = @ + 1])
<1>1. session \in SessionSet /\ Chunks \in Nat /\ EventCapacity \in Nat /\ Len(events) \in Nat
  BY SshLimits DEF SshInv, SshTypes
<1>2. QED
  BY <1>1 DEF ReceiveChunk, Runs, Alive, SessionSet, Refuses, Lose

LEMMA LeaveEffect ==
    ASSUME SshInv, LeaveSession
    PROVE  /\ Alive /\ ~Alive' /\ session' \in SessionSet
           /\ session'.generation = 0 /\ session'.heard = 0 /\ session'.pc = "gone"
BY SshLimits, PlacesAreDistinct DEF LeaveSession, Runs, Alive, Nobody, SessionSet

\* No session lives while the client connects another one.
LEMMA NoSessionAtConnect ==
    ASSUME SshInv, SshConnect
    PROVE  ~Alive /\ newest \in Nat /\ newest' = newest + 1 /\ newest' \in 1 .. Sessions
BY SshLimits DEF SshInv, SshTypes, SessionIsNewest, SshConnect, Deck, DeckPlaces

LEMMA CreateEffect ==
    ASSUME SshInv, CreateSession
    PROVE  /\ ~Alive /\ newest > 0 /\ newest' = newest /\ deck.pc = "create"
           /\ UNCHANGED <<client, inbox, wire, terminal>>
           /\ \/ /\ session' \in SessionSet /\ session'.pc = "begin" /\ session'.generation = newest
                 /\ session'.heard = 0 /\ session'.chunk = 0 /\ Alive'
                 /\ deck'.pc = "store" /\ deck'.question = "line" /\ excused' = {}
              \/ UNCHANGED <<session, excused>> /\ deck'.pc = "idle" /\ deck'.question = "line"
<1>1. session \in SessionSet /\ newest \in 0 .. Sessions /\ Chunks \in Nat
      /\ ~Alive /\ newest > 0 /\ deck.pc = "create"
  BY SshLimits DEF SshInv, SshTypes, SessionIsNewest, CreateSession, Deck
<1>2. CASE /\ session' = [Nobody EXCEPT !.pc = "begin", !.generation = newest]
            /\ Turn("store") /\ excused' = {}
  <2>1. "begin" \in SessionPlaces /\ "gone" \in SessionPlaces
    BY DEF SessionPlaces, Places
  <2>2. session' = [pc |-> "begin", then |-> "gone", generation |-> newest, heard |-> 0, chunk |-> 0]
    BY <1>2 DEF Nobody
  <2>3. session' \in SessionSet /\ session'.pc = "begin" /\ session'.generation = newest
        /\ session'.heard = 0 /\ session'.chunk = 0 /\ Alive'
    BY <1>1, <2>1, <2>2, SshLimits DEF SessionSet, Alive
  <2>4. QED
    BY <1>1, <1>2, <2>3 DEF CreateSession, Turn, client
<1>3. CASE UNCHANGED <<session, excused>> /\ Turn("idle")
  BY <1>1, <1>3 DEF CreateSession, Turn, client
<1>4. QED
  BY <1>2, <1>3 DEF CreateSession

\* The deck's other steps leave session, queue and terminal alone.
DeckOnly ==
    \/ StoreHandle \/ (\E q \in Questions : EndLine(q)) \/ Answer
    \/ StopApplication \/ WaitTimesOut \/ SshDisconnect

LEMMA StepCases ==
    ASSUME SshInv, SshNext
    PROVE  \/ Quiet \/ Heard \/ Tell \/ Evict \/ ReceiveChunk \/ LeaveSession
           \/ SshConnect \/ CreateSession \/ Adopt \/ Show \/ Deinit \/ WaitEnds \/ Reinit
           \/ DeckOnly
BY QuietSteps, HeardSteps DEF SshNext, SessionStep, DeckStep, DeckOnly

\* A clock of the deck: its next place.
LEMMA TurnEffect ==
    ASSUME NEW place \in DeckPlaces, Turn(place)
    PROVE  deck' \in [pc : DeckPlaces, question : Questions] /\ deck'.pc = place
BY DEF Turn, Questions

LEMMA SessionIsNewestKept ==
    ASSUME SshInv, SshNext
    PROVE  SessionIsNewest'
<1> USE DEF SessionIsNewest
<1>1. /\ SessionIsNewest /\ newest \in 0 .. Sessions /\ Sessions \in Nat
      /\ session \in SessionSet /\ taskHandle \in 0 .. Sessions
  BY SshLimits DEF SshInv, SshTypes
<1>2. CASE Quiet
  BY <1>1, <1>2 DEF Quiet, SameSession, around
<1>3. CASE Heard
  BY <1>1, <1>3 DEF Heard, SameSession, client
<1>4. CASE Tell \/ Evict
  BY <1>1, <1>4, TellEffect, EvictEffect DEF SameSession, client
<1>5. CASE ReceiveChunk
  BY <1>1, <1>5, ReceiveEffect DEF client
<1>6. CASE LeaveSession
  BY <1>1, <1>6, LeaveEffect DEF LeaveSession
<1>7. CASE SshConnect
  <2>1. ~Alive /\ newest' \in 1 .. Sessions
    BY <1>7, NoSessionAtConnect
  <2>4. session' = session /\ clientState' = clientState /\ deck'.pc = "create"
    BY <1>7 DEF SshConnect, Turn
  <2>2. ~Alive' /\ session'.pc = "gone" /\ newest' > 0
    BY <1>1, <2>1, <2>4 DEF Alive
  <2>3. QED
    BY <1>1, <2>1, <2>2, <2>4
<1>8. CASE CreateSession
  BY <1>1, <1>8, CreateEffect DEF client, Alive
<1>9. CASE Adopt \/ Show \/ Deinit \/ Reinit
  BY <1>1, <1>9 DEF Adopt, Show, Deinit, Reinit, Deck, Turn, Alive, client
<1>10. CASE WaitEnds
  BY <1>1, <1>10 DEF WaitEnds, Deck, Turn, Alive, client
<1>11. CASE DeckOnly
  <2>1. UNCHANGED <<session, newest, clientState>>
    BY <1>11 DEF DeckOnly, StoreHandle, EndLine, Answer, StopApplication, WaitTimesOut,
                 SshDisconnect, client
  <2>2. CASE StoreHandle
    BY <1>1, <2>1, <2>2 DEF StoreHandle, Deck, Turn, Alive
  <2>3. ASSUME NEW q \in Questions, EndLine(q) PROVE SessionIsNewest'
    BY <1>1, <2>1, <2>3 DEF EndLine, Deck, Alive, client, Phase, Questions
  <2>4. CASE Answer \/ StopApplication \/ WaitTimesOut \/ SshDisconnect
    BY <1>1, <2>1, <2>4 DEF Answer, StopApplication, WaitTimesOut, SshDisconnect, Deck, Turn, Alive, client
  <2>5. QED
    BY <1>11, <2>2, <2>3, <2>4 DEF DeckOnly
<1>12. QED
  BY <1>2, <1>3, <1>4, <1>5, <1>6, <1>7, <1>8, <1>9, <1>10, <1>11, StepCases

LEMMA TypedForTheNewestKept ==
    ASSUME SshInv, SshNext
    PROVE  TypedForTheNewest'
<1> USE DEF TypedForTheNewest
<1>1. /\ TypedForTheNewest /\ SessionIsNewest /\ newest \in 0 .. Sessions
      /\ inbox \in [Questions -> SUBSET Generations]
  BY DEF SshInv, SshTypes
<1>2. CASE Quiet
  BY <1>1, <1>2 DEF Quiet, SameSession, around
<1>3. CASE Heard
  <2>1. PICK q \in Questions : \E g \in inbox[q] :
                inbox' = [inbox EXCEPT ![q] = @ \ {g}] /\ session'.heard = g
    BY <1>3 DEF Heard
  <2>2. /\ \A o \in Questions : inbox'[o] \subseteq inbox[o]
        /\ session'.heard = newest
    BY <1>1, <2>1
  <2>3. QED
    BY <1>1, <1>3, <2>2 DEF Heard, SameSession, SessionIsNewest, client
<1>4. CASE Tell \/ Evict
  BY <1>1, <1>4, TellEffect, EvictEffect DEF SameSession, client
<1>5. CASE ReceiveChunk
  BY <1>1, <1>5, ReceiveEffect DEF client
<1>6. CASE LeaveSession
  BY <1>1, <1>6, LeaveEffect DEF LeaveSession
<1>7. CASE SshConnect
  BY <1>1, <1>7 DEF SshConnect, EmptyQueues
<1>8. CASE CreateSession
  BY <1>1, <1>8, CreateEffect
<1>9. CASE Adopt \/ Show \/ Deinit \/ Reinit \/ WaitEnds
  BY <1>1, <1>9 DEF Adopt, Show, Deinit, Reinit, WaitEnds, client
<1>10. CASE Answer
  <2>1. \A q \in Questions : inbox'[q] \subseteq inbox[q] \cup {newest}
    BY <1>1, <1>10 DEF Answer
  <2>2. UNCHANGED <<session, newest>>
    BY <1>10 DEF Answer, client
  <2>3. QED
    BY <1>1, <2>1, <2>2
<1>11. CASE DeckOnly /\ ~Answer
  BY <1>1, <1>11 DEF DeckOnly, StoreHandle, EndLine, StopApplication, WaitTimesOut, SshDisconnect, client
<1>12. QED
  BY <1>2, <1>3, <1>4, <1>5, <1>6, <1>7, <1>8, <1>9, <1>10, <1>11, StepCases

LEMMA SshTypesKept ==
    ASSUME SshInv, SshNext
    PROVE  SshTypes'
<1>1. /\ clientState \in States /\ stopRequested \in BOOLEAN
      /\ newest \in 0 .. Sessions /\ taskHandle \in 0 .. Sessions
      /\ inbox \in [Questions -> SUBSET Generations]
      /\ session \in SessionSet /\ terminal \in TerminalSet
      /\ deck \in [pc : DeckPlaces, question : Questions]
      /\ events \in Seq(EventSet) /\ Len(events) <= EventCapacity /\ epoch \in Nat
      /\ Sessions \in Nat \ {0} /\ Chunks \in Nat \ {0} /\ EventCapacity \in Nat \ {0}
      /\ Len(events) \in Nat /\ 0 \in 0 .. Sessions /\ 0 \in 0 .. Chunks
  BY SshLimits DEF SshInv, SshTypes
<1>2. /\ clientState' \in States /\ stopRequested' \in BOOLEAN
      /\ newest' \in 0 .. Sessions /\ taskHandle' \in 0 .. Sessions
  <2>1. CASE Quiet \/ Heard \/ Tell \/ Evict \/ ReceiveChunk
    BY <1>1, <2>1, TellEffect, EvictEffect, ReceiveEffect DEF Quiet, Heard, around, client
  <2>2. CASE CreateSession \/ Adopt \/ Show \/ WaitEnds \/ Reinit
    BY <1>1, <2>2, CreateEffect DEF Adopt, Show, WaitEnds, Reinit, client
  <2>3. CASE LeaveSession \/ Deinit
    BY <1>1, <2>3 DEF LeaveSession, Deinit, client
  <2>5. CASE DeckOnly
    BY <1>1, <2>5 DEF DeckOnly, StoreHandle, EndLine, Answer, StopApplication, WaitTimesOut, SshDisconnect, client
  <2>6. CASE SshConnect
    <3>1. newest' \in 0 .. Sessions
      BY <1>1, <2>6, NoSessionAtConnect
    <3>2. QED
      BY <1>1, <2>6, <3>1 DEF SshConnect
  <2>4. QED
    BY <2>1, <2>2, <2>3, <2>5, <2>6, StepCases
<1>3. inbox' \in [Questions -> SUBSET Generations]
  <2>1. CASE Heard
    BY <1>1, <2>1 DEF Heard
  <2>2. CASE SshConnect
    BY <2>2 DEF SshConnect, EmptyQueues
  <2>3. CASE Answer
    <3>1. newest \in Generations
      BY <1>1, <2>3 DEF SshInv, SessionIsNewest, Answer, Deck, Generations
    <3>2. QED
      BY <1>1, <2>3, <3>1 DEF Answer
  <2>4. CASE ~Heard /\ ~SshConnect /\ ~Answer
    BY <1>1, <2>4, StepCases, TellEffect, EvictEffect, ReceiveEffect, CreateEffect
      DEF Quiet, around, LeaveSession, Adopt, Show, Deinit, WaitEnds, Reinit, DeckOnly, StoreHandle, EndLine,
          StopApplication, WaitTimesOut, SshDisconnect
  <2>5. QED
    BY <2>1, <2>2, <2>3, <2>4
<1>4. session' \in SessionSet
  <2>1. CASE Quiet \/ Heard \/ Tell \/ Evict \/ ReceiveChunk \/ LeaveSession \/ CreateSession
    BY <1>1, <2>1, TellEffect, EvictEffect, ReceiveEffect, LeaveEffect, CreateEffect DEF Quiet, Heard, SameSession
  <2>2. CASE SshConnect \/ Adopt \/ Show \/ Deinit \/ WaitEnds \/ Reinit \/ DeckOnly
    BY <1>1, <2>2 DEF SshConnect, Adopt, Show, Deinit, WaitEnds, Reinit, DeckOnly, StoreHandle, EndLine,
          Answer, StopApplication, WaitTimesOut, SshDisconnect
  <2>3. QED
    BY <2>1, <2>2, StepCases
<1>5. terminal' \in TerminalSet
  <2>1. CASE Adopt
    <3>1. terminal' = [terminal EXCEPT !.expected = newest, !.applied = epoch, !.last = 0, !.clean = TRUE]
      BY <2>1 DEF Adopt
    <3>2. QED
      BY <1>1, <3>1 DEF TerminalSet
  <2>2. CASE Deinit
    <3>1. terminal' = [terminal EXCEPT !.expected = 0, !.last = 0, !.clean = TRUE]
      BY <2>2 DEF Deinit
    <3>2. QED
      BY <1>1, <3>1 DEF TerminalSet
  <2>3. CASE Show
    <3>1. Head(events) \in EventSet
      BY <1>1, <2>3, TailPlaces DEF Show
    <3>2. Head(events).chunk \in 0 .. Chunks /\ Head(events).epoch \in Nat
      BY <3>1 DEF EventSet
    <3>3. QED
      BY <1>1, <2>3, <3>2 DEF Show, TerminalSet
  <2>4. CASE ~Adopt /\ ~Deinit /\ ~Show
    BY <1>1, <2>4, StepCases, TellEffect, EvictEffect, ReceiveEffect, CreateEffect
      DEF Quiet, around, Heard, LeaveSession, SshConnect, WaitEnds, Reinit, DeckOnly, StoreHandle, EndLine,
          Answer, StopApplication, WaitTimesOut, SshDisconnect
  <2>5. QED
    BY <2>1, <2>2, <2>3, <2>4
<1>6. deck' \in [pc : DeckPlaces, question : Questions]
  <2>1. CASE Quiet \/ Heard \/ Tell \/ Evict \/ ReceiveChunk \/ LeaveSession \/ Show \/ SshDisconnect
    BY <1>1, <2>1, TellEffect, EvictEffect, ReceiveEffect DEF Quiet, around, Heard, LeaveSession, Show, SshDisconnect
  <2>2. CASE \E q \in Questions : EndLine(q)
    BY <2>2 DEF EndLine, DeckPlaces
  <2>3. CASE CreateSession
    BY <2>3, TurnEffect DEF CreateSession, DeckPlaces
  <2>4. CASE SshConnect \/ Adopt \/ Deinit \/ WaitEnds \/ Reinit \/ StoreHandle \/ Answer \/ StopApplication \/ WaitTimesOut
    BY <2>4, TurnEffect DEF SshConnect, Adopt, Deinit, WaitEnds, Reinit, StoreHandle, Answer,
         StopApplication, WaitTimesOut, DeckPlaces
  <2>5. QED
    BY <2>1, <2>2, <2>3, <2>4, StepCases DEF DeckOnly
<1>7. events' \in Seq(EventSet) /\ Len(events') <= EventCapacity
  <2>1. CASE Tell
    <3>1. Alive /\ Event("state") \in EventSet
      BY <2>1, TellEffect, EventIsTyped DEF SameSession
    <3>2. /\ Append(events, Event("state")) \in Seq(EventSet)
          /\ Len(Append(events, Event("state"))) = Len(events) + 1
      BY <1>1, <3>1, AppendPlaces
    <3>3. \/ events' = events
          \/ events' = Append(events, Event("state")) /\ Len(events) < EventCapacity
      BY <2>1, TellEffect
    <3>4. QED
      BY <1>1, <3>2, <3>3
  <2>2. CASE Evict
    <3>1. Alive
      BY <2>2, EvictEffect DEF SameSession
    <3>2. CASE events # <<>>
      <4>1. /\ Tail(events) \in Seq(EventSet) /\ Len(Tail(events)) = Len(events) - 1
        BY <1>1, <3>2, TailPlaces
      <4>2. CASE events' = Tail(events)
        BY <1>1, <4>1, <4>2
      <4>3. CASE events' = Append(Tail(events), [Event("state") EXCEPT !.epoch = epoch + 1])
        <5>1. [Event("state") EXCEPT !.epoch = epoch + 1] \in EventSet
          BY <3>1, LateEventIsTyped
        <5>2. QED
          BY <1>1, <4>1, <4>3, <5>1, AppendPlaces
      <4>4. QED
        BY <2>2, <3>2, <4>2, <4>3, EvictEffect
    <3>3. CASE events = <<>>
      BY <1>1, <2>2, <3>3, EvictEffect
    <3>4. QED
      BY <3>2, <3>3
  <2>3. CASE ReceiveChunk
    <3>1. CASE events' = events
      BY <1>1, <3>1
    <3>2. CASE /\ Len(events) < EventCapacity - 1
               /\ events' = Append(events, [Event("data") EXCEPT !.chunk = @ + 1])
      <4>1. [Event("data") EXCEPT !.chunk = @ + 1] \in EventSet
        BY <2>3, ReceiveEffect, ChunkIsTyped
      <4>2. QED
        BY <1>1, <3>2, <4>1, AppendPlaces
    <3>3. QED
      BY <2>3, <3>1, <3>2, ReceiveEffect
  <2>4. CASE Show
    <3>1. events # <<>> /\ events' = Tail(events)
      BY <2>4 DEF Show
    <3>2. QED
      BY <1>1, <3>1, TailPlaces
  <2>5. CASE WaitEnds \/ Reinit
    <3>1. events' = events \/ events' = <<>>
      BY <2>5 DEF WaitEnds, Reinit
    <3>2. ASSUME events' = <<>> PROVE events' \in Seq(EventSet) /\ Len(events') = 0
      BY <3>2
    <3>3. QED
      BY <1>1, <3>1, <3>2
  <2>6. CASE ~Tell /\ ~Evict /\ ~ReceiveChunk /\ ~Show /\ ~WaitEnds /\ ~Reinit
    BY <1>1, <2>6, StepCases, CreateEffect
      DEF Quiet, around, wire, Heard, LeaveSession, SshConnect, Adopt, Deinit, DeckOnly, StoreHandle, EndLine,
          Answer, StopApplication, WaitTimesOut, SshDisconnect
  <2>7. QED
    BY <2>1, <2>2, <2>3, <2>4, <2>5, <2>6
<1>8. epoch' \in Nat
  <2>1. CASE Evict \/ ReceiveChunk
    BY <1>1, <2>1, EvictEffect, ReceiveEffect
  <2>2. CASE ~Evict /\ ~ReceiveChunk
    BY <1>1, <2>2, StepCases, TellEffect, CreateEffect
      DEF Quiet, around, wire, Heard, LeaveSession, SshConnect, Adopt, Show, Deinit, WaitEnds, Reinit, DeckOnly,
          StoreHandle, EndLine, Answer, StopApplication, WaitTimesOut, SshDisconnect
  <2>3. QED
    BY <2>1, <2>2
<1>9. QED
  BY <1>2, <1>3, <1>4, <1>5, <1>6, <1>7, <1>8 DEF SshTypes

-----------------------------------------------------------------------------
\* A step after which terminal and queue are as they were, and so is the session.
Still ==
    /\ UNCHANGED <<newest, events, epoch, terminal, excused>>
    /\ session'.generation = session.generation /\ session'.chunk = session.chunk
    /\ Alive' <=> Alive
    /\ deck'.pc \in {"store", "adopt"} <=> deck.pc \in {"store", "adopt"}
    /\ deck'.pc \in {"closing", "closed", "kept"} => deck.pc \in {"closing", "closed", "kept"}
    /\ deck'.pc = "create" => deck.pc = "create"

\* The queue is deleted, or made anew.
Emptied ==
    /\ events' = <<>> /\ deck.pc \in {"closing", "closed", "kept"}
    /\ deck'.pc \in {"idle", "closed"} /\ UNCHANGED <<client, session, epoch, terminal, excused>>

LEMMA StillSteps ==
    ASSUME SshInv, SshNext
    PROVE  \/ Still \/ (Tell /\ events' = Append(events, Event("state"))) \/ Evict
           \/ ReceiveChunk \/ LeaveSession \/ SshConnect
           \/ (CreateSession /\ deck'.pc = "store")
           \/ Adopt \/ Show \/ Deinit \/ Emptied
<1>1. CASE Quiet
  BY <1>1 DEF Quiet, Still, SameSession, around, wire
<1>2. CASE Heard
  BY <1>2 DEF Heard, Still, SameSession, wire, client
<1>3. CASE Tell
  BY <1>3, TellEffect DEF Still, SameSession, client
<1>4. CASE CreateSession
  BY <1>4, CreateEffect DEF Still, wire, client, Alive
<1>5. CASE WaitEnds \/ Reinit
  BY <1>5 DEF WaitEnds, Reinit, Still, Emptied, Deck, Turn, wire, client, Alive
<1>6. CASE DeckOnly
  <2>1. UNCHANGED <<newest, events, epoch, terminal, excused, session>>
    BY <1>6 DEF DeckOnly, StoreHandle, EndLine, Answer, StopApplication, WaitTimesOut,
                SshDisconnect, wire, client
  <2>2. CASE StoreHandle
    BY <2>1, <2>2 DEF StoreHandle, Still, Deck, Turn, Alive
  <2>3. CASE \E q \in Questions : EndLine(q)
    BY <2>1, <2>3 DEF EndLine, Still, Deck, Alive
  <2>4. CASE Answer \/ StopApplication \/ WaitTimesOut \/ SshDisconnect
    BY <2>1, <2>4 DEF Answer, StopApplication, WaitTimesOut, SshDisconnect, Still, Deck, Turn, Alive
  <2>5. QED
    BY <1>6, <2>2, <2>3, <2>4 DEF DeckOnly
<1>7. QED
  BY <1>1, <1>2, <1>3, <1>4, <1>5, <1>6, StepCases

\* What is known of the state, of every event and of two of them.
LEMMA KnownState ==
    ASSUME SshInv
    PROVE  /\ newest \in Nat /\ epoch \in Nat /\ session.chunk \in Nat /\ session.generation \in Nat
           /\ terminal.expected \in Nat /\ terminal.applied \in Nat /\ terminal.last \in Nat
           /\ terminal.clean \in BOOLEAN /\ terminal \in TerminalSet /\ session \in SessionSet
           /\ events \in Seq(EventSet) /\ DOMAIN events = 1 .. Len(events) /\ Len(events) \in Nat
           /\ Chunks \in Nat /\ Sessions \in Nat /\ EventCapacity \in Nat
           /\ session.chunk <= Chunks /\ deck.pc \in DeckPlaces
BY SshLimits DEF SshInv, SshTypes, SessionSet, TerminalSet

LEMMA KnownEvent ==
    ASSUME SshInv, NEW i \in DOMAIN events
    PROVE  /\ events[i] \in EventSet
           /\ events[i].generation \in Nat \ {0} /\ events[i].epoch \in Nat
           /\ events[i].chunk \in Nat /\ events[i].chunk <= Chunks
           /\ events[i].epoch <= epoch /\ events[i].generation <= newest
<1>1. events[i] \in EventSet
  BY KnownState
<1>2. QED
  BY <1>1, SshLimits DEF SshInv, EventsHaveBeen, EventSet, Generations

LEMMA TerminalFollowsKept ==
    ASSUME SshInv, SshNext
    PROVE  TerminalFollows'
<1> USE DEF TerminalFollows
<1>1. TerminalFollows /\ SessionIsNewest
  BY DEF SshInv
<1>2. CASE Still
  BY <1>1, <1>2 DEF Still
<1>3. CASE Tell \/ Evict
  BY <1>1, <1>3, KnownState, TellEffect, EvictEffect DEF SameSession, client
<1>4. CASE ReceiveChunk
  BY <1>1, <1>4, KnownState, ReceiveEffect DEF client
<1>5. CASE LeaveSession
  BY <1>1, <1>5, LeaveEffect DEF LeaveSession, wire
<1>6. CASE SshConnect
  <2>1. /\ ~Alive /\ newest' = newest + 1 /\ newest \in Nat
        /\ UNCHANGED <<terminal, epoch, session>> /\ deck'.pc = "create"
    BY <1>6, NoSessionAtConnect DEF SshConnect, Turn, wire
  <2>2. ~Alive'
    BY <2>1 DEF Alive
  <2>3. QED
    BY <1>1, <2>1, <2>2, KnownState
<1>7. CASE CreateSession /\ deck'.pc = "store"
  BY <1>1, <1>7, CreateEffect, KnownState DEF wire
<1>8. CASE Adopt
  <2>1. /\ terminal'.expected = newest /\ terminal'.applied = epoch /\ terminal'.last = 0
        /\ UNCHANGED <<newest, session, epoch>> /\ deck'.pc = "idle"
    BY <1>8, KnownState DEF Adopt, Turn, client, wire, TerminalSet
  <2>2. QED
    BY <1>1, <2>1, KnownState DEF Alive
<1>9. CASE Deinit
  <2>1. /\ terminal'.expected = 0 /\ terminal'.applied = terminal.applied /\ terminal'.last = 0
        /\ UNCHANGED <<newest, session, epoch>> /\ deck'.pc = "closing"
    BY <1>9, KnownState DEF Deinit, Turn, wire, TerminalSet
  <2>2. QED
    BY <1>1, <2>1, KnownState DEF Alive
<1>10. CASE Emptied
  BY <1>1, <1>10 DEF Emptied, client, Alive
<1>11. CASE Show
  <2>1. events # <<>> /\ 1 \in DOMAIN events /\ Head(events) = events[1] /\ deck.pc = "idle"
        /\ UNCHANGED <<newest, session, epoch, deck>>
    BY <1>11, KnownState, TailPlaces DEF Show, Deck, client
  <2>2. /\ events[1].epoch <= epoch /\ events[1].epoch \in Nat /\ events[1].chunk \in Nat
        /\ Alive /\ events[1].generation = newest => events[1].chunk <= session.chunk
    BY <2>1, KnownEvent DEF SshInv, EventsHaveBeen
  <2>3. /\ terminal'.expected = terminal.expected
        /\ terminal'.applied \in {terminal.applied, events[1].epoch}
        /\ \/ terminal'.last = terminal.last
           \/ terminal'.last = events[1].chunk /\ events[1].generation = terminal.expected
    BY <1>11, <2>1, KnownState DEF Show, TerminalSet
  <2>4. QED
    BY <1>1, <2>1, <2>2, <2>3, KnownState DEF Alive
<1>12. QED
  BY <1>2, <1>3, <1>4, <1>5, <1>6, <1>7, <1>8, <1>9, <1>10, <1>11, StillSteps

\* An append, at its places.
LEMMA AppendToEvents ==
    ASSUME SshInv, NEW e \in EventSet, events' = Append(events, e)
    PROVE  /\ DOMAIN events' = 1 .. Len(events) + 1
           /\ \A i \in DOMAIN events : events'[i] = events[i]
           /\ events'[Len(events) + 1] = e
BY KnownState, AppendPlaces

\* A tail, at its places: what stays was one place further.
LEMMA TailOfEvents ==
    ASSUME SshInv, events # <<>>
    PROVE  /\ DOMAIN Tail(events) = 1 .. Len(events) - 1 /\ Len(Tail(events)) = Len(events) - 1
           /\ Tail(events) \in Seq(EventSet) /\ Head(events) = events[1] /\ 1 \in DOMAIN events
           /\ \A i \in DOMAIN Tail(events) : i + 1 \in DOMAIN events /\ Tail(events)[i] = events[i + 1]
<1>1. events \in Seq(EventSet)
  BY KnownState
<1>2. QED
  BY <1>1, TailPlaces

\* The places of a queue that lost its head and got an event.
LEMMA TurnOfEvents ==
    ASSUME SshInv, events # <<>>, NEW e \in EventSet, events' = Append(Tail(events), e)
    PROVE  /\ DOMAIN events' = 1 .. Len(events) /\ Len(events) \in Nat \ {0}
           /\ \A i \in 1 .. Len(events) - 1 : i + 1 \in DOMAIN events /\ events'[i] = events[i + 1]
           /\ events'[Len(events)] = e
<1>1. Len(events) \in Nat \ {0} /\ DOMAIN events = 1 .. Len(events)
  BY KnownState, TailPlaces
<1>2. /\ DOMAIN Append(Tail(events), e) = 1 .. Len(Tail(events)) + 1
      /\ \A i \in 1 .. Len(Tail(events)) : Append(Tail(events), e)[i] = Tail(events)[i]
      /\ Append(Tail(events), e)[Len(Tail(events)) + 1] = e
  BY TailOfEvents, AppendPlaces
<1>3. QED
  BY <1>1, <1>2, TailOfEvents

\* An event that has been, told of the next state.
HasBeenThen(e) ==
    /\ e.epoch <= epoch' /\ e.generation <= newest'
    /\ deck'.pc = "create" => e.generation # newest'
    /\ Alive' /\ e.generation = newest' => e.chunk <= session'.chunk
    /\ e.generation = terminal'.expected => e.chunk >= terminal'.last

LEMMA OldEventsHaveBeen ==
    ASSUME SshInv, NEW i \in DOMAIN events,
           epoch' \in {epoch, epoch + 1},
           newest' = newest, deck'.pc = "create" => deck.pc = "create",
           Alive' => Alive, session'.chunk \in {session.chunk, session.chunk + 1},
           events[i].generation = terminal'.expected => events[i].chunk >= terminal'.last
    PROVE  HasBeenThen(events[i])
<1>1. /\ deck.pc = "create" => events[i].generation # newest
      /\ Alive /\ events[i].generation = newest => events[i].chunk <= session.chunk
  BY DEF SshInv, EventsHaveBeen
<1>2. events[i].epoch <= epoch' /\ events[i].generation <= newest'
  BY KnownState, KnownEvent
<1>3. Alive' /\ events[i].generation = newest' => events[i].chunk <= session'.chunk
  BY <1>1, KnownState, KnownEvent
<1>4. QED
  BY <1>1, <1>2, <1>3 DEF HasBeenThen

LEMMA EventsHaveBeenKept ==
    ASSUME SshInv, SshNext
    PROVE  EventsHaveBeen'
<1>1. SUFFICES \A i \in DOMAIN events' : HasBeenThen(events'[i])
  BY DEF EventsHaveBeen, HasBeenThen
<1>2. EventsHaveBeen /\ TerminalFollows /\ SessionIsNewest
  BY DEF SshInv
<1>3. \A i \in DOMAIN events : events[i].generation = terminal.expected => events[i].chunk >= terminal.last
  BY <1>2 DEF EventsHaveBeen
<1>4. CASE Still
  BY <1>2, <1>4 DEF Still, EventsHaveBeen, HasBeenThen
<1>5. CASE Tell /\ events' = Append(events, Event("state"))
  <2>1. /\ Alive /\ Alive' /\ session'.chunk = session.chunk
        /\ UNCHANGED <<newest, epoch, terminal, deck>> /\ deck.pc # "create"
    BY <1>2, <1>5, TellEffect DEF SameSession, SessionIsNewest, client
  <2>2. \A i \in DOMAIN events : HasBeenThen(events[i])
    BY <1>3, <2>1, OldEventsHaveBeen
  <2>3. Event("state") \in EventSet /\ HasBeenThen(Event("state"))
    BY <1>2, <2>1, EventIsTyped, KnownState DEF HasBeenThen, TerminalFollows
  <2>4. QED
    BY <1>5, <2>2, <2>3, AppendToEvents, KnownState
<1>6. CASE Evict
  <2>1. /\ Alive /\ Alive' /\ session'.chunk = session.chunk /\ epoch' = epoch + 1
        /\ UNCHANGED <<newest, terminal, deck>> /\ deck.pc # "create"
    BY <1>2, <1>6, EvictEffect DEF SameSession, SessionIsNewest, client
  <2>2. \A i \in DOMAIN events : HasBeenThen(events[i])
    BY <1>3, <2>1, OldEventsHaveBeen
  <2>3. [Event("state") EXCEPT !.epoch = epoch + 1] \in EventSet
        /\ HasBeenThen([Event("state") EXCEPT !.epoch = epoch + 1])
    BY <1>2, <2>1, LateEventIsTyped, KnownState DEF HasBeenThen, TerminalFollows
  <2>4. CASE events # <<>> /\ events' = Append(Tail(events), [Event("state") EXCEPT !.epoch = epoch + 1])
    BY <2>2, <2>3, <2>4, TurnOfEvents
  <2>5. CASE events # <<>> /\ events' = Tail(events)
    BY <2>2, <2>5, TailOfEvents
  <2>6. CASE events = <<>> /\ events' = <<>>
    BY <2>6
  <2>7. QED
    BY <1>6, <2>4, <2>5, <2>6, EvictEffect
<1>7. CASE ReceiveChunk
  <2>1. /\ Alive /\ Alive' /\ session'.chunk = session.chunk + 1 /\ session.chunk < Chunks
        /\ epoch' \in {epoch, epoch + 1}
        /\ UNCHANGED <<newest, terminal, deck>> /\ deck.pc # "create"
    BY <1>2, <1>7, ReceiveEffect DEF SessionIsNewest, client
  <2>2. \A i \in DOMAIN events : HasBeenThen(events[i])
    BY <1>3, <2>1, OldEventsHaveBeen
  <2>3. [Event("data") EXCEPT !.chunk = @ + 1] \in EventSet
        /\ HasBeenThen([Event("data") EXCEPT !.chunk = @ + 1])
    <3>1. PICK e \in EventSet :
              /\ e = [Event("data") EXCEPT !.chunk = @ + 1] /\ e.generation = newest
              /\ e.epoch = epoch /\ e.chunk = session.chunk + 1
      BY <2>1, ChunkIsTyped
    <3>2. newest = terminal.expected => session.chunk >= terminal.last
      BY <1>2, <2>1, KnownState DEF TerminalFollows
    <3>3. /\ newest \in Nat /\ epoch \in Nat /\ session.chunk \in Nat /\ terminal.last \in Nat
      BY KnownState
    <3>4. HasBeenThen(e)
      BY <2>1, <3>1, <3>2, <3>3 DEF HasBeenThen
    <3>5. QED
      BY <3>1, <3>4
  <2>4. CASE events' = Append(events, [Event("data") EXCEPT !.chunk = @ + 1])
    BY <2>2, <2>3, <2>4, AppendToEvents, KnownState, SMTT(30)
  <2>5. CASE events' = events
    BY <2>2, <2>5
  <2>6. QED
    BY <1>7, <2>4, <2>5, ReceiveEffect
<1>8. CASE LeaveSession
  <2>1. ~Alive' /\ UNCHANGED <<newest, events, epoch, terminal, deck>>
    BY <1>8, LeaveEffect DEF LeaveSession, wire
  <2>2. QED
    BY <1>2, <2>1 DEF EventsHaveBeen, HasBeenThen
<1>9. CASE SshConnect
  <2>1. /\ ~Alive /\ newest' = newest + 1 /\ newest \in Nat
        /\ UNCHANGED <<terminal, epoch, session, events>>
    BY <1>9, NoSessionAtConnect DEF SshConnect, wire
  <2>2. ~Alive'
    BY <2>1 DEF Alive
  <2>3. QED
    BY <1>2, <2>1, <2>2, KnownEvent DEF EventsHaveBeen, HasBeenThen
<1>10. CASE CreateSession /\ deck'.pc = "store"
  <2>1. UNCHANGED <<newest, terminal, epoch, events>> /\ deck.pc = "create"
    BY <1>10, CreateEffect DEF wire
  <2>2. QED
    BY <1>2, <1>10, <2>1 DEF EventsHaveBeen, HasBeenThen
<1>11. CASE Adopt \/ Deinit
  <2>1. /\ terminal'.last = 0 /\ UNCHANGED <<newest, session, epoch, events>> /\ deck'.pc # "create"
    <3>1. CASE Adopt
      BY <3>1, KnownState DEF Adopt, Turn, client, wire, TerminalSet
    <3>2. CASE Deinit
      BY <3>2, KnownState DEF Deinit, Turn, wire, TerminalSet
    <3>3. QED
      BY <1>11, <3>1, <3>2
  <2>2. \A i \in DOMAIN events : HasBeenThen(events[i])
    BY <2>1, OldEventsHaveBeen, KnownEvent, KnownState DEF Alive
  <2>3. QED
    BY <2>1, <2>2
<1>12. CASE Emptied
  BY <1>12 DEF Emptied
<1>13. CASE Show
  <2>1. events # <<>> /\ events' = Tail(events) /\ Head(events) = events[1]
        /\ UNCHANGED <<newest, session, epoch, deck>>
    BY <1>13, TailOfEvents DEF Show, client
  <2>2. /\ terminal'.expected = terminal.expected
        /\ \/ terminal'.last = terminal.last
           \/ terminal'.last = events[1].chunk /\ events[1].generation = terminal.expected
    BY <1>13, <2>1, KnownState DEF Show, TerminalSet
  <2>3. ASSUME NEW i \in DOMAIN events, i > 1 PROVE HasBeenThen(events[i])
    <3>1. events[i].generation = terminal'.expected => events[i].chunk >= terminal'.last
      BY <1>3, <2>1, <2>2, <2>3, TailOfEvents, KnownState, KnownEvent DEF SshInv, EventsGrow
    <3>2. QED
      BY <2>1, <3>1, OldEventsHaveBeen, KnownState DEF Alive
  <2>4. QED
    BY <2>1, <2>3, TailOfEvents, KnownState
<1>14. QED
  BY <1>4, <1>5, <1>6, <1>7, <1>8, <1>9, <1>10, <1>11, <1>12, <1>13, StillSteps

\* The first of two events is the earlier one.
Before(d, e) ==
    /\ d.epoch <= e.epoch
    /\ d.generation = e.generation =>
           d.chunk <= e.chunk /\ (e.kind = "data" => d.chunk < e.chunk)

LEMMA GrowingQueue ==
    ASSUME SshInv, NEW i \in DOMAIN events, NEW j \in DOMAIN events, i < j
    PROVE  Before(events[i], events[j])
BY DEF SshInv, EventsGrow, Before

\* Whatever is in the queue is earlier than the next state and the next chunk.
LEMMA NextIsLater ==
    ASSUME SshInv, Alive, NEW i \in DOMAIN events
    PROVE  /\ Before(events[i], Event("state"))
           /\ Before(events[i], [Event("state") EXCEPT !.epoch = epoch + 1])
           /\ session.chunk < Chunks => Before(events[i], [Event("data") EXCEPT !.chunk = @ + 1])
<1>1. events[i].generation = newest => events[i].chunk <= session.chunk
  BY DEF SshInv, EventsHaveBeen
<1>2. Before(events[i], Event("state"))
  BY <1>1, EventIsTyped, KnownState, KnownEvent DEF Before
<1>3. Before(events[i], [Event("state") EXCEPT !.epoch = epoch + 1])
  <2>1. PICK e \in EventSet : /\ e = [Event("state") EXCEPT !.epoch = epoch + 1] /\ e.kind = "state"
                              /\ e.generation = newest /\ e.epoch = epoch + 1 /\ e.chunk = session.chunk
    BY LateEventIsTyped
  <2>2. events[i].epoch \in Nat /\ events[i].epoch <= epoch /\ epoch \in Nat
    BY KnownState, KnownEvent
  <2>3. Before(events[i], e)
    BY <1>1, <2>1, <2>2 DEF Before
  <2>4. QED
    BY <2>1, <2>3
<1>4. ASSUME session.chunk < Chunks PROVE Before(events[i], [Event("data") EXCEPT !.chunk = @ + 1])
  <2>1. PICK e \in EventSet : /\ e = [Event("data") EXCEPT !.chunk = @ + 1]
                              /\ e.generation = newest /\ e.epoch = epoch /\ e.chunk = session.chunk + 1
    BY <1>4, ChunkIsTyped
  <2>2. /\ events[i].epoch <= epoch /\ events[i].chunk \in Nat /\ session.chunk \in Nat
    BY KnownState, KnownEvent
  <2>3. Before(events[i], e)
    BY <1>1, <2>1, <2>2 DEF Before
  <2>4. QED
    BY <2>1, <2>3
<1>5. QED
  BY <1>2, <1>3, <1>4

LEMMA EventsGrowKept ==
    ASSUME SshInv, SshNext
    PROVE  EventsGrow'
<1>1. SUFFICES \A i, j \in DOMAIN events' : i < j => Before(events'[i], events'[j])
  BY DEF EventsGrow, Before
<1>2. ASSUME NEW e \in EventSet, events' = Append(events, e),
             \A i \in DOMAIN events : Before(events[i], e)
      PROVE  \A i, j \in DOMAIN events' : i < j => Before(events'[i], events'[j])
  <2>1. SUFFICES ASSUME NEW i \in 1 .. Len(events) + 1, NEW j \in 1 .. Len(events) + 1, i < j
                 PROVE  Before(events'[i], events'[j])
    BY <1>2, AppendToEvents
  <2>2. i \in DOMAIN events /\ events'[i] = events[i]
    BY <1>2, <2>1, KnownState, AppendToEvents
  <2>3. CASE j = Len(events) + 1
    BY <1>2, <2>2, <2>3, AppendToEvents
  <2>4. CASE j # Len(events) + 1
    <3>1. j \in DOMAIN events /\ events'[j] = events[j]
      BY <1>2, <2>4, KnownState, AppendToEvents
    <3>2. QED
      BY <2>1, <2>2, <3>1, GrowingQueue
  <2>5. QED
    BY <2>3, <2>4
<1>3. ASSUME events # <<>>, events' = Tail(events)
      PROVE  \A i, j \in DOMAIN events' : i < j => Before(events'[i], events'[j])
  <2>1. SUFFICES ASSUME NEW i \in DOMAIN Tail(events), NEW j \in DOMAIN Tail(events), i < j
                 PROVE  Before(events'[i], events'[j])
    BY <1>3
  <2>2. /\ i + 1 \in DOMAIN events /\ events'[i] = events[i + 1]
        /\ j + 1 \in DOMAIN events /\ events'[j] = events[j + 1] /\ i + 1 < j + 1
    BY <1>3, <2>1, TailOfEvents, KnownState
  <2>3. QED
    BY <2>2, GrowingQueue
<1>4. CASE Tell /\ events' = Append(events, Event("state"))
  <2>1. Alive
    BY <1>4, TellEffect DEF SameSession
  <2>2. QED
    BY <1>2, <1>4, <2>1, EventIsTyped, NextIsLater
<1>5. CASE Evict
  <2>1. Alive
    BY <1>5, EvictEffect DEF SameSession
  <2>2. CASE events # <<>> /\ events' = Append(Tail(events), [Event("state") EXCEPT !.epoch = epoch + 1])
    <3>1. SUFFICES ASSUME NEW i \in 1 .. Len(events), NEW j \in 1 .. Len(events), i < j
                   PROVE  Before(events'[i], events'[j])
      BY <2>1, <2>2, LateEventIsTyped, TurnOfEvents
    <3>2. i + 1 \in DOMAIN events /\ events'[i] = events[i + 1]
      <4>1. Len(events) \in Nat
        BY KnownState
      <4>2. i \in 1 .. Len(events) - 1
        BY <3>1, <4>1
      <4>3. QED
        BY <2>1, <2>2, <4>2, LateEventIsTyped, TurnOfEvents
    <3>3. CASE j = Len(events)
      BY <2>1, <2>2, <3>2, <3>3, LateEventIsTyped, TurnOfEvents, NextIsLater
    <3>4. CASE j # Len(events)
      <4>4. Len(events) \in Nat
        BY KnownState
      <4>1. j \in 1 .. Len(events) - 1 /\ i + 1 < j + 1
        BY <3>1, <3>4, <4>4
      <4>3. j + 1 \in DOMAIN events /\ events'[j] = events[j + 1]
        BY <2>1, <2>2, <4>1, LateEventIsTyped, TurnOfEvents
      <4>2. QED
        BY <3>2, <4>1, <4>3, GrowingQueue
    <3>5. QED
      BY <3>3, <3>4
  <2>3. CASE events # <<>> /\ events' = Tail(events)
    BY <1>3, <2>3
  <2>4. CASE events = <<>> /\ events' = <<>>
    BY <2>4
  <2>5. QED
    BY <1>5, <2>2, <2>3, <2>4, EvictEffect
<1>6. CASE ReceiveChunk
  <2>1. CASE events' = Append(events, [Event("data") EXCEPT !.chunk = @ + 1])
    BY <1>2, <1>6, <2>1, ReceiveEffect, ChunkIsTyped, NextIsLater
  <2>2. CASE events' = events
    BY <2>2, GrowingQueue
  <2>3. QED
    BY <1>6, <2>1, <2>2, ReceiveEffect
<1>7. CASE Show
  BY <1>3, <1>7 DEF Show
<1>8. CASE Emptied
  BY <1>8 DEF Emptied
<1>9. CASE Still \/ LeaveSession \/ SshConnect \/ CreateSession \/ Adopt \/ Deinit
  <2>1. events' = events
    BY <1>9, CreateEffect DEF Still, LeaveSession, SshConnect, Adopt, Deinit, wire
  <2>2. QED
    BY <2>1, GrowingQueue
<1>10. QED
  BY <1>4, <1>5, <1>6, <1>7, <1>8, <1>9, StillSteps

LEMMA SignHasBeen ==
    ASSUME SshInv, NEW k, NEW p, Sign(k, p)
    PROVE  /\ k \in Nat /\ p \in Nat /\ p <= epoch /\ k <= Chunks
           /\ Alive /\ terminal.expected = newest => k <= session.chunk
BY KnownState, KnownEvent DEF SshInv, EventsHaveBeen, Sign

\* A step that neither loses nor tells.
LEMMA NothingIsLost ==
    ASSUME SshInv, deck.pc \notin {"store", "adopt"},
           \A k, p \in Nat : Sign(k, p)' => Sign(k, p),
           \A c \in Nat : Missing(c)' => Missing(c),
           terminal'.applied = terminal.applied, terminal'.clean = terminal.clean
    PROVE  LossesAreTold'
BY DEF SshInv, LossesAreTold, Told

\* A step after which no event waits that the terminal expects.
LEMMA NothingIsExpected ==
    ASSUME \A c, k \in Nat, p \in Nat : Missing(c)' /\ Sign(k, p)' => ~(c <= k)
    PROVE  LossesAreTold'
BY DEF LossesAreTold

\* A step that begins an epoch.
LEMMA LossIsTold ==
    ASSUME SshInv, deck.pc \notin {"store", "adopt"}, Alive, NEW n \in Nat, session.chunk <= n,
           terminal.expected \in {0, newest},
           \A k, p \in Nat : Sign(k, p)' =>
               \/ Sign(k, p)
               \/ k = n /\ p = epoch + 1 /\ terminal.expected = newest,
           \A c \in Nat : Missing(c)' => Missing(c),
           terminal'.applied = terminal.applied, terminal'.clean = terminal.clean
    PROVE  LossesAreTold'
<1>1. SUFFICES ASSUME NEW c \in Nat, NEW k \in Nat, NEW p \in Nat,
                      Missing(c), Sign(k, p)', c <= k
               PROVE  Told(c, p)'
  BY DEF LossesAreTold
<1>2. terminal.applied <= epoch /\ epoch \in Nat /\ terminal.applied \in Nat
  BY KnownState DEF SshInv, TerminalFollows
<1>3. CASE Sign(k, p)
  <2>1. Told(c, p)
    BY <1>1, <1>3 DEF SshInv, LossesAreTold
  <2>2. ASSUME terminal.expected = newest PROVE n >= c
    BY <1>1, <1>3, <2>2, SignHasBeen, KnownState
  <2>3. \A l, r \in Nat : Sign(l, r)' => Sign(l, r) \/ l >= c
    BY <2>2
  <2>4. QED
    BY <1>1, <2>1, <2>3 DEF Told
<1>4. CASE ~Sign(k, p)
  <2>1. k = n /\ p = epoch + 1
    BY <1>1, <1>4
  <2>2. \A l, r \in Nat : Sign(l, r)' /\ l < c => r < p
    BY <1>1, <2>1, <1>2, SignHasBeen
  <2>3. ~(p <= terminal.applied)
    BY <1>2, <2>1
  <2>4. QED
    BY <1>1, <2>2, <2>3 DEF Told
<1>5. QED
  BY <1>3, <1>4

\* A step that puts the next chunk into the queue.
LEMMA ChunkIsNoLoss ==
    ASSUME SshInv, deck.pc \notin {"store", "adopt"}, Alive, terminal.expected \in {0, newest},
           \A k, p \in Nat : Sign(k, p)' =>
               \/ Sign(k, p)
               \/ k = session.chunk + 1 /\ p = epoch /\ terminal.expected = newest,
           \A c \in Nat : Missing(c)' => /\ Missing(c)
                                         /\ terminal.expected = newest => c # session.chunk + 1,
           terminal'.applied = terminal.applied, terminal'.clean = terminal.clean
    PROVE  LossesAreTold'
<1>1. SUFFICES ASSUME NEW c \in Nat, NEW k \in Nat, NEW p \in Nat,
                      Missing(c), Missing(c)', Sign(k, p)', c <= k
               PROVE  Told(c, p)'
  BY DEF LossesAreTold
<1>2. session.chunk \in Nat /\ epoch \in Nat
  BY KnownState
<1>3. CASE Sign(k, p)
  <2>1. Told(c, p)
    BY <1>1, <1>3 DEF SshInv, LossesAreTold
  <2>2. ASSUME terminal.expected = newest PROVE session.chunk + 1 >= c
    BY <1>1, <1>2, <1>3, <2>2, SignHasBeen
  <2>3. \A l, r \in Nat : Sign(l, r)' => Sign(l, r) \/ l >= c
    BY <2>2
  <2>4. QED
    BY <1>1, <2>1, <2>3 DEF Told
<1>4. CASE ~Sign(k, p)
  <2>1. k = session.chunk + 1 /\ p = epoch /\ terminal.expected = newest
    BY <1>1, <1>4
  <2>2. Sign(session.chunk, epoch) /\ c <= session.chunk
    BY <1>1, <1>2, <2>1 DEF Sign, SshInv, SessionIsNewest
  <2>3. Told(c, p)
    BY <1>1, <1>2, <2>1, <2>2 DEF SshInv, LossesAreTold
  <2>4. \A l, r \in Nat : Sign(l, r)' => Sign(l, r) \/ l >= c
    BY <1>2, <2>2
  <2>5. QED
    BY <1>1, <2>3, <2>4 DEF Told
<1>5. QED
  BY <1>3, <1>4

\* What the terminal shows or drops.
LEMMA ShowIsNoLoss ==
    ASSUME SshInv, Show
    PROVE  LossesAreTold'
<1> DEFINE e == events[1]
<1>1. /\ events # <<>> /\ events' = Tail(events) /\ Head(events) = e /\ 1 \in DOMAIN events
      /\ deck.pc = "idle" /\ UNCHANGED <<newest, session, epoch, deck, excused>>
  BY TailOfEvents DEF Show, Deck, client
<1>2. terminal \in TerminalSet /\ e.epoch \in Nat /\ e.chunk \in Nat /\ e \in EventSet /\ epoch \in Nat
      /\ terminal.applied \in Nat /\ terminal.last \in Nat
  BY <1>1, KnownState, KnownEvent
<1>3. /\ terminal'.expected = terminal.expected
      /\ e.generation # terminal.expected => terminal' = terminal
      /\ e.generation = terminal.expected =>
            /\ terminal'.applied = IF e.epoch > terminal.applied THEN e.epoch ELSE terminal.applied
            /\ terminal'.clean = ((terminal.clean \/ e.epoch > terminal.applied) /\ e.kind # "data")
            /\ terminal'.last = IF e.kind = "data" THEN e.chunk ELSE terminal.last
  <2>1. CASE e.generation # terminal.expected
    BY <1>1, <2>1 DEF Show
  <2>2. CASE e.generation = terminal.expected
    BY <1>1, <1>2, <2>2 DEF Show, Resyncs, TerminalSet
  <2>3. QED
    BY <2>1, <2>2
<1>4. \A k, p \in Nat : Sign(k, p)' => Sign(k, p)
  BY <1>1, <1>3, TailOfEvents DEF Sign, Alive
<1>5. e.generation = terminal.expected => e.chunk >= terminal.last
  BY <1>1 DEF SshInv, EventsHaveBeen
<1>6. \A c \in Nat : Missing(c)' =>
         /\ Missing(c)
         /\ e.generation = terminal.expected /\ e.kind = "data" => c > e.chunk
  <2>1. SUFFICES ASSUME NEW c \in Nat, Missing(c)'
                 PROVE  /\ Missing(c)
                        /\ e.generation = terminal.expected /\ e.kind = "data" => c > e.chunk
    OBVIOUS
  <2>2. /\ c > terminal'.last /\ c \notin excused
        /\ \A i \in DOMAIN Tail(events) :
              Tail(events)[i].generation = terminal.expected /\ Tail(events)[i].kind = "data"
                => Tail(events)[i].chunk # c
    BY <1>1, <1>3, <2>1 DEF Missing
  <2>3. /\ c > terminal.last
        /\ e.generation = terminal.expected /\ e.kind = "data" => c > e.chunk
    BY <1>2, <1>3, <1>5, <2>2
  <2>4. ASSUME NEW i \in DOMAIN events, events[i].generation = terminal.expected, events[i].kind = "data"
        PROVE  events[i].chunk # c
    <3>1. CASE i = 1
      BY <1>2, <2>3, <2>4, <3>1
    <3>2. CASE i # 1
      <4>1. Len(events) \in Nat /\ DOMAIN events = 1 .. Len(events)
        BY KnownState
      <4>2. i - 1 \in DOMAIN Tail(events) /\ (i - 1) + 1 = i
        BY <1>1, <3>2, <4>1, TailOfEvents
      <4>3. Tail(events)[i - 1] = events[i]
        BY <1>1, <4>2, TailOfEvents
      <4>4. QED
        BY <2>2, <2>4, <4>2, <4>3
    <3>3. QED
      BY <3>1, <3>2
  <2>5. QED
    BY <2>2, <2>3, <2>4 DEF Missing
<1>7. CASE e.generation # terminal.expected
  BY <1>1, <1>3, <1>4, <1>6, <1>7, NothingIsLost
<1>8. CASE e.generation = terminal.expected
  <2>1. SUFFICES ASSUME NEW c \in Nat, NEW k \in Nat, NEW p \in Nat,
                        Missing(c), e.kind = "data" => c > e.chunk, Sign(k, p), c <= k
                 PROVE  Told(c, p)'
    BY <1>4, <1>6, <1>8 DEF LossesAreTold
  <2>2. Told(c, p)
    BY <1>1, <2>1 DEF SshInv, LossesAreTold
  <2>3. \A l, r \in Nat : Sign(l, r)' /\ l < c => r < p
    BY <1>4, <2>2 DEF Told
  <2>4. Sign(e.chunk, e.epoch)
    BY <1>1, <1>8 DEF Sign
  <2>5. ASSUME p <= terminal'.applied
        PROVE  terminal'.clean /\ \A l, r \in Nat : Sign(l, r)' => l >= c
    <3>1. CASE p <= terminal.applied
      <4>1. terminal.clean /\ \A l, r \in Nat : Sign(l, r) => l >= c
        BY <2>2, <3>1 DEF Told
      <4>2. e.kind # "data"
        BY <1>2, <2>1, <2>4, <4>1
      <4>3. QED
        BY <1>3, <1>4, <1>8, <4>1, <4>2
    <3>2. CASE ~(p <= terminal.applied)
      <4>1. e.epoch > terminal.applied /\ p <= e.epoch
        BY <1>2, <1>3, <1>8, <2>5, <3>2
      <4>2. e.kind # "data"
        BY <1>2, <2>1, <2>2, <2>4, <4>1 DEF Told
      <4>3. ASSUME NEW l \in Nat, NEW r \in Nat, Sign(l, r)' PROVE r >= e.epoch
        <5>1. CASE r = epoch
          BY <1>1, <1>2, <5>1, KnownEvent
        <5>2. ASSUME NEW i \in DOMAIN Tail(events), Tail(events)[i].epoch = r PROVE r >= e.epoch
          <6>1. i + 1 \in DOMAIN events /\ Tail(events)[i] = events[i + 1]
            BY <1>1, <5>2, TailOfEvents
          <6>2. 1 < i + 1
            BY <1>1, <5>2, TailOfEvents, KnownState
          <6>3. Before(e, events[i + 1])
            BY <1>1, <6>1, <6>2, GrowingQueue
          <6>4. QED
            BY <1>2, <5>2, <6>1, <6>3, KnownEvent DEF Before
        <5>3. QED
          BY <1>1, <4>3, <5>1, <5>2 DEF Sign
      <4>4. \A l, r \in Nat : Sign(l, r)' => l >= c
        BY <1>2, <2>3, <4>1, <4>3
      <4>5. QED
        BY <1>3, <1>8, <4>1, <4>2, <4>4
    <3>3. QED
      BY <3>1, <3>2
  <2>6. QED
    BY <2>3, <2>5 DEF Told
<1>9. QED
  BY <1>7, <1>8

LEMMA HealedKept ==
    ASSUME SshInv, SshNext
    PROVE  RefusedChunksAreHealed'
<1>1. RefusedChunksAreHealed /\ terminal \in TerminalSet
  BY KnownState DEF SshInv
<1>2. CASE Adopt \/ Deinit
  BY <1>1, <1>2 DEF Adopt, Deinit, RefusedChunksAreHealed, TerminalSet
<1>3. CASE ~Adopt /\ ~Deinit /\ ~Show
  <2>1. terminal' = terminal
    BY <1>3, StillSteps, TellEffect, EvictEffect, ReceiveEffect, CreateEffect
      DEF Still, LeaveSession, SshConnect, Emptied
  <2>2. QED
    BY <1>1, <2>1 DEF RefusedChunksAreHealed
<1>4. CASE Show
  <2> DEFINE e == events[1]
  <2>1. /\ events # <<>> /\ Head(events) = e /\ 1 \in DOMAIN events /\ deck.pc = "idle"
    BY <1>4, TailOfEvents DEF Show, Deck
  <2>2. e.epoch \in Nat /\ e.chunk \in Nat /\ terminal.applied \in Nat /\ terminal.last \in Nat
    BY <2>1, KnownState, KnownEvent
  <2>3. CASE e.generation # terminal.expected
    BY <1>1, <1>4, <2>1, <2>3 DEF Show, RefusedChunksAreHealed
  <2>4. CASE /\ e.generation = terminal.expected /\ e.kind = "data"
             /\ ~terminal.clean /\ ~Resyncs(e) /\ Gap(e) # {}
    <3>1. PICK c \in Gap(e) : TRUE
      BY <2>4
    <3>2. c \in Nat /\ c > terminal.last /\ c < e.chunk /\ c \notin excused
      BY <2>2, <3>1 DEF Gap
    <3>3. ASSUME NEW i \in DOMAIN events, events[i].generation = terminal.expected, events[i].kind = "data"
          PROVE  events[i].chunk # c
      <4>1. CASE i = 1
        BY <2>2, <3>2, <4>1
      <4>2. CASE i # 1
        <5>1. Before(e, events[i])
          BY <2>1, <4>2, KnownState, GrowingQueue
        <5>2. QED
          BY <2>2, <2>4, <3>2, <3>3, <5>1, KnownEvent DEF Before
      <4>3. QED
        BY <4>1, <4>2
    <3>4. Missing(c)
      BY <3>2, <3>3 DEF Missing
    <3>5. Sign(e.chunk, e.epoch)
      BY <2>1, <2>4 DEF Sign
    <3>6. Told(c, e.epoch)
      BY <2>1, <2>2, <3>2, <3>4, <3>5 DEF SshInv, LossesAreTold
    <3>7. e.epoch <= terminal.applied
      BY <2>2, <2>4 DEF Resyncs
    <3>8. QED
      BY <2>4, <3>6, <3>7 DEF Told
  <2>5. CASE /\ e.generation = terminal.expected
             /\ ~(e.kind = "data" /\ ~terminal.clean /\ ~Resyncs(e) /\ Gap(e) # {})
    <3>1. terminal'.glued = (terminal.glued \/ (e.kind = "data" /\ ~(terminal.clean \/ Resyncs(e)) /\ Gap(e) # {}))
      BY <1>1, <1>4, <2>1, <2>5 DEF Show, TerminalSet
    <3>2. QED
      BY <1>1, <2>5, <3>1 DEF RefusedChunksAreHealed
  <2>6. QED
    BY <2>3, <2>4, <2>5
<1>5. QED
  BY <1>2, <1>3, <1>4

LEMMA LossesAreToldKept ==
    ASSUME SshInv, SshNext
    PROVE  LossesAreTold'
<1>1. SessionIsNewest /\ TerminalFollows
  BY DEF SshInv
<1>2. ASSUME Alive, deck.pc \notin {"store", "adopt"}
      PROVE  terminal.expected \in {0, newest} /\ session.generation = newest
  BY <1>1, <1>2 DEF SessionIsNewest, TerminalFollows
<1>3. CASE Still
  <2>1. CASE deck.pc \in {"store", "adopt"}
    BY <1>3, <2>1 DEF Still, LossesAreTold
  <2>2. CASE deck.pc \notin {"store", "adopt"}
    <3>1. \A k, p \in Nat : Sign(k, p)' => Sign(k, p)
      BY <1>3 DEF Still, Sign
    <3>2. \A c \in Nat : Missing(c)' => Missing(c)
      BY <1>3 DEF Still, Missing
    <3>3. QED
      BY <1>3, <2>2, <3>1, <3>2, NothingIsLost DEF Still
  <2>3. QED
    BY <2>1, <2>2
<1>4. CASE Tell /\ events' = Append(events, Event("state"))
  <2>1. /\ Alive /\ Alive' /\ session'.chunk = session.chunk /\ session'.generation = session.generation
        /\ UNCHANGED <<newest, epoch, terminal, deck, excused>>
    BY <1>4, TellEffect DEF SameSession, client
  <2>2. /\ Event("state") \in EventSet /\ Event("state").generation = session.generation
        /\ Event("state").epoch = epoch /\ Event("state").chunk = session.chunk
        /\ Event("state").kind = "state"
    BY <2>1, EventIsTyped
  <2>3. CASE deck.pc \in {"store", "adopt"}
    BY <2>1, <2>3 DEF LossesAreTold
  <2>4. CASE deck.pc \notin {"store", "adopt"}
    <3>1. \A k, p \in Nat : Sign(k, p)' => Sign(k, p)
      BY <1>4, <2>1, <2>2, AppendToEvents, KnownState DEF Sign
    <3>2. \A c \in Nat : Missing(c)' => Missing(c)
      BY <1>4, <2>1, <2>2, AppendToEvents, KnownState DEF Missing
    <3>3. QED
      BY <2>1, <2>4, <3>1, <3>2, NothingIsLost
  <2>5. QED
    BY <2>3, <2>4
<1>5. CASE Evict
  <2> DEFINE e == [Event("state") EXCEPT !.epoch = epoch + 1]
  <2>1. /\ Alive /\ Alive' /\ session'.chunk = session.chunk /\ session'.generation = session.generation
        /\ epoch' = epoch + 1 /\ UNCHANGED <<newest, terminal, deck>>
    BY <1>5, EvictEffect DEF SameSession, client
  <2>2. /\ e \in EventSet /\ e.generation = newest /\ e.epoch = epoch + 1
        /\ e.chunk = session.chunk /\ e.kind = "state"
    BY <2>1, LateEventIsTyped
  <2>3. CASE deck.pc \in {"store", "adopt"}
    BY <2>1, <2>3 DEF LossesAreTold
  <2>4. CASE deck.pc \notin {"store", "adopt"}
    <3>1. CASE /\ events # <<>> /\ Head(events).kind = "data" /\ events' = Append(Tail(events), e)
               /\ excused' = IF Head(events).generation = session.generation
                             THEN excused \cup {Head(events).chunk} ELSE excused
      <4>1. /\ DOMAIN events' = 1 .. Len(events) /\ Len(events) \in Nat \ {0} /\ Head(events) = events[1]
            /\ \A i \in 1 .. Len(events) - 1 : i + 1 \in DOMAIN events /\ events'[i] = events[i + 1]
            /\ events'[Len(events)] = e /\ DOMAIN events = 1 .. Len(events)
        BY <2>2, <3>1, TurnOfEvents, TailOfEvents, KnownState
      <4>2. ASSUME NEW i \in DOMAIN events'
            PROVE  events'[i] = e \/ \E j \in DOMAIN events : events'[i] = events[j]
        BY <4>1, <4>2
      <4>3. ASSUME NEW j \in DOMAIN events, j # 1
            PROVE  \E i \in DOMAIN events' : events'[i] = events[j]
        <5>1. j - 1 \in 1 .. Len(events) - 1 /\ (j - 1) + 1 = j /\ j - 1 \in DOMAIN events'
          BY <4>1, <4>3
        <5>2. QED
          BY <4>1, <5>1
      <4>4. \A k, p \in Nat : Sign(k, p)' =>
               Sign(k, p) \/ (k = session.chunk /\ p = epoch + 1 /\ terminal.expected = newest)
        BY <1>2, <2>1, <2>2, <2>4, <4>2 DEF Sign
      <4>5. ASSUME NEW c \in Nat, Missing(c)' PROVE Missing(c)
        <5>1. /\ c > terminal.last /\ c \notin excused'
              /\ \A i \in DOMAIN events' :
                    events'[i].generation = terminal.expected /\ events'[i].kind = "data" => events'[i].chunk # c
          BY <2>1, <4>5 DEF Missing
        <5>2. /\ c \notin excused
              /\ events[1].generation = session.generation => c # events[1].chunk
          BY <3>1, <4>1, <5>1
        <5>3. events[1].generation = terminal.expected => events[1].generation = session.generation
          BY <1>2, <2>1, <2>4, <4>1, KnownEvent
        <5>4. ASSUME NEW j \in DOMAIN events, events[j].generation = terminal.expected, events[j].kind = "data"
              PROVE  events[j].chunk # c
          <6>1. CASE j = 1
            BY <5>2, <5>3, <5>4, <6>1
          <6>2. CASE j # 1
            BY <4>3, <5>1, <5>4, <6>2
          <6>3. QED
            BY <6>1, <6>2
        <5>5. QED
          BY <5>1, <5>2, <5>4 DEF Missing
      <4>6. QED
        BY <1>2, <2>1, <2>4, <4>4, <4>5, LossIsTold, KnownState
    <3>2. CASE events # <<>> /\ Head(events).kind # "data" /\ events' = Tail(events) /\ UNCHANGED excused
      <4>1. /\ \A i \in DOMAIN events' : \E j \in DOMAIN events : events'[i] = events[j]
            /\ events[1].kind # "data"
        BY <3>2, TailOfEvents
      <4>2. ASSUME NEW j \in DOMAIN events, j # 1
            PROVE  \E i \in DOMAIN events' : events'[i] = events[j]
        <5>1. Len(events) \in Nat /\ DOMAIN events = 1 .. Len(events) /\ DOMAIN events' = 1 .. Len(events) - 1
          BY <3>2, TailOfEvents, KnownState
        <5>2. j - 1 \in DOMAIN events' /\ (j - 1) + 1 = j
          BY <4>2, <5>1
        <5>3. QED
          BY <3>2, <5>2, TailOfEvents
      <4>3. \A k, p \in Nat : Sign(k, p)' =>
               Sign(k, p) \/ (k = session.chunk /\ p = epoch + 1 /\ terminal.expected = newest)
        BY <1>2, <2>1, <2>4, <4>1 DEF Sign
      <4>4. \A c \in Nat : Missing(c)' => Missing(c)
        BY <2>1, <3>2, <4>1, <4>2 DEF Missing
      <4>5. QED
        BY <1>2, <2>1, <2>4, <4>3, <4>4, LossIsTold, KnownState
    <3>3. CASE events = <<>> /\ events' = <<>> /\ UNCHANGED excused
      <4>1. \A k, p \in Nat : Sign(k, p)' =>
               Sign(k, p) \/ (k = session.chunk /\ p = epoch + 1 /\ terminal.expected = newest)
        BY <1>2, <2>1, <2>4, <3>3 DEF Sign
      <4>2. \A c \in Nat : Missing(c)' => Missing(c)
        BY <2>1, <3>3 DEF Missing
      <4>3. QED
        BY <1>2, <2>1, <2>4, <4>1, <4>2, LossIsTold, KnownState
    <3>4. QED
      BY <1>5, <3>1, <3>2, <3>3, EvictEffect
  <2>5. QED
    BY <2>3, <2>4
<1>6. CASE ReceiveChunk
  <2> DEFINE e == [Event("data") EXCEPT !.chunk = @ + 1]
  <2>1. /\ Alive /\ Alive' /\ session'.chunk = session.chunk + 1 /\ session.chunk < Chunks
        /\ session'.generation = session.generation
        /\ UNCHANGED <<newest, terminal, deck, excused>>
    BY <1>6, ReceiveEffect DEF client
  <2>2. /\ e \in EventSet /\ e.generation = newest /\ e.epoch = epoch
        /\ e.chunk = session.chunk + 1 /\ e.kind = "data"
    BY <2>1, ChunkIsTyped
  <2>3. CASE deck.pc \in {"store", "adopt"}
    BY <2>1, <2>3 DEF LossesAreTold
  <2>4. CASE deck.pc \notin {"store", "adopt"}
    <3>1. CASE epoch' = epoch + 1 /\ events' = events
      <4>1. \A k, p \in Nat : Sign(k, p)' =>
               Sign(k, p) \/ (k = session.chunk + 1 /\ p = epoch + 1 /\ terminal.expected = newest)
        BY <1>2, <2>1, <2>4, <3>1 DEF Sign
      <4>2. \A c \in Nat : Missing(c)' => Missing(c)
        BY <2>1, <3>1 DEF Missing
      <4>3. session.chunk + 1 \in Nat /\ session.chunk <= session.chunk + 1
        BY KnownState
      <4>4. QED
        BY <1>2, <2>1, <2>4, <4>1, <4>2, <4>3, LossIsTold
    <3>2. CASE epoch' = epoch /\ events' = Append(events, e)
      <4>1. /\ DOMAIN events' = 1 .. Len(events) + 1 /\ Len(events) \in Nat /\ DOMAIN events = 1 .. Len(events)
            /\ \A i \in DOMAIN events : events'[i] = events[i]
            /\ events'[Len(events) + 1] = e
        BY <2>2, <3>2, AppendToEvents, KnownState
      <4>2. \A i \in DOMAIN events' : i \in DOMAIN events \/ events'[i] = e
        BY <4>1
      <4>3. \A k, p \in Nat : Sign(k, p)' =>
               Sign(k, p) \/ (k = session.chunk + 1 /\ p = epoch /\ terminal.expected = newest)
        BY <1>2, <2>1, <2>2, <2>4, <3>2, <4>1, <4>2 DEF Sign
      <4>4. \A c \in Nat : Missing(c)' => Missing(c) /\ (terminal.expected = newest => c # session.chunk + 1)
        <5>1. ASSUME NEW c \in Nat, Missing(c)'
              PROVE  /\ c > terminal.last /\ c \notin excused
                     /\ \A i \in DOMAIN events' :
                          events'[i].generation = terminal.expected /\ events'[i].kind = "data" => events'[i].chunk # c
          BY <2>1, <5>1 DEF Missing
        <5>2. ASSUME NEW c \in Nat, Missing(c)' PROVE Missing(c)
          BY <4>1, <5>1, <5>2 DEF Missing
        <5>3. ASSUME NEW c \in Nat, Missing(c)', terminal.expected = newest PROVE c # session.chunk + 1
          <6>1. Len(events) + 1 \in DOMAIN events'
            BY <4>1
          <6>2. e.generation = terminal.expected /\ e.kind = "data" => e.chunk # c
            BY <4>1, <5>1, <5>3, <6>1
          <6>3. QED
            BY <2>2, <5>3, <6>2
        <5>4. QED
          BY <5>2, <5>3
      <4>5. QED
        BY <1>2, <2>1, <2>4, <4>3, <4>4, ChunkIsNoLoss
    <3>3. QED
      BY <1>6, <3>1, <3>2, ReceiveEffect
  <2>5. QED
    BY <2>3, <2>4
<1>7. CASE LeaveSession \/ SshConnect
  <2>1. /\ ~Alive' /\ UNCHANGED <<events, terminal, excused>>
        /\ deck'.pc \notin {"store", "adopt"} => deck.pc \notin {"store", "adopt"}
    <3>1. CASE LeaveSession
      BY <3>1, LeaveEffect DEF LeaveSession, wire
    <3>2. CASE SshConnect
      BY <3>2, NoSessionAtConnect DEF SshConnect, Deck, wire, Alive
    <3>3. QED
      BY <1>7, <3>1, <3>2
  <2>2. CASE deck'.pc \in {"store", "adopt"}
    BY <2>2 DEF LossesAreTold
  <2>3. CASE deck'.pc \notin {"store", "adopt"}
    <3>1. \A k, p \in Nat : Sign(k, p)' => Sign(k, p)
      BY <2>1 DEF Sign
    <3>2. \A c \in Nat : Missing(c)' => Missing(c)
      BY <2>1 DEF Missing
    <3>3. QED
      BY <2>1, <2>3, <3>1, <3>2, NothingIsLost
  <2>4. QED
    BY <2>2, <2>3
<1>8. CASE CreateSession /\ deck'.pc = "store"
  BY <1>8 DEF LossesAreTold
<1>9. CASE Adopt
  <2>1. /\ terminal'.expected = newest /\ terminal'.last = 0
        /\ UNCHANGED <<newest, session, epoch, events>> /\ deck.pc = "adopt"
        /\ excused' = IF Alive THEN excused \cup 1 .. session.chunk ELSE 1 .. Chunks
    BY <1>9, KnownState DEF Adopt, Deck, Runs, client, wire, TerminalSet, Alive
  <2>2. ASSUME NEW c \in Nat, NEW k \in Nat, NEW p \in Nat, Missing(c)', Sign(k, p)' PROVE ~(c <= k)
    <3>1. c > 0 /\ c \notin excused'
      BY <2>1, <2>2 DEF Missing
    <3>2. CASE Alive
      <4>1. k <= session.chunk
        BY <2>1, <2>2, <3>2, KnownState DEF Sign, SshInv, EventsHaveBeen, Alive
      <4>2. c \notin 1 .. session.chunk
        BY <2>1, <3>1, <3>2
      <4>3. QED
        BY <2>2, <3>1, <4>1, <4>2, KnownState
    <3>3. CASE ~Alive
      <4>1. k <= Chunks
        BY <2>1, <2>2, <3>3, KnownEvent DEF Sign, Alive
      <4>2. c \notin 1 .. Chunks
        BY <2>1, <3>1, <3>3
      <4>3. QED
        BY <2>2, <3>1, <4>1, <4>2, KnownState
    <3>4. QED
      BY <3>2, <3>3
  <2>3. QED
    BY <2>2, NothingIsExpected
<1>10. CASE Deinit \/ Emptied
  <2>1. /\ terminal'.expected = 0 /\ UNCHANGED <<newest, session>>
        /\ events' = events \/ events' = <<>>
    <3>1. CASE Deinit
      BY <3>1, KnownState DEF Deinit, wire, TerminalSet
    <3>2. CASE Emptied
      BY <1>1, <3>2 DEF Emptied, TerminalFollows, client
    <3>3. QED
      BY <1>10, <3>1, <3>2
  <2>2. Alive' => session'.generation # 0
    BY <1>1, <2>1, KnownState DEF SessionIsNewest, Alive
  <2>3. ASSUME NEW k \in Nat, NEW p \in Nat, Sign(k, p)' PROVE FALSE
    <3>1. CASE events' = <<>>
      BY <2>1, <2>2, <2>3, <3>1 DEF Sign
    <3>2. CASE events' = events
      BY <2>1, <2>2, <2>3, <3>2, KnownEvent DEF Sign
    <3>3. QED
      BY <2>1, <3>1, <3>2
  <2>4. QED
    BY <2>3, NothingIsExpected
<1>11. QED
  BY <1>3, <1>4, <1>5, <1>6, <1>7, <1>8, <1>9, <1>10, ShowIsNoLoss, StillSteps

-----------------------------------------------------------------------------
LEMMA SshInitially ==
    ASSUME SshInit
    PROVE  SshInv
<1>1. /\ clientState \in States /\ session \in SessionSet /\ terminal \in TerminalSet
      /\ deck \in [pc : DeckPlaces, question : Questions]
  BY SshLimits DEF SshInit, States, AtEnd, Nobody, SessionSet, SessionPlaces, TerminalSet, DeckPlaces, Questions
<1>2. ~Alive /\ session.generation = 0 /\ session.heard = 0 /\ session.pc = "gone"
      /\ deck.pc = "idle" /\ terminal.expected = 0 /\ terminal.applied = 0 /\ ~terminal.glued
  BY DEF SshInit, Nobody, Alive
<1>3. events = <<>> /\ DOMAIN events = {} /\ events \in Seq(EventSet) /\ Len(events) = 0
  BY DEF SshInit
<1>4. SshTypes
  <2>5. stopRequested \in BOOLEAN
    BY DEF SshInit
  <2>1. newest \in 0 .. Sessions /\ taskHandle \in 0 .. Sessions /\ epoch \in Nat
    BY SshLimits DEF SshInit
  <2>4. inbox \in [Questions -> SUBSET Generations]
    BY DEF SshInit
  <2>2. Len(events) <= EventCapacity
    BY <1>3, SshLimits
  <2>3. QED
    BY <1>1, <1>3, <2>1, <2>2, <2>4, <2>5 DEF SshTypes
<1>5. SessionIsNewest /\ TypedForTheNewest /\ TerminalFollows
  BY <1>2 DEF SshInit, SessionIsNewest, TypedForTheNewest, TerminalFollows
<1>6. EventsHaveBeen /\ EventsGrow /\ RefusedChunksAreHealed
  BY <1>2, <1>3 DEF EventsHaveBeen, EventsGrow, RefusedChunksAreHealed
<1>7. LossesAreTold
  BY <1>2, <1>3 DEF LossesAreTold, Sign
<1>8. QED
  BY <1>4, <1>5, <1>6, <1>7 DEF SshInv

LEMMA SshStutters ==
    ASSUME SshInv, UNCHANGED sshVars
    PROVE  SshInv'
<1> USE DEF sshVars, client, wire
<1>1. SshTypes' /\ SessionIsNewest' /\ TypedForTheNewest' /\ TerminalFollows'
  BY DEF SshInv, SshTypes, SessionIsNewest, TypedForTheNewest, TerminalFollows, Alive
<1>2. EventsHaveBeen' /\ EventsGrow' /\ RefusedChunksAreHealed'
  BY DEF SshInv, EventsHaveBeen, EventsGrow, RefusedChunksAreHealed, Alive
<1>3. LossesAreTold'
  BY DEF SshInv, LossesAreTold, Told, Missing, Sign, Alive
<1>4. QED
  BY <1>1, <1>2, <1>3 DEF SshInv

THEOREM SshInvHolds == SshSpec => []SshInv
<1>1. SshInv /\ [SshNext]_sshVars => SshInv'
  <2>1. ASSUME SshInv, SshNext PROVE SshInv'
    BY <2>1, SshTypesKept, SessionIsNewestKept, TypedForTheNewestKept, TerminalFollowsKept,
       EventsHaveBeenKept, EventsGrowKept, LossesAreToldKept, HealedKept DEF SshInv
  <2>2. QED
    BY <2>1, SshStutters
<1>2. QED
  BY <1>1, SshInitially, PTL DEF SshSpec

\* The variables of the client keep their type, and its queue of events its length.
THEOREM SshTypeCorrect == SshSpec => []SshTypeOK
<1>1. SshInv => SshTypeOK
  BY DEF SshInv, SshTypes, SshTypeOK, States
<1>2. QED
  BY <1>1, SshInvHolds, PTL

\* A host key, a password and a line are taken only by the session they were typed for.
THEOREM AnswersGoHome == SshSpec => []AnswersAreOwn
<1>1. SshInv => AnswersAreOwn
  BY DEF SshInv, TypedForTheNewest, AnswersAreOwn
<1>2. QED
  BY <1>1, SshInvHolds, PTL

\* The queue is deleted only when no task is left that could write to it.
THEOREM QueueIsDeletedLast == SshSpec => []QueueOutlivesSession
<1>1. SshInv => QueueOutlivesSession
  BY DEF SshInv, SessionIsNewest, QueueOutlivesSession, Alive
<1>2. QED
  BY <1>1, SshInvHolds, PTL

\* Output after a refused chunk meets a terminal that was told of the loss, but for the
\* losses that the code tells by no epoch.
THEOREM LossesAreHealed == SshSpec => []RefusedChunksAreHealed
<1>1. SshInv => RefusedChunksAreHealed
  BY DEF SshInv
<1>2. QED
  BY <1>1, SshInvHolds, PTL
=============================================================================
