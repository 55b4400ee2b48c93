------------------------------ MODULE SshClient ------------------------------
(***************************************************************************)
(* The SSH client (ssh_client.cpp) and the way of its events to the        *)
(* terminal (cyberdeck_ui.cpp): one task per session, which asks the user  *)
(* for a host key, a password and lines through queues, and tells states   *)
(* and chunks of output through a bounded queue of events.  When that      *)
(* queue is full a chunk is refused, a state takes the place of the oldest *)
(* chunk, and an epoch counts what was lost: the terminal drops what its   *)
(* filter has begun when an event of a later epoch comes.                  *)
(*                                                                         *)
(* The user interface is one task; the network worker asks for a stop when *)
(* it tears sessions down.  The library is external: each of its calls     *)
(* returns, with or without success.                                       *)
(***************************************************************************)
EXTENDS Naturals, Sequences

CONSTANTS
    Sessions,       \* bound on s_generation
    EventCapacity,  \* k_ssh_event_queue_capacity
    Chunks          \* bound on the chunks of a session that are told apart

ASSUME SshLimits == {Sessions, EventCapacity, Chunks} \subseteq Nat \ {0}

VARIABLES
    clientState,    \* s_state
    newest,         \* s_generation
    taskHandle,     \* s_task_handle: the session whose task it names, or 0
    stopRequested,  \* s_stop_requested
    inbox,          \* the sessions for which the answers in each queue were typed
    session,        \* the task: where it is, its generation, what it took
    events,         \* s_ssh_event_queue
    epoch,          \* s_ssh_discard_epoch
    terminal,       \* the session expected, the epoch applied, the last chunk
    deck,           \* where the LVGL task is
    excused         \* history: chunks of this session lost in a way that no epoch tells

client == <<clientState, newest, taskHandle, stopRequested>>
wire == <<events, epoch>>
\* What a state of the task that is not yet told leaves alone.
around == <<newest, taskHandle, stopRequested, inbox, wire, terminal, deck, excused>>
sshVars == <<client, inbox, session, wire, terminal, deck, excused>>

Generations == 1 .. Sessions
Questions == {"key", "password", "line"}
Phase == [key |-> "need_key", password |-> "need_password", line |-> "connected"]
AtEnd == {"disconnected", "error"}
Nobody == [pc |-> "gone", then |-> "gone", generation |-> 0, heard |-> 0, chunk |-> 0]

SshInit ==
    /\ clientState = "disconnected" /\ newest = 0
    /\ taskHandle = 0 /\ stopRequested = FALSE
    /\ inbox = [q \in Questions |-> {}]
    /\ session = Nobody
    /\ events = <<>> /\ epoch = 0
    /\ terminal = [expected |-> 0, applied |-> 0, last |-> 0, clean |-> TRUE, glued |-> FALSE]
    /\ deck = [pc |-> "idle", question |-> "line"]
    /\ excused = {}

-----------------------------------------------------------------------------
(* The task.  A state is stored and then told.                             *)

Runs(pc) == session.pc = pc
Go(pc) == session' = [session EXCEPT !.pc = pc, !.then = "gone"]

Announce(s, then) ==
    /\ clientState' = s
    /\ session' = [session EXCEPT !.pc = "tell", !.then = then]

\* The end of a session that failed, and of one that was stopped.
Fail == Announce("error", "leave")
GiveUp == Announce("disconnected", "leave")

Event(kind) ==
    [generation |-> session.generation, epoch |-> epoch, kind |-> kind, chunk |-> session.chunk]

\* on_ssh_state(): the first send.
Tell ==
    /\ Runs("tell")
    /\ IF Len(events) < EventCapacity
       THEN events' = Append(events, Event("state")) /\ Go(session.then)
       ELSE session' = [session EXCEPT !.pc = "evict"] /\ UNCHANGED events
    /\ UNCHANGED <<client, inbox, epoch, terminal, deck, excused>>

\* The queue was full.  The terminal may have emptied it meanwhile.
Evict ==
    /\ Runs("evict")
    /\ epoch' = epoch + 1
    /\ IF events # <<>> /\ Head(events).kind = "data"
       THEN /\ events' = Append(Tail(events), [Event("state") EXCEPT !.epoch = epoch + 1])
            /\ excused' = IF Head(events).generation = session.generation
                          THEN excused \cup {Head(events).chunk} ELSE excused
       ELSE /\ events' = IF events = <<>> THEN <<>> ELSE Tail(events)
            /\ UNCHANGED excused
    /\ Go(session.then)
    /\ UNCHANGED <<client, inbox, terminal, deck>>

BeginSession ==
    /\ Runs("begin")
    /\ Announce("connecting", "dial")
    /\ UNCHANGED around

Dial ==
    /\ Runs("dial")
    /\ \/ Fail
       \/ stopRequested /\ GiveUp
       \/ ~stopRequested /\ Go("verify") /\ UNCHANGED clientState
    /\ UNCHANGED around

\* verify_host_key(): the key is known, or unknown, or was changed; when it
\* cannot be read the task leaves without a word.
VerifyHostKey ==
    /\ Runs("verify")
    /\ \/ Go("authenticate") /\ UNCHANGED clientState
       \/ Announce("need_key", "listenKey")
       \/ Fail
       \/ Go("leave") /\ UNCHANGED clientState
    /\ UNCHANGED around

Took(q, pc) ==
    /\ \E g \in inbox[q] :
          /\ inbox' = [inbox EXCEPT ![q] = @ \ {g}]
          /\ session' = [session EXCEPT !.pc = pc, !.heard = g]
    /\ UNCHANGED <<client, wire, terminal, deck, excused>>

\* The wait in the queue began before a stop.
TakeKey == Runs("listenKey") /\ Took("key", "append")

\* The key is added to known_hosts, or cannot be.
AppendKey ==
    /\ Runs("append")
    /\ \/ Go("authenticate") /\ UNCHANGED clientState
       \/ Fail
    /\ UNCHANGED around

\* Without a password first.
Authenticate ==
    /\ Runs("authenticate")
    /\ \/ Fail
       \/ Go("channel") /\ UNCHANGED clientState
       \/ Announce("need_password", "listenPassword")
    /\ UNCHANGED around

TakePassword == Runs("listenPassword") /\ Took("password", "password")

CheckPassword ==
    /\ Runs("password")
    /\ IF stopRequested THEN GiveUp ELSE Announce("authenticating", "login")
    /\ UNCHANGED around

\* The two loops that wait for an answer end with a stop.
Listening == session.pc \in {"listenKey", "listenPassword"}

StopListening ==
    /\ Listening
    /\ stopRequested
    /\ GiveUp
    /\ UNCHANGED around

Login ==
    /\ Runs("login")
    /\ \/ Fail
       \/ Go("channel") /\ UNCHANGED clientState
    /\ UNCHANGED around

OpenChannel ==
    /\ Runs("channel")
    /\ \/ Fail
       \/ Announce("connected", "loop")
    /\ UNCHANGED around

\* One turn of the session begins, or the stop or the end of the channel is seen.
LoopTurnDeaf ==                                             \* mutant: the turn does not look at the stop
    /\ Runs("loop")
    /\ \/ Announce("disconnecting", "close")
       \/ Go("input") /\ UNCHANGED clientState
    /\ UNCHANGED around

LoopTurn ==
    /\ Runs("loop")
    /\ \/ Announce("disconnecting", "close")
       \/ ~stopRequested /\ Go("input") /\ UNCHANGED clientState
    /\ UNCHANGED around

\* The drains of a turn go on while there is something left and do not look at
\* the stop: first the lines of the user, then what the server sends (stdout and
\* after it stderr, two loops alike with nothing between them).
Draining == session.pc \in {"input", "output"}
AfterDrain == [input |-> "output", output |-> "loop"]

TakeLine == Runs("input") /\ Took("line", "input")

\* on_ssh_data(): the last place of the queue is kept for a state.
Refuses == Len(events) >= EventCapacity - 1

LoseSilently == UNCHANGED epoch                             \* mutant: no mark_ssh_event_discarded()
Lose == epoch' = epoch + 1

ReceiveChunk ==
    /\ Runs("output") /\ session.chunk < Chunks
    /\ session' = [session EXCEPT !.chunk = @ + 1]
    /\ IF Refuses
       THEN Lose /\ UNCHANGED events
       ELSE events' = Append(events, [Event("data") EXCEPT !.chunk = @ + 1]) /\ UNCHANGED epoch
    /\ UNCHANGED <<client, inbox, terminal, deck, excused>>

\* The lines are written, or nothing more comes; a failure ends the session.
EndDrain ==
    /\ Draining
    /\ Runs("input") => inbox["line"] = {}
    /\ \/ Go(AfterDrain[session.pc]) /\ UNCHANGED clientState
       \/ Announce("disconnecting", "close")
    /\ UNCHANGED around

CloseForgettingTheHandle ==                                 \* mutant: the handle is cleared first
    /\ Runs("close")
    /\ GiveUp
    /\ taskHandle' = 0
    /\ UNCHANGED <<newest, stopRequested, inbox, wire, terminal, deck, excused>>

CloseSession ==
    /\ Runs("close")
    /\ GiveUp
    /\ UNCHANGED around

LeaveSession ==
    /\ Runs("leave")
    /\ taskHandle' = 0
    /\ session' = Nobody
    /\ UNCHANGED <<clientState, newest, stopRequested, inbox, wire, terminal, deck, excused>>

SessionStep ==
    \/ Tell \/ Evict \/ BeginSession \/ Dial \/ VerifyHostKey \/ TakeKey \/ AppendKey
    \/ Authenticate \/ TakePassword \/ CheckPassword \/ StopListening \/ Login
    \/ OpenChannel \/ LoopTurn \/ TakeLine \/ ReceiveChunk \/ EndDrain \/ CloseSession \/ LeaveSession

-----------------------------------------------------------------------------
(* ssh_client_connect() in the LVGL task, and what the deck does after it. *)

Deck(pc) == deck.pc = pc
Turn(pc) == deck' = [pc |-> pc, question |-> "line"]

KeptQueues == UNCHANGED inbox                               \* mutant: the queues are not reset
EmptyQueues == inbox' = [q \in Questions |-> {}]

SshConnect ==
    /\ Deck("idle") /\ newest < Sessions
    /\ taskHandle = 0 /\ clientState \in AtEnd
    /\ newest' = newest + 1
    /\ EmptyQueues
    /\ stopRequested' = FALSE
    /\ Turn("create")
    /\ UNCHANGED <<clientState, taskHandle, session, wire, terminal, excused>>

CreateSession ==
    /\ Deck("create")
    /\ \/ /\ session' = [Nobody EXCEPT !.pc = "begin", !.generation = newest]
          /\ Turn("store")
          /\ excused' = {}
       \/ UNCHANGED <<session, excused>> /\ Turn("idle")
    /\ UNCHANGED <<client, inbox, wire, terminal>>

\* The task runs already.
StoreHandle ==
    /\ Deck("store")
    /\ taskHandle' = newest
    /\ Turn("adopt")
    /\ UNCHANGED <<clientState, newest, stopRequested, inbox, session, wire, terminal, excused>>

\* shell_session_host::ssh_connect(): what was lost by now is not healed.
Adopt ==
    /\ Deck("adopt")
    /\ terminal' = [terminal EXCEPT !.expected = newest, !.applied = epoch,
                                    !.last = 0, !.clean = TRUE]
    /\ excused' = IF Runs("gone") THEN 1 .. Chunks ELSE excused \cup 1 .. session.chunk
    /\ Turn("idle")
    /\ UNCHANGED <<client, inbox, session, wire>>

\* The user ends a line, and the phase decides what it answers.
EndLine(q) ==
    /\ Deck("idle") /\ clientState = Phase[q]
    /\ deck' = [pc |-> "answer", question |-> q]
    /\ UNCHANGED <<client, inbox, session, wire, terminal, excused>>

\* The acceptance of a key looks at the state again; the two queues of one
\* place refuse an answer while they hold another.
Accepts(q) ==
    /\ q = "key" => clientState = "need_key"
    /\ q = "line" \/ inbox[q] = {}

Answer ==
    /\ Deck("answer")
    /\ inbox' = IF Accepts(deck.question)
                THEN [inbox EXCEPT ![deck.question] = @ \cup {newest}] ELSE inbox
    /\ Turn("idle")
    /\ UNCHANGED <<client, session, wire, terminal, excused>>

\* process_ssh_events(), one event.
Gap(e) == (terminal.last + 1 .. e.chunk - 1) \ excused
Resyncs(e) == e.epoch > terminal.applied

Show ==
    /\ Deck("idle") /\ events # <<>>
    /\ events' = Tail(events)
    /\ LET e == Head(events)
           clean == terminal.clean \/ Resyncs(e)
       IN  terminal' =
             IF e.generation # terminal.expected THEN terminal
             ELSE [terminal EXCEPT
                     !.applied = IF Resyncs(e) THEN e.epoch ELSE @,
                     !.clean = clean /\ e.kind # "data",
                     !.last = IF e.kind = "data" THEN e.chunk ELSE @,
                     !.glued = @ \/ (e.kind = "data" /\ ~clean /\ Gap(e) # {})]
    /\ UNCHANGED <<client, inbox, session, epoch, deck, excused>>

-----------------------------------------------------------------------------
(* Stops.                                                                  *)

\* TEARDOWN_SSH of the network worker: ssh_client_disconnect().
SshDisconnect ==
    /\ ~stopRequested
    /\ stopRequested' = TRUE
    /\ UNCHANGED <<clientState, newest, taskHandle, inbox, session, wire, terminal, deck, excused>>

\* The application is stopped, or the user interface is taken down.
StopApplication ==
    /\ Deck("idle")
    /\ stopRequested' = TRUE
    /\ Turn("stopping")
    /\ UNCHANGED <<clientState, newest, taskHandle, inbox, session, wire, terminal, excused>>

Deinit ==
    /\ Deck("idle")
    /\ stopRequested' = TRUE
    /\ terminal' = [terminal EXCEPT !.expected = 0, !.last = 0, !.clean = TRUE]
    /\ Turn("closing")
    /\ UNCHANGED <<clientState, newest, taskHandle, inbox, session, wire, excused>>

\* ssh_client_disconnect_and_wait() sees the end, and the queue is deleted.
WaitEnds ==
    /\ taskHandle = 0
    /\ \/ Deck("stopping") /\ Turn("idle") /\ UNCHANGED events
       \/ Deck("closing") /\ Turn("closed") /\ events' = <<>>
    /\ UNCHANGED <<client, inbox, session, epoch, terminal, excused>>

WaitTimesOut ==
    /\ taskHandle # 0
    /\ \/ Deck("stopping") /\ Turn("idle")
       \/ Deck("closing") /\ Turn("kept")
    /\ UNCHANGED <<client, inbox, session, wire, terminal, excused>>

\* cyberdeck_ui_init() after a deinit: a new queue, also where one was kept.
Reinit ==
    /\ deck.pc \in {"closed", "kept"}
    /\ events' = <<>>
    /\ Turn("idle")
    /\ UNCHANGED <<client, inbox, session, epoch, terminal, excused>>

DeckStep ==
    \/ SshConnect \/ CreateSession \/ StoreHandle \/ Adopt
    \/ (\E q \in Questions : EndLine(q)) \/ Answer \/ Show
    \/ StopApplication \/ Deinit \/ WaitEnds \/ WaitTimesOut \/ Reinit

SshNext == SessionStep \/ DeckStep \/ SshDisconnect

SshSpec == SshInit /\ [][SshNext]_sshVars

\* The scheduler runs the task of a session, and the library's calls return.
\* Nothing ends a drain that user or server keep filling: none is asked to end.
SshFairness == WF_sshVars(~Draining /\ SessionStep)

-----------------------------------------------------------------------------
\* The shape of the state.
SshTypeOK ==
    /\ clientState \in AtEnd \cup {"connecting", "need_key", "need_password", "authenticating",
                                   "connected", "disconnecting"}
    /\ newest \in 0 .. Sessions /\ taskHandle \in 0 .. Sessions
    /\ stopRequested \in BOOLEAN
    /\ inbox \in [Questions -> SUBSET Generations]
    /\ Len(events) <= EventCapacity

\* A session goes by what the user typed for it: a host key is accepted, a
\* password is tried and a line is sent only in the session it was meant for,
\* although the queues outlive the sessions (ssh_client.cpp: "Limpa filas
\* remanescentes").
AnswersAreOwn == session.heard \in {0, session.generation}

\* The output after a chunk that was refused does not go through a filter that
\* waits for the rest of that chunk (cyberdeck_ui.cpp: "A queue gap can leave an
\* ANSI sequence half-consumed"), except where the loss shows in no epoch.
RefusedChunksAreHealed == ~terminal.glued

\* No task puts an event into the queue after the user interface deleted it
\* (cyberdeck_ui.cpp: "fila mantida para evitar use-after-delete").
QueueOutlivesSession == deck.pc = "closed" => session.pc = "gone"

\* A session that is asked to stop ends, whatever it waits for, if its drains
\* end: the loops that read stdout and stderr go on while there is data and do
\* not look at s_stop_requested (ssh_client.cpp:366-376, 383-393), so that a
\* server that never pauses keeps the session for as long as it sends.
StopIsHeard == []<>(~Draining) => ((stopRequested /\ session.pc # "gone") ~> session.pc = "gone")

\* ssh_client.h: "Solicita o encerramento e aguarda bounded o retorno da task
\* SSH": who waits in vain waited for a task.
WaitsForATask == [][WaitTimesOut => session.pc # "gone"]_sshVars

\* cyberdeck_ui.cpp: "State transitions have priority over old data": no state
\* is lost while the queue holds a chunk.
StatesOutrankData ==
    [][Evict => \/ Len(events') >= Len(events)
                \/ \A i \in DOMAIN events : events[i].kind = "state"]_sshVars

\* ssh_client.h of ssh_client_is_active(): "true se conectando ou conectado".
ActiveHasTask == clientState \in AtEnd \/ session.pc # "gone"
=============================================================================
