-------------------------------- MODULE Music --------------------------------
(***************************************************************************)
(* The music application (cyberdeck_music_app.cpp), its player             *)
(* (cyberdeck_music_player.cpp) and the audio output, which only the       *)
(* player's worker uses.  A request carries the generation of playback for *)
(* which it was made; the worker goes on while that is the current one,    *)
(* and repeats a track by queueing the request again.  Stopping the player *)
(* waits for the worker a bounded time with the lifecycle mutex held.      *)
(*                                                                         *)
(* The deck (the LVGL task) gives the commands; the shutdown quiesces the  *)
(* application from its own task.  By then the keyboard is frozen and the  *)
(* gate of the card is closed; what can be touched is still obeyed.        *)
(***************************************************************************)
EXTENDS Naturals, Sequences

CONSTANTS
    QueueDepth,     \* k_queue_depth
    MaxPlayback     \* bound on playback_generation

ASSUME MusicLimits == QueueDepth \in Nat \ {0} /\ MaxPlayback \in Nat \ {0}

VARIABLES
    player,     \* initialized, shutting_down, playback_generation, paused, repeat
    requests,   \* queue
    worker,     \* the worker: where it is, its request, how its track ended
    shown,      \* state.state
    sound,      \* opened, of the audio output
    reading,    \* who holds a lease of the card
    signals,    \* the semaphores that are given: finished, scan_done_
    scan,       \* the scan: where it is, scan_join_pending_, scan_cancel_, ...
    caller,     \* where the deck and the shutdown are
    mutex,      \* who holds lifecycle_mutex
    running,    \* running_ of the application
    fenced,     \* the shutdown closed the gate of the card
    silenced    \* history: a halt or a stop came after the last play

playing == <<requests, worker, shown, sound, reading>>
application == <<scan, running, fenced>>
musicVars == <<player, playing, signals, application, caller, mutex, silenced>>

Callers == {"deck", "power"}

MusicInit ==
    /\ player = [up |-> FALSE, shutting |-> FALSE, generation |-> 0, paused |-> FALSE,
                 repeat |-> FALSE]
    /\ requests = <<>> /\ shown = "stopped" /\ sound = FALSE /\ reading = {} /\ signals = {}
    /\ worker = [pc |-> "gone", generation |-> 0, eof |-> FALSE, held |-> FALSE]
    /\ scan = [pc |-> "none", pending |-> FALSE, cancel |-> FALSE, quiescing |-> FALSE,
               there |-> FALSE]
    /\ caller = [c \in Callers |-> [pc |-> "idle", for |-> "stop"]]
    /\ mutex = "free" /\ running = FALSE /\ fenced = FALSE /\ silenced = FALSE

-----------------------------------------------------------------------------
(* The worker, impl::run(). *)

WorkerAt(pc) == worker.pc = pc
To(pc) == worker' = [worker EXCEPT !.pc = pc]

\* publish_if_current(), and the same test in publish_error() and is_current().
CurrentByShutdown == ~player.shutting                      \* mutant: the generation is not compared
IsCurrent == ~player.shutting /\ worker.generation = player.generation
Publish(s) == shown' = IF IsCurrent THEN s ELSE shown

\* The end of a turn of the loop: the file is closed and the lease returned.
NextRequest ==
    /\ worker' = [worker EXCEPT !.pc = "receive", !.eof = FALSE, !.held = FALSE]
    /\ reading' = reading \ {"player"}

Receive ==
    /\ WorkerAt("receive") /\ requests # <<>>
    /\ requests' = Tail(requests)
    /\ LET r == Head(requests)
       IN  worker' = [worker EXCEPT !.generation = r.generation,
                                    !.pc = IF player.shutting THEN "leave" ELSE r.kind]
    /\ UNCHANGED <<player, shown, sound, reading, signals>>

RunStop ==
    /\ WorkerAt("stop")
    /\ Publish("stopped") /\ NextRequest
    /\ UNCHANGED <<player, requests, sound, signals>>

RunPlay ==
    /\ WorkerAt("play")
    /\ IF worker.generation = player.generation THEN To("open") ELSE To("receive")
    /\ UNCHANGED <<player, requests, shown, sound, reading, signals>>

OpenTrack ==
    /\ WorkerAt("open")
    /\ \/ To("error") /\ UNCHANGED reading
       \/ ~fenced /\ To("opened") /\ reading' = reading \cup {"player"}
    /\ UNCHANGED <<player, requests, shown, sound, signals>>

PrepareTrack ==
    /\ WorkerAt("opened")
    /\ \/ ~IsCurrent /\ NextRequest
       \/ IsCurrent /\ To("announce") /\ UNCHANGED reading
       \/ IsCurrent /\ To("error") /\ UNCHANGED reading
    /\ UNCHANGED <<player, requests, shown, sound, signals>>

AnnounceTrack ==
    /\ WorkerAt("announce")
    /\ Publish("playing")
    /\ IF IsCurrent THEN To("loop") /\ UNCHANGED reading ELSE NextRequest
    /\ UNCHANGED <<player, requests, sound, signals>>

\* The head of the loop over frames; a pause silences the output at once.
StayPaused == player.paused \/ IsCurrent                   \* mutant: who is paused does not look
GoesOn == IsCurrent

TurnLoop ==
    /\ WorkerAt("loop")
    /\ \/ ~GoesOn /\ To("close") /\ UNCHANGED sound
       \/ GoesOn /\ player.paused /\ sound' = FALSE
             /\ worker' = [worker EXCEPT !.pc = "pausing", !.held = TRUE]
       \/ GoesOn /\ ~player.paused /\ UNCHANGED sound
             /\ worker' = [worker EXCEPT !.pc = IF worker.held THEN "resuming" ELSE "frame",
                                         !.held = FALSE]
    /\ UNCHANGED <<player, requests, shown, reading, signals>>

ShowPause ==
    /\ \/ WorkerAt("pausing") /\ Publish("paused") /\ To("loop")
       \/ WorkerAt("resuming") /\ Publish("playing") /\ To("frame")
    /\ UNCHANGED <<player, requests, sound, reading, signals>>

\* One frame is read, decoded and written; the audio output is opened for it.
PlayFrame ==
    /\ WorkerAt("frame")
    /\ \/ To("loop") /\ UNCHANGED sound
       \/ worker' = [worker EXCEPT !.pc = "close", !.eof = TRUE] /\ UNCHANGED sound
       \/ sound' \in {TRUE, FALSE, sound} /\ To("failing")
       \/ sound' = TRUE /\ To("written")
    /\ UNCHANGED <<player, requests, shown, reading, signals>>

ShowFrame ==
    /\ WorkerAt("written")
    /\ Publish("playing") /\ To("loop")
    /\ UNCHANGED <<player, requests, sound, reading, signals>>

\* The file may fail to close.
CloseTrack ==
    /\ worker.pc \in {"close", "failing"}
    /\ sound' = FALSE
    /\ To("error") \/ (WorkerAt("close") /\ To("ended"))
    /\ UNCHANGED <<player, requests, shown, reading, signals>>

ShowError ==
    /\ WorkerAt("error")
    /\ Publish("error") /\ NextRequest
    /\ UNCHANGED <<player, requests, sound, signals>>

ShowEnd ==
    /\ WorkerAt("ended")
    /\ Publish("stopped") /\ To("next")
    /\ UNCHANGED <<player, requests, sound, reading, signals>>

\* A track that is repeated: decided under the state mutex, sent after it.  There is
\* nothing to repeat when a scan has emptied the list of tracks.
ChooseNext ==
    /\ WorkerAt("next")
    /\ \/ /\ worker.generation = player.generation /\ worker.eof /\ player.repeat
          /\ To("again") /\ UNCHANGED reading
       \/ NextRequest
    /\ UNCHANGED <<player, requests, shown, sound, signals>>

PlayAgain ==
    /\ WorkerAt("again")
    /\ requests' = IF Len(requests) < QueueDepth
                   THEN Append(requests, [kind |-> "play", generation |-> worker.generation])
                   ELSE requests
    /\ NextRequest
    /\ UNCHANGED <<player, shown, sound, signals>>

LeavePlayer ==
    /\ WorkerAt("leave")
    /\ sound' = FALSE /\ To("exited")
    /\ signals' = signals \cup {"finished"}
    /\ UNCHANGED <<player, requests, shown, reading>>

WorkerStep ==
    /\ \/ Receive \/ RunStop \/ RunPlay \/ OpenTrack \/ PrepareTrack \/ AnnounceTrack
       \/ TurnLoop \/ ShowPause \/ PlayFrame \/ ShowFrame \/ CloseTrack \/ ShowError
       \/ ShowEnd \/ ChooseNext \/ PlayAgain \/ LeavePlayer
    /\ UNCHANGED <<application, caller, mutex, silenced>>

-----------------------------------------------------------------------------
(* The scan of a directory, scan_entry(). *)

ScanTo(pc) == scan' = [scan EXCEPT !.pc = pc]

ScanOpens ==
    /\ scan.pc = "begin"
    /\ \/ ~fenced /\ ~scan.cancel /\ ScanTo("walk") /\ reading' = reading \cup {"scan"}
       \/ ScanTo("end") /\ UNCHANGED reading
    /\ UNCHANGED signals

\* What was found is published, which asks the player whether it runs.
ScanWalks ==
    /\ scan.pc = "walk"
    /\ \/ ScanTo("end")
       \/ ~scan.cancel /\ mutex = "free" /\ ScanTo("end")
    /\ UNCHANGED <<reading, signals>>

ScanEnds ==
    /\ scan.pc = "end"
    /\ reading' = reading \ {"scan"} /\ ScanTo("give")
    /\ UNCHANGED signals

ScanGives ==
    /\ scan.pc = "give"
    /\ signals' = signals \cup {"scanned"} /\ ScanTo("none")
    /\ UNCHANGED reading

ScanStep ==
    /\ ScanOpens \/ ScanWalks \/ ScanEnds \/ ScanGives
    /\ UNCHANGED <<player, requests, worker, shown, sound, running, fenced, caller, mutex, silenced>>

-----------------------------------------------------------------------------
(* The deck and the shutdown.  Both stop the player, the shutdown after it   *)
(* closed the gate of the card and the freeze waited for the deck.           *)

Pc(c) == caller[c].pc
GoesTo(c, pc) == caller' = [caller EXCEPT ![c].pc = pc]
Begins(what) == caller' = [caller EXCEPT !["deck"] = [pc |-> "enter", for |-> what]]

Frozen == Pc("power") \notin {"idle", "fenced"}

\* The deck can begin a call that counts; the last generation is the shutdown's.
Counts == Pc("deck") = "idle" /\ player.generation + 1 < MaxPlayback

\* What ends a call that waited in vain: the mutex is given back and nothing else.
GivesUp(c) ==
    /\ mutex' = IF mutex = c THEN "free" ELSE mutex
    /\ GoesTo(c, IF c = "power" THEN "failed" ELSE "idle")

PowerFences ==
    /\ Pc("power") = "idle"
    /\ fenced' = TRUE /\ GoesTo("power", "fenced")
    /\ UNCHANGED <<player, playing, signals, scan, running, mutex, silenced>>

PowerFreezes ==
    /\ Pc("power") = "fenced" /\ Pc("deck") = "idle"
    /\ GoesTo("power", "frozen")
    /\ UNCHANGED <<player, playing, signals, application, mutex, silenced>>

\* The beginning of application::stop() and of poweroff_quiesce().
CancelScan(c) ==
    /\ \/ c = "deck" /\ Counts /\ running /\ ~Frozen
       \/ c = "power" /\ Pc(c) = "frozen"
    /\ scan' = [scan EXCEPT !.quiescing = TRUE, !.cancel = TRUE]
    /\ caller' = [caller EXCEPT ![c] = [pc |-> IF scan.pending THEN "join" ELSE "enter", for |-> "stop"]]
    /\ UNCHANGED <<player, playing, signals, running, fenced, mutex, silenced>>

\* The shutdown may have no time left for the player.
JoinScan(c) ==
    /\ Pc(c) = "join" /\ "scanned" \in signals
    /\ signals' = signals \ {"scanned"} /\ scan' = [scan EXCEPT !.pending = FALSE]
    /\ GoesTo(c, "enter") \/ (c = "power" /\ GoesTo(c, "failed"))
    /\ UNCHANGED <<player, playing, running, fenced, mutex, silenced>>

JoinTimesOut(c) ==
    /\ Pc(c) = "join" /\ GivesUp(c)
    /\ UNCHANGED <<player, playing, signals, application, silenced>>

Halt ==
    /\ Counts /\ running /\ ~Frozen
    /\ Begins("halt")
    /\ UNCHANGED <<player, playing, signals, application, mutex, silenced>>

\* player::stop() and player::halt(), which hold the lifecycle mutex to their ends.
EnterPlayer(c) ==
    /\ Pc(c) = "enter" /\ mutex = "free"
    /\ LET halting == caller[c].for = "halt"
       IN  IF player.up /\ ~(halting /\ player.shutting)
           THEN /\ mutex' = c /\ GoesTo(c, "bump")
                /\ player' = [player EXCEPT !.shutting = @ \/ ~halting]
           ELSE /\ GoesTo(c, IF halting THEN "idle" ELSE "stopped")
                /\ UNCHANGED <<mutex, player>>
    /\ UNCHANGED <<playing, signals, application, silenced>>

BumpGeneration(c) ==
    /\ Pc(c) = "bump"
    /\ player' = [player EXCEPT !.generation = @ + 1] /\ silenced' = TRUE
    /\ GoesTo(c, "discard")
    /\ UNCHANGED <<playing, signals, application, mutex>>

Discard(c) ==
    /\ Pc(c) = "discard"
    /\ requests' = <<>> /\ GoesTo(c, "send")
    /\ UNCHANGED <<player, worker, shown, sound, reading, signals, application, mutex, silenced>>

SendStop(c) ==
    /\ Pc(c) = "send"
    /\ LET room == Len(requests) < QueueDepth
       IN  /\ requests' = IF room
                          THEN Append(requests, [kind |-> "stop", generation |-> player.generation])
                          ELSE requests
           /\ IF room /\ caller[c].for # "halt" THEN GoesTo(c, "wait") /\ UNCHANGED mutex ELSE GivesUp(c)
    /\ UNCHANGED <<player, worker, shown, sound, reading, signals, application, silenced>>

\* The worker said that it has left: it, its queue and its semaphore are deleted.
DeleteWorker(c) ==
    /\ Pc(c) = "wait" /\ "finished" \in signals
    /\ signals' = signals \ {"finished"}
    /\ worker' = [worker EXCEPT !.pc = "gone"] /\ requests' = <<>>
    /\ player' = [player EXCEPT !.up = FALSE]
    /\ mutex' = "free" /\ GoesTo(c, "stopped")
    /\ UNCHANGED <<shown, sound, reading, application, silenced>>

ReleaseAnyway(c) ==                                        \* mutant: a stop that timed out frees what it has
    /\ Pc(c) = "wait"
    /\ player' = [player EXCEPT !.up = FALSE]
    /\ mutex' = "free" /\ GoesTo(c, "stopped")
    /\ UNCHANGED <<playing, signals, application, silenced>>

WaitTimesOut(c) ==
    /\ Pc(c) = "wait" /\ GivesUp(c)
    /\ UNCHANGED <<player, playing, signals, application, silenced>>

\* What follows player_.stop() in each of its callers.
Stopped(c) ==
    /\ Pc(c) = "stopped"
    /\ LET closes == c = "deck" /\ caller[c].for = "stop"
       IN  /\ running' = (running /\ ~closes)
           /\ scan' = [scan EXCEPT !.there = @ /\ ~closes, !.quiescing = @ /\ c = "deck"]
    /\ GoesTo(c, IF c = "power" THEN "quiet" ELSE "idle")
    /\ UNCHANGED <<player, playing, signals, fenced, mutex, silenced>>

\* application::start(); a player whose stop timed out is taken as it is.
StartPlayer ==
    IF player.up THEN UNCHANGED <<player, requests, worker, shown, signals>>
    ELSE /\ player' = [player EXCEPT !.up = TRUE, !.shutting = FALSE, !.repeat = FALSE]
         /\ requests' = <<>> /\ worker' = [worker EXCEPT !.pc = "receive"]
         /\ shown' = "stopped" /\ signals' = {}

Start ==
    /\ Counts /\ ~running /\ mutex = "free"
    /\ StartPlayer
    /\ \/ /\ scan' = [scan EXCEPT !.there = TRUE, !.cancel = FALSE, !.quiescing = FALSE]
          /\ running' = TRUE /\ UNCHANGED caller
       \/ Begins("unstart") /\ UNCHANGED <<scan, running>>
    /\ UNCHANGED <<sound, reading, fenced, mutex, silenced>>

\* player::play(); the pause is lifted after the request is sent.
Play ==
    /\ Counts /\ running /\ mutex = "free" /\ player.up /\ ~player.shutting
    /\ Len(requests) < QueueDepth
    /\ requests' = Append(requests, [kind |-> "play", generation |-> player.generation + 1])
    /\ player' = [player EXCEPT !.generation = @ + 1]
    /\ silenced' = FALSE /\ mutex' = "deck" /\ GoesTo("deck", "unpause")
    /\ UNCHANGED <<worker, shown, sound, reading, signals, application>>

Unpause ==
    /\ Pc("deck") = "unpause"
    /\ player' = [player EXCEPT !.paused = FALSE]
    /\ mutex' = "free" /\ GoesTo("deck", "idle")
    /\ UNCHANGED <<playing, signals, application, silenced>>

PauseOrResume ==
    /\ Pc("deck") = "idle" /\ running /\ mutex = "free" /\ player.up
    /\ player' = [player EXCEPT !.paused = ~@]
    /\ UNCHANGED <<playing, signals, application, caller, mutex, silenced>>

CycleRepeat ==
    /\ Pc("deck") = "idle" /\ running
    /\ player' = [player EXCEPT !.repeat = ~@]
    /\ UNCHANGED <<playing, signals, application, caller, mutex, silenced>>

\* scan_directory() and browser_scan(): they join the scan before, and are then refused
\* after a stop that gave up, or for want of a task.
StartScan ==
    /\ Pc("deck") = "idle" /\ running /\ ~fenced /\ scan.pc = "none"
    /\ scan.pending => "scanned" \in signals
    /\ signals' = signals \ {"scanned"}
    /\ \/ scan' = [scan EXCEPT !.pending = FALSE]
       \/ ~scan.quiescing /\ scan' = [scan EXCEPT !.pc = "begin", !.pending = TRUE, !.cancel = FALSE]
    /\ UNCHANGED <<player, playing, running, fenced, caller, mutex, silenced>>

CommandStep ==
    \/ PowerFences \/ PowerFreezes \/ Halt \/ Start \/ Play \/ Unpause \/ PauseOrResume
    \/ CycleRepeat \/ StartScan
    \/ \E c \in Callers :
           \/ CancelScan(c) \/ JoinScan(c) \/ JoinTimesOut(c) \/ EnterPlayer(c)
           \/ BumpGeneration(c) \/ Discard(c) \/ SendStop(c) \/ DeleteWorker(c) \/ WaitTimesOut(c)
           \/ Stopped(c)

MusicNext == WorkerStep \/ ScanStep \/ CommandStep

\* The worker is a task that runs; nobody has to command, and every wait may expire.
MusicFairness == WF_musicVars(WorkerStep)

MusicSpec == MusicInit /\ [][MusicNext]_musicVars /\ MusicFairness

-----------------------------------------------------------------------------
(* Properties *)

MusicTypeOK ==
    /\ player \in [up : BOOLEAN, shutting : BOOLEAN, generation : 0 .. MaxPlayback,
                   paused : BOOLEAN, repeat : BOOLEAN]
    /\ requests \in Seq([kind : {"play", "stop"}, generation : 0 .. MaxPlayback])
    /\ Len(requests) <= QueueDepth
    /\ shown \in {"stopped", "playing", "paused", "error"} /\ sound \in BOOLEAN
    /\ reading \subseteq {"player", "scan"} /\ signals \subseteq {"finished", "scanned"}
    /\ scan.pc \in {"none", "begin", "walk", "end", "give"}
    /\ mutex \in Callers \cup {"free"} /\ {running, fenced, silenced} \subseteq BOOLEAN

\* Once playback was halted or stopped nothing of an earlier track shows again, not its
\* frames, its pause, its error nor its repetition, until the next play: whatever the
\* worker was about to publish, and whatever it queued after the queue was emptied
\* (player::halt(), publish_if_current()).
SilencedStaysSilent == [][silenced /\ silenced' => shown' \in {shown, "stopped"}]_musicVars

\* And it falls silent for good: the output is closed and the card given back, also when
\* the track was paused or about to be repeated.  The drain of the shutdown waits for that
\* lease (run() of cyberdeck_music_player.cpp).
SilenceComes == <>[]silenced => <>[](~sound /\ "player" \notin reading)

\* What is freed is not used: no worker without its queue, no scan that will give a
\* deleted semaphore, and after the quiesce of the shutdown nobody reads the card, also
\* when an earlier stop gave up and when a screen that can still be touched starts anew
\* (player::stop(), application::stop() and poweroff_quiesce()).
FreedIsUnused ==
    /\ ~player.up => worker.pc = "gone" /\ ~sound /\ "player" \notin reading
    /\ ~scan.there => scan.pc = "none"
    /\ Pc("power") = "quiet" => reading = {}
=============================================================================
