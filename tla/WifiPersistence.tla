-------------------------- MODULE WifiPersistence --------------------------
(***************************************************************************)
(* How a network that obtained an address comes to be saved on the card    *)
(* (apps/wifi): the driver's GOT_IP leaves a snapshot in the event         *)
(* dispatcher, the persistence coordinator hands it to the bounded         *)
(* persistence queue and to the storage, retrying when the card fails, and *)
(* the manager's connection token decides which snapshots still count.     *)
(* Everything the event mutex covers is one step; the commands of the UI   *)
(* task that touch the card first and the queues later are two.            *)
(***************************************************************************)
EXTENDS Naturals, Sequences

CONSTANTS
    Networks,  \* SSIDs
    NoNet,     \* no network
    Capacity,  \* queue_capacity of the dispatcher, capacity of the queue
    MaxToken   \* model bound on the connection token

ASSUME NetworkAssumption == NoNet \notin Networks
ASSUME BoundAssumption == Capacity \in Nat \ {0} /\ MaxToken \in Nat

VARIABLES
    disp,     \* event_dispatch
    queue,    \* persistence_queue
    owner,    \* the coordinator's has_producer and retry
    mgr,      \* the manager: token, configured network, radio and connection
    air,      \* the driver: the network it was told to join and the one it is in
    worker,   \* where wifi_event_worker is: "gate", "pump" or "wait"
    user,     \* the network being forgotten, or NoNet
    saved,    \* networks in wifi.cfg
    granted,  \* history: networks that were saved at the start or obtained an address
    gone      \* history: networks forgotten and not asked for since

credVars == <<disp, queue, owner, mgr, air, worker, user, saved, granted, gone>>

Tokens == 0 .. MaxToken
MaybeNetworks == Networks \cup {NoNet}
Snapshots == [token : Tokens, ssid : MaybeNetworks]

CredTypeOK ==
    /\ disp \in [active : Tokens, open : BOOLEAN, floor : Tokens, booted : BOOLEAN,
                 items : Seq(Snapshots), lent : BOOLEAN]
    /\ Len(disp.items) <= Capacity
    /\ queue \in [items : Seq(Snapshots), flight : Seq(Snapshots), ready : BOOLEAN]
    /\ Len(queue.items) <= Capacity /\ Len(queue.flight) <= 1
    /\ owner \in [producer : BOOLEAN, retry : BOOLEAN]
    /\ mgr \in [token : Tokens, cfg : MaybeNetworks, enabled : BOOLEAN, ssid : MaybeNetworks, ip : BOOLEAN]
    /\ air \in [want : MaybeNetworks, link : MaybeNetworks]
    /\ worker \in {"gate", "pump", "wait"}
    /\ user \in MaybeNetworks
    /\ saved \subseteq Networks /\ granted \subseteq Networks /\ gone \subseteq Networks

-----------------------------------------------------------------------------
(* event_dispatch *)

EmptyDispatch == [active |-> 0, open |-> FALSE, floor |-> 0, booted |-> FALSE, items |-> <<>>, lent |-> FALSE]

\* Token 0 may open the first connection after a wipe.
Bootstraps(d, token) == ~d.booted /\ ~d.open /\ token = 0 /\ d.floor = 0

Open(d, token) == [d EXCEPT !.active = token, !.open = TRUE, !.booted = TRUE]

OnConnected(d, token) ==
    IF (token > d.active /\ token > d.floor) \/ Bootstraps(d, token) THEN Open(d, token) ELSE d

Queued(items, ssid) == \E i \in DOMAIN items : items[i].ssid = ssid

Push(d, token, ssid) ==
    IF Queued(d.items, ssid) \/ Len(d.items) = Capacity THEN d
    ELSE [d EXCEPT !.items = Append(@, [token |-> token, ssid |-> ssid])]

OnGotIp(d, token, ssid) ==
    IF (~d.open /\ token > d.floor) \/ Bootstraps(d, token) THEN Push(Open(d, token), token, ssid)
    ELSE IF d.open /\ token = d.active THEN Push(d, token, ssid) ELSE d

\* drain_one() lends the head; acknowledge() gives it up.
CanDrain(d) == d.items # <<>> /\ ~d.lent
HandedOver(d) == [d EXCEPT !.items = Tail(@), !.lent = FALSE]

Invalidated(token) == [EmptyDispatch EXCEPT !.floor = token, !.booted = TRUE]

-----------------------------------------------------------------------------
(* persistence_queue *)

EmptyQueue == [items |-> <<>>, flight |-> <<>>, ready |-> FALSE]

Accepts(q, ssid) == ~Queued(q.flight \o q.items, ssid) /\ Len(q.items) < Capacity

Enqueue(q, s) == [q EXCEPT !.items = Append(@, s)]

\* take(): the snapshot in flight, once its retry is due, before the next one.
CanTake(q) == IF q.flight # <<>> THEN q.ready ELSE q.items # <<>>

Taken(q) ==
    IF q.flight # <<>> THEN [q EXCEPT !.ready = FALSE]
    ELSE [q EXCEPT !.items = Tail(@), !.flight = <<Head(q.items)>>]

\* Slip: a failed snapshot stays in flight but is not offered again.
RetriedNever(q) == q

Retried(q) == [q EXCEPT !.ready = TRUE]
Saved(q) == [q EXCEPT !.flight = <<>>, !.ready = FALSE]

-----------------------------------------------------------------------------
(* persistence_coordinator *)

\* disconnect(): rollback of both queues, then the token is the floor.
Disconnect(token) ==
    /\ disp' = Invalidated(token)
    /\ queue' = EmptyQueue
    /\ owner' = [producer |-> FALSE, retry |-> FALSE]

\* pump_producer(): a refused snapshot stays with the coordinator.
Pumps == ~owner.producer /\ CanDrain(disp)
Hands == Pumps /\ Accepts(queue, Head(disp.items).ssid)
Fed == IF Hands THEN Enqueue(queue, Head(disp.items)) ELSE queue

\* pump_persistence(): one attempt to save, which the card may fail.  The
\* storage refuses a network without a name.
Tries == ~owner.retry /\ CanTake(Fed)
Saves(works) == Tries /\ works /\ Head(Taken(Fed).flight).ssid # NoNet

Pump(works) ==
    /\ disp' = IF Hands THEN HandedOver(disp) ELSE [disp EXCEPT !.lent = @ \/ Pumps]
    /\ queue' = IF Saves(works) THEN Saved(Taken(Fed)) ELSE IF Tries THEN Retried(Taken(Fed)) ELSE Fed
    /\ saved' = IF Saves(works) THEN saved \cup {Head(Taken(Fed).flight).ssid} ELSE saved
    /\ owner' = [producer |-> (owner.producer \/ Pumps) /\ ~Hands,
                  retry |-> owner.retry \/ (Tries /\ ~Saves(works))]

-----------------------------------------------------------------------------
(* wifi_event_worker *)

Online == mgr.enabled /\ mgr.ssid # NoNet /\ mgr.ip

\* Without a connection a pending retry is rolled back.
WorkerGate ==
    /\ worker = "gate"
    /\ worker' = IF Online THEN "pump" ELSE "wait"
    /\ IF ~Online /\ owner.retry
       THEN disp' = EmptyDispatch /\ queue' = EmptyQueue /\ owner' = [producer |-> FALSE, retry |-> FALSE]
       ELSE UNCHANGED <<disp, queue, owner>>
    /\ UNCHANGED <<mgr, air, user, saved, granted, gone>>

WorkerPump(works) ==
    /\ worker = "pump"
    /\ worker' = "wait"
    /\ Pump(works)
    /\ UNCHANGED <<mgr, air, user, granted, gone>>

\* on_retry_timer() after the backoff.
WorkerWait ==
    /\ worker = "wait"
    /\ worker' = "gate"
    /\ owner' = [owner EXCEPT !.retry = FALSE]
    /\ UNCHANGED <<disp, queue, mgr, air, user, saved, granted, gone>>

-----------------------------------------------------------------------------
(* The driver and its events; the handlers run in the event task *)

StaConnected ==
    /\ air.want # NoNet /\ air.link = NoNet
    /\ air' = [want |-> NoNet, link |-> air.want]
    /\ mgr' = [mgr EXCEPT !.ssid = air.want, !.ip = FALSE]
    /\ disp' = OnConnected(disp, mgr.token)
    /\ UNCHANGED <<queue, owner, worker, user, saved, granted, gone>>

\* The handler takes the token and the network that are configured now.
GotIp ==
    /\ air.link # NoNet
    /\ mgr' = [mgr EXCEPT !.ip = TRUE]
    /\ disp' = OnGotIp(disp, mgr.token, mgr.cfg)
    /\ granted' = granted \cup {air.link}
    /\ UNCHANGED <<queue, owner, air, worker, user, saved, gone>>

LostIp ==
    /\ air.link # NoNet /\ mgr.ip /\ mgr.token < MaxToken
    /\ mgr' = [mgr EXCEPT !.ip = FALSE, !.token = @ + 1]
    /\ Disconnect(mgr.token)
    /\ UNCHANGED <<air, worker, user, saved, granted, gone>>

StaDisconnected ==
    /\ air.link # NoNet
    /\ air' = [air EXCEPT !.link = NoNet]
    /\ mgr' = [mgr EXCEPT !.ssid = NoNet, !.ip = FALSE]
    /\ UNCHANGED <<disp, queue, owner, worker, user, saved, granted, gone>>

-----------------------------------------------------------------------------
(* The manager's commands *)

Connect(ssid) ==
    /\ user = NoNet /\ mgr.enabled /\ mgr.token < MaxToken
    /\ mgr' = [mgr EXCEPT !.cfg = ssid, !.token = @ + 1]
    /\ air' = [air EXCEPT !.want = ssid]
    /\ gone' = gone \ {ssid}
    /\ UNCHANGED <<disp, queue, owner, worker, user, saved, granted>>

\* RUN_RETRY on the net worker.
Retry ==
    /\ mgr.enabled /\ mgr.cfg # NoNet
    /\ air' = [air EXCEPT !.want = mgr.cfg]
    /\ UNCHANGED <<disp, queue, owner, mgr, worker, user, saved, granted, gone>>

\* Slip: the queues keep what belongs to the connection.
WipeForgetful(m, steps) ==
    /\ mgr' = [m EXCEPT !.cfg = NoNet, !.token = @ + steps]
    /\ disp' = Invalidated(mgr.token + steps)
    /\ owner' = [producer |-> FALSE, retry |-> FALSE]
    /\ UNCHANGED queue

\* wipe_sensitive_state(false), called that many times in a row.
Wipe(m, steps) ==
    /\ mgr.token + steps <= MaxToken
    /\ mgr' = [m EXCEPT !.cfg = NoNet, !.token = @ + steps]
    /\ Disconnect(mgr.token + steps)

\* wifi_mgr_disconnect_impl() and wifi_mgr_cancel_connection_impl().
RunDisconnect ==
    /\ {mgr.cfg, air.want, air.link} # {NoNet}
    /\ Wipe([mgr EXCEPT !.ssid = NoNet, !.ip = FALSE], 1)
    /\ air' = [air EXCEPT !.want = NoNet]
    /\ UNCHANGED <<worker, user, saved, granted, gone>>

\* wifi_mgr_forget(): the card first, the queues if the network is in use.
ForgetRemove(ssid) ==
    /\ user = NoNet /\ ssid \in saved
    /\ saved' = saved \ {ssid}
    /\ user' = ssid
    /\ UNCHANGED <<disp, queue, owner, mgr, air, worker, granted, gone>>

ForgetDrop ==
    /\ user # NoNet
    /\ IF user \in {mgr.cfg, mgr.ssid} THEN Wipe(mgr, 1) ELSE UNCHANGED <<mgr, disp, queue, owner>>
    /\ user' = NoNet
    /\ gone' = gone \cup {user}
    /\ UNCHANGED <<air, worker, saved, granted>>

Disable ==
    /\ user = NoNet /\ mgr.enabled
    /\ Wipe([mgr EXCEPT !.enabled = FALSE, !.ssid = NoNet, !.ip = FALSE], 2)
    /\ UNCHANGED <<air, worker, user, saved, granted, gone>>

\* The saved file is read again, without a new token; the card may have failed.
Enable ==
    /\ user = NoNet /\ ~mgr.enabled
    /\ \/ /\ Wipe([mgr EXCEPT !.enabled = TRUE], 1)
          /\ UNCHANGED air
       \/ \E ssid \in saved :
             /\ mgr' = [mgr EXCEPT !.enabled = TRUE, !.cfg = ssid]
             /\ air' = [air EXCEPT !.want = ssid]
             /\ UNCHANGED <<disp, queue, owner>>
    /\ UNCHANGED <<worker, user, saved, granted, gone>>

-----------------------------------------------------------------------------
\* A manager that has started with the networks of the card.
CredInit ==
    /\ disp = EmptyDispatch /\ queue = EmptyQueue
    /\ owner = [producer |-> FALSE, retry |-> FALSE]
    /\ saved \in SUBSET Networks
    /\ \/ /\ saved = {}
          /\ mgr = [token |-> 0, cfg |-> NoNet, enabled |-> TRUE, ssid |-> NoNet, ip |-> FALSE]
       \/ \E ssid \in saved :
             mgr = [token |-> 0, cfg |-> ssid, enabled |-> TRUE, ssid |-> NoNet, ip |-> FALSE]
    /\ air = [want |-> NoNet, link |-> NoNet]
    /\ worker = "gate" /\ user = NoNet
    /\ granted = saved /\ gone = {}

CredNext ==
    \/ WorkerGate \/ (\E works \in BOOLEAN : WorkerPump(works)) \/ WorkerWait
    \/ StaConnected \/ GotIp \/ LostIp \/ StaDisconnected
    \/ (\E ssid \in Networks : Connect(ssid) \/ ForgetRemove(ssid))
    \/ Retry \/ RunDisconnect \/ ForgetDrop \/ Disable \/ Enable

CredSpec == CredInit /\ [][CredNext]_credVars

\* The worker runs, and a card that is tried again and again works at last.
CredFairness ==
    /\ WF_credVars(WorkerGate \/ (\E works \in BOOLEAN : WorkerPump(works)) \/ WorkerWait)
    /\ SF_credVars(WorkerPump(TRUE))

FairCredSpec == CredSpec /\ CredFairness

-----------------------------------------------------------------------------
(* Properties *)

(* After a disconnect, a lost address or a wipe nothing of the invalidated  *)
(* connections is left anywhere in the pipeline, nor can enter it.          *)
NothingInvalidated ==
    LET Current(s) == s.token > disp.floor \/ (s.token = 0 /\ disp.floor = 0)
    IN /\ \A i \in DOMAIN disp.items : Current(disp.items[i])
       /\ \A i \in DOMAIN queue.items : Current(queue.items[i])
       /\ \A i \in DOMAIN queue.flight : Current(queue.flight[i])

(* A snapshot whose saving failed is tried again until it is saved, unless  *)
(* the connection goes.                                                     *)
RetriedUntilSaved ==
    queue.flight # <<>> /\ ~Queued(queue.flight, NoNet) ~> queue.flight = <<>> \/ ~Online

(* WIFI.md:6-8: a configuration is persisted only after the station reports *)
(* both association and an address.                                         *)
SavedWasConnected == saved \subseteq granted

(* wifi_mgr.h:69: forgetting removes the network from the card.             *)
ForgottenStaysForgotten == user = NoNet => gone \cap saved = {}

(* persistence_coordinator.cpp:49: a refused snapshot is retained until the *)
(* bounded queue has space, so it goes on when the queue has.               *)
RefusedGoesOn == owner.producer ~> ~owner.producer \/ ~Online
=============================================================================
