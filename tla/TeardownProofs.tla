--------------------------- MODULE TeardownProofs ---------------------------
(***************************************************************************)
(* Two services that must come to rest when the device is switched off.    *)
(* The coordinator of the network, for every capacity and every reserve of *)
(* at least four places, takes all commands and never loses a teardown.    *)
(* The event log, for any number of tasks, any lengths of its queues and   *)
(* any number of attempts, neither loses nor shares the request of a       *)
(* durable event, and is at rest once it is closed.                        *)
(***************************************************************************)
EXTENDS NetCoordinator, EventLog, FiniteSetTheorems, TLAPS

-----------------------------------------------------------------------------
(* The coordinator of the network *)

USE CapacityAssumption, MaxErrorsAssumption

Ordinary == {"RUN_SCAN", "RUN_RETRY", "SSH_OFFLINE"}
Commands == {"CANCEL_CONNECT", "WIFI_DISCONNECT"}

\* How many of n things are there, for the arithmetic on the queue's length.
One(b) == IF b THEN 1 ELSE 0

\* Ordinary work stays below the reserve; each command and the teardown pair
\* take at most their own places of it.
QueueBound(k) ==
    Len(k.queue) <= (Capacity - CriticalReserve) + One(Pending(k, "CANCEL_CONNECT"))
                      + One(Pending(k, "WIFI_DISCONNECT")) + 2 * One(TearingDown(k))

TeardownQueued(k) ==
    IF TearingDown(k)
    THEN /\ k.queue # <<>> /\ k.queue[Len(k.queue)] = "TEARDOWN_WIFI"
         /\ \A i \in DOMAIN k.queue : k.queue[i] = "TEARDOWN_SSH" => i = Len(k.queue) - 1
         /\ \A i \in DOMAIN k.queue : k.queue[i] = "TEARDOWN_WIFI" => i = Len(k.queue)
    ELSE ~Pending(k, "TEARDOWN_SSH") /\ ~Pending(k, "TEARDOWN_WIFI")

OneNotice(k) ==
    \A i, j \in DOMAIN k.queue : k.queue[i] = "SSH_OFFLINE" /\ k.queue[j] = "SSH_OFFLINE" => i = j

Good(k) ==
    /\ k \in Coordinators
    /\ k.active <=> k.phase # "TEARDOWN_DONE"
    /\ QueueBound(k)
    /\ TeardownQueued(k)
    /\ OneNotice(k)

CoordInv ==
    /\ Good(coord)
    /\ errors \in 0 .. MaxErrors
    /\ notices \in Nat
    /\ notices + One(Pending(coord, "SSH_OFFLINE")) <= errors

-----------------------------------------------------------------------------
(* The queue *)

In(s, x) == \E i \in DOMAIN s : s[i] = x

\* The items of a sequence after an append.
LEMMA AppendSplit ==
    ASSUME NEW S, NEW q \in Seq(S), NEW work \in S, NEW x
    PROVE  In(Append(q, work), x) <=> In(q, x) \/ work = x
<1>1. DOMAIN q = 1 .. Len(q) /\ DOMAIN Append(q, work) = 1 .. Len(q) + 1 /\ Len(q) \in Nat
  OBVIOUS
<1>2. \A i \in 1 .. Len(q) : Append(q, work)[i] = q[i]
  OBVIOUS
<1>3. Append(q, work)[Len(q) + 1] = work
  OBVIOUS
<1>4. ASSUME In(Append(q, work), x) PROVE In(q, x) \/ work = x
  BY <1>1, <1>2, <1>3, <1>4 DEF In
<1>5. ASSUME In(q, x) PROVE In(Append(q, work), x)
  BY <1>1, <1>2, <1>5 DEF In
<1>6. ASSUME work = x PROVE In(Append(q, work), x)
  BY <1>1, <1>3, <1>6 DEF In
<1> QED
  BY <1>4, <1>5, <1>6

\* The items of a sequence after its first was taken.
LEMMA TailSplit ==
    ASSUME NEW S, NEW q \in Seq(S), q # <<>>, NEW x
    PROVE  In(q, x) <=> Head(q) = x \/ In(Tail(q), x)
<1>1. DOMAIN q = 1 .. Len(q) /\ DOMAIN Tail(q) = 1 .. Len(q) - 1 /\ Len(q) \in Nat /\ Len(q) >= 1
  OBVIOUS
<1>2. \A i \in 1 .. Len(q) - 1 : Tail(q)[i] = q[i + 1]
  OBVIOUS
<1>3. Head(q) = q[1]
  OBVIOUS
<1>4. ASSUME NEW i \in DOMAIN q, q[i] = x PROVE Head(q) = x \/ In(Tail(q), x)
  <2>1. CASE i = 1
    BY <1>3, <1>4, <2>1
  <2>2. CASE i # 1
    <3>1. i - 1 \in DOMAIN Tail(q) /\ Tail(q)[i - 1] = q[i]
      BY <1>1, <1>2, <2>2
    <3> QED
      BY <1>4, <3>1 DEF In
  <2> QED
    BY <2>1, <2>2
<1>5. ASSUME Head(q) = x PROVE In(q, x)
  BY <1>1, <1>3, <1>5 DEF In
<1>6. ASSUME NEW i \in DOMAIN Tail(q), Tail(q)[i] = x PROVE In(q, x)
  <2>1. i + 1 \in DOMAIN q /\ q[i + 1] = x
    BY <1>1, <1>2, <1>6
  <2> QED
    BY <2>1 DEF In
<1> QED
  BY <1>4, <1>5, <1>6 DEF In

-----------------------------------------------------------------------------
(* The methods *)

\* A new coordinator is good.
LEMMA NewIsGood == Good(NewCoordinator)
  BY DEF Good, NewCoordinator, Coordinators, Phases, QueueBound, TeardownQueued, OneNotice, Pending,
         TearingDown, One

\* Queueing an item that is queued at most once keeps the coordinator good.
LEMMA EnqueueOnceGood ==
    ASSUME NEW k, Good(k), ~TearingDown(k), NEW work \in Ordinary \cup Commands, NEW critical \in BOOLEAN,
           critical <=> work \in Commands
    PROVE  Good(EnqueueOnce(k, work, critical))
<1> DEFINE n == [k EXCEPT !.queue = Append(@, work)]
<1>1. CASE Pending(k, work) \/ ~HasRoom(k, critical)
  BY <1>1 DEF EnqueueOnce, Enqueue
<1>2. CASE ~Pending(k, work) /\ HasRoom(k, critical)
  <2>1. EnqueueOnce(k, work, critical) = n
    BY <1>2 DEF EnqueueOnce, Enqueue
  <2>2. work \in Items /\ k.queue \in Seq(Items) /\ Len(k.queue) \in Nat /\ DOMAIN k.queue = 1 .. Len(k.queue)
    BY DEF Good, Coordinators, Items, Ordinary, Commands
  <2>3. /\ n \in Coordinators /\ n.phase = k.phase /\ n.active = k.active
        /\ n.queue = Append(k.queue, work)
    <3>1. Append(k.queue, work) \in Seq(Items) /\ k \in Coordinators
      BY <2>2 DEF Good
    <3> QED
      BY <3>1 DEF Coordinators
  <2>4. Len(n.queue) = Len(k.queue) + 1 /\ DOMAIN n.queue = 1 .. Len(k.queue) + 1
    BY <2>2, <2>3
  <2>5. \A other \in Items : Pending(n, other) <=> Pending(k, other) \/ work = other
    BY <2>2, <2>3, AppendSplit DEF Pending, In
  <2>6. QueueBound(n)
    <3>1. CASE work \in Commands
      BY <1>2, <2>2, <2>3, <2>4, <2>5, <3>1 DEF Good, QueueBound, One, TearingDown, Commands, Items
    <3>2. CASE work \in Ordinary
      <4>1. Len(k.queue) < Capacity - CriticalReserve
        BY <1>2, <3>2 DEF HasRoom, Ordinary, Commands
      <4>2. Len(n.queue) <= Capacity - CriticalReserve
        BY <2>2, <2>4, <4>1
      <4> QED
        BY <2>2, <2>4, <4>2 DEF QueueBound, One, TearingDown
    <3> QED
      BY <3>1, <3>2
  <2>7. TeardownQueued(n)
    BY <2>3, <2>5 DEF Good, TeardownQueued, TearingDown, Items, Ordinary, Commands
  <2>8. OneNotice(n)
    <3>1. \A i \in DOMAIN n.queue : n.queue[i] = IF i \in DOMAIN k.queue THEN k.queue[i] ELSE work
      BY <2>2, <2>3, <2>4
    <3>2. \A i, j \in DOMAIN n.queue : i \notin DOMAIN k.queue /\ j \notin DOMAIN k.queue => i = j
      BY <2>2, <2>4
    <3> QED
      BY <1>2, <3>1, <3>2 DEF Good, OneNotice, Pending
  <2> QED
    BY <2>1, <2>3, <2>6, <2>7, <2>8 DEF Good
<1> QED
  BY <1>1, <1>2

\* A request of the user keeps the coordinator good.
LEMMA RequestWorkGood ==
    ASSUME NEW k, Good(k), NEW work \in Ordinary \cup Commands, NEW critical \in BOOLEAN,
           critical <=> work \in Commands
    PROVE  Good(RequestWork(k, work, critical))
  BY EnqueueOnceGood DEF RequestWork, AcceptsWork

\* A phase reported by the session keeps the coordinator good.
LEMMA PhaseGood ==
    ASSUME NEW k, Good(k), ~TearingDown(k), k.active, NEW phase \in {"CONNECTING", "ONLINE", "OFFLINE_ERROR"}
    PROVE  Good([k EXCEPT !.phase = phase])
  BY DEF Good, Coordinators, Phases, QueueBound, TeardownQueued, OneNotice, Pending, TearingDown, One

\* A socket error keeps the coordinator good.
LEMMA SocketErrorGood == ASSUME NEW k, Good(k) PROVE Good(OnSocketError(k))
<1>1. CASE ~TakesSocketError(k)
  BY <1>1 DEF OnSocketError
<1>2. CASE TakesSocketError(k)
  <2> DEFINE n == [k EXCEPT !.phase = "OFFLINE_ERROR"]
  <2>1. ~TearingDown(k)
    BY <1>2 DEF TakesSocketError, TearingDown
  <2>2. Good(n)
    BY <1>2, <2>1, PhaseGood DEF TakesSocketError
  <2>3. ~TearingDown(n)
    BY DEF TearingDown, Good, Coordinators
  <2>4. Good(EnqueueOnce(n, "SSH_OFFLINE", FALSE))
    BY <2>2, <2>3, EnqueueOnceGood DEF Ordinary, Commands
  <2> QED
    BY <1>2, <2>4 DEF OnSocketError
<1> QED
  BY <1>1, <1>2

EnqueueCritical(k, work) == Enqueue(k, work, TRUE)

\* What queueing an item leaves alone.
LEMMA EnqueueFields ==
    ASSUME NEW k \in Coordinators, NEW work \in Items, Len(k.queue) < Capacity
    PROVE  /\ EnqueueCritical(k, work) \in Coordinators
           /\ EnqueueCritical(k, work).phase = k.phase
           /\ EnqueueCritical(k, work).active = k.active
           /\ EnqueueCritical(k, work).queue = Append(k.queue, work)
           /\ Len(EnqueueCritical(k, work).queue) = Len(k.queue) + 1
<1>1. EnqueueCritical(k, work) = [k EXCEPT !.queue = Append(@, work)]
  BY DEF EnqueueCritical, Enqueue, HasRoom
<1>2. k.queue \in Seq(Items) /\ Append(k.queue, work) \in Seq(Items)
      /\ Len(Append(k.queue, work)) = Len(k.queue) + 1
  BY DEF Coordinators
<1> QED
  BY <1>1, <1>2 DEF Coordinators

\* request_disconnect(): the pair finds its two places whatever is pending.
LEMMA DisconnectGood == ASSUME NEW k, Good(k) PROVE Good(RequestDisconnect(k))
<1>1. CASE ~AcceptsWork(k)
  BY <1>1 DEF RequestDisconnect
<1>2. CASE AcceptsWork(k)
  <2> DEFINE q == k.queue
             m == [k EXCEPT !.phase = "TEARDOWN_IN_PROGRESS"]
             half == EnqueueCritical(m, "TEARDOWN_SSH")
             n == RequestDisconnect(k)
             r == Append(Append(q, "TEARDOWN_SSH"), "TEARDOWN_WIFI")
  <2>1. q \in Seq(Items) /\ Len(q) \in Nat /\ DOMAIN q = 1 .. Len(q)
        /\ "TEARDOWN_SSH" \in Items /\ "TEARDOWN_WIFI" \in Items
    BY DEF Good, Coordinators, Items
  <2>2. Len(q) + 2 <= Capacity
    BY <1>2, <2>1 DEF Good, QueueBound, One, AcceptsWork
  <2>3. m \in Coordinators /\ m.phase = "TEARDOWN_IN_PROGRESS" /\ m.active = k.active /\ m.queue = q
    BY DEF Good, Coordinators, Phases
  <2>4. /\ n \in Coordinators /\ n.phase = "TEARDOWN_IN_PROGRESS" /\ n.active = k.active /\ n.queue = r
    <3>1. n = EnqueueCritical(half, "TEARDOWN_WIFI")
      BY <1>2 DEF RequestDisconnect, EnqueueCritical
    <3>2. /\ half \in Coordinators /\ half.phase = m.phase /\ half.active = m.active
          /\ half.queue = Append(q, "TEARDOWN_SSH") /\ Len(half.queue) = Len(q) + 1
      <4> HIDE DEF m, q, half
      <4>1. Len(m.queue) < Capacity
        BY <2>1, <2>2, <2>3
      <4>2. /\ EnqueueCritical(m, "TEARDOWN_SSH") \in Coordinators
            /\ EnqueueCritical(m, "TEARDOWN_SSH").phase = m.phase
            /\ EnqueueCritical(m, "TEARDOWN_SSH").active = m.active
            /\ EnqueueCritical(m, "TEARDOWN_SSH").queue = Append(m.queue, "TEARDOWN_SSH")
            /\ Len(EnqueueCritical(m, "TEARDOWN_SSH").queue) = Len(m.queue) + 1
        BY <2>1, <2>3, <4>1, EnqueueFields
      <4> QED
        BY <2>3, <4>2 DEF half
    <3> HIDE DEF half, n, m, q
    <3>3. Len(half.queue) < Capacity
      BY <2>1, <2>2, <3>2, CapacityAssumption
    <3>4. /\ EnqueueCritical(half, "TEARDOWN_WIFI") \in Coordinators
          /\ EnqueueCritical(half, "TEARDOWN_WIFI").phase = half.phase
          /\ EnqueueCritical(half, "TEARDOWN_WIFI").active = half.active
          /\ EnqueueCritical(half, "TEARDOWN_WIFI").queue = Append(half.queue, "TEARDOWN_WIFI")
      BY <2>1, <3>2, <3>3, EnqueueFields
    <3> QED
      BY <2>3, <3>1, <3>2, <3>4
  <2>5. Len(r) = Len(q) + 2 /\ DOMAIN r = 1 .. Len(q) + 2
    BY <2>1
  <2>6. /\ \A i \in 1 .. Len(q) : r[i] = q[i]
        /\ r[Len(q) + 1] = "TEARDOWN_SSH" /\ r[Len(q) + 2] = "TEARDOWN_WIFI"
    BY <2>1
  <2>7. \A x \in Items : Pending(k, x) => Pending(n, x)
    BY <2>1, <2>4, <2>5, <2>6 DEF Pending
  <2>8. \A i \in 1 .. Len(q) : q[i] # "TEARDOWN_SSH" /\ q[i] # "TEARDOWN_WIFI"
    BY <1>2, <2>1 DEF Good, TeardownQueued, AcceptsWork, Pending
  <2> HIDE DEF n, r
  <2>9. QueueBound(n)
    <3>1. Pending(k, "CANCEL_CONNECT") => Pending(n, "CANCEL_CONNECT")
      BY <2>7 DEF Items
    <3>2. Pending(k, "WIFI_DISCONNECT") => Pending(n, "WIFI_DISCONNECT")
      BY <2>7 DEF Items
    <3>3. Len(n.queue) = Len(q) + 2
      BY <2>4, <2>5
    <3>4. Len(q) <= (Capacity - CriticalReserve) + One(Pending(k, "CANCEL_CONNECT"))
                      + One(Pending(k, "WIFI_DISCONNECT"))
      BY <1>2, <2>1 DEF Good, QueueBound, One, AcceptsWork
    <3>5. TearingDown(n)
      BY <2>4 DEF TearingDown
    <3> QED
      BY <2>1, <3>1, <3>2, <3>3, <3>4, <3>5 DEF QueueBound, One
  <2>10. TeardownQueued(n)
    <3>1. \A i \in DOMAIN r : i \in 1 .. Len(q) \/ i = Len(q) + 1 \/ i = Len(q) + 2
      BY <2>1, <2>5
    <3>2. r # <<>> /\ Len(r) - 1 = Len(q) + 1
      BY <2>1, <2>5
    <3> QED
      BY <2>4, <2>5, <2>6, <2>8, <3>1, <3>2 DEF TeardownQueued, TearingDown
  <2>11. OneNotice(n)
    <3>1. \A i \in DOMAIN r : r[i] = "SSH_OFFLINE" => i \in DOMAIN q /\ q[i] = "SSH_OFFLINE"
      BY <2>1, <2>5, <2>6
    <3> QED
      BY <2>4, <3>1 DEF OneNotice, Good
  <2> QED
    BY <1>2, <2>4, <2>9, <2>10, <2>11 DEF Good, AcceptsWork, n
<1> QED
  BY <1>1, <1>2

\* The count of an item that is queued or not is a number.
LEMMA OneIsNat == \A b : One(b) \in Nat
  BY DEF One

\* Draining one work keeps the coordinator good and loses no other.
LEMMA DrainGood ==
    ASSUME NEW k, Good(k), CanDrain(k)
    PROVE  /\ Good(DrainPending(k))
           /\ Head(k.queue) = "SSH_OFFLINE" => ~Pending(DrainPending(k), "SSH_OFFLINE")
           /\ Pending(DrainPending(k), "SSH_OFFLINE") => Pending(k, "SSH_OFFLINE")
           /\ Head(k.queue) = "SSH_OFFLINE" => Pending(k, "SSH_OFFLINE")
<1> DEFINE q == k.queue
           t == Tail(q)
           n == DrainPending(k)
<1>1. /\ q \in Seq(Items) /\ q # <<>> /\ Len(q) \in Nat /\ Len(q) >= 1 /\ DOMAIN q = 1 .. Len(q)
      /\ Head(q) = q[1]
  BY DEF Good, Coordinators, CanDrain
<1>2. t \in Seq(Items) /\ Len(t) = Len(q) - 1 /\ DOMAIN t = 1 .. Len(q) - 1
  BY <1>1
<1>3. \A i \in DOMAIN t : i + 1 \in DOMAIN q /\ t[i] = q[i + 1]
  BY <1>1, <1>2
<1>4. n.queue = t /\ n \in Coordinators
  BY <1>2 DEF DrainPending, Good, Coordinators, Phases
<1>5. IF Head(q) = "TEARDOWN_WIFI"
      THEN n.phase = "TEARDOWN_DONE" /\ ~n.active
      ELSE n.phase = k.phase /\ n.active = k.active
  BY DEF DrainPending, Good, Coordinators
<1>6. \A x : Pending(k, x) <=> Head(q) = x \/ Pending(n, x)
  <2> SUFFICES ASSUME NEW x PROVE Pending(k, x) <=> Head(q) = x \/ Pending(n, x)
    OBVIOUS
  <2>1. Pending(k, x) <=> In(q, x)
    BY DEF Pending, In
  <2>2. Pending(n, x) <=> In(t, x)
    BY <1>4 DEF Pending, In
  <2>3. In(q, x) <=> Head(q) = x \/ In(t, x)
    BY <1>1, TailSplit
  <2> QED
    BY <2>1, <2>2, <2>3
<1> HIDE DEF n, t, q
<1>7. Head(q) = "TEARDOWN_WIFI" => TearingDown(k) /\ Len(q) = 1
  <2> SUFFICES ASSUME Head(q) = "TEARDOWN_WIFI" PROVE TearingDown(k) /\ Len(q) = 1
    OBVIOUS
  <2>1. TearingDown(k)
    BY <1>6 DEF Good, TeardownQueued
  <2>2. \A i \in DOMAIN q : q[i] = "TEARDOWN_WIFI" => i = Len(q)
    BY <2>1 DEF Good, TeardownQueued, q
  <2> QED
    BY <1>1, <2>1, <2>2
<1>8. QueueBound(n)
  <2>1. Len(n.queue) = Len(q) - 1
    BY <1>2, <1>4
  <2>2. CASE Head(q) = "TEARDOWN_WIFI"
    <3>1. Len(n.queue) = 0
      BY <1>7, <2>1, <2>2
    <3> QED
      BY <3>1, OneIsNat DEF QueueBound
  <2>3. CASE Head(q) # "TEARDOWN_WIFI"
    <3> DEFINE ck == One(Pending(k, "CANCEL_CONNECT"))
               cn == One(Pending(n, "CANCEL_CONNECT"))
               dk == One(Pending(k, "WIFI_DISCONNECT"))
               dn == One(Pending(n, "WIFI_DISCONNECT"))
               tk == One(TearingDown(k))
               tn == One(TearingDown(n))
    <3>1. tn = tk
      BY <1>5, <2>3 DEF TearingDown, One
    <3>2. Len(q) <= (Capacity - CriticalReserve) + ck + dk + 2 * tk
      BY DEF Good, QueueBound, q
    <3>3. ck + dk <= cn + dn + 1
      BY <1>6 DEF One
    <3>4. ck \in Nat /\ cn \in Nat /\ dk \in Nat /\ dn \in Nat /\ tk \in Nat
      BY OneIsNat
    <3>5. QueueBound(n) <=> Len(n.queue) <= (Capacity - CriticalReserve) + cn + dn + 2 * tn
      BY DEF QueueBound
    <3> HIDE DEF ck, cn, dk, dn, tk, tn
    <3>6. Len(q) - 1 <= (Capacity - CriticalReserve) + cn + dn + 2 * tn
      BY <1>1, <3>1, <3>2, <3>3, <3>4
    <3> QED
      BY <2>1, <3>5, <3>6
  <2> QED
    BY <2>2, <2>3
<1>9. TeardownQueued(n)
  <2>1. CASE Head(q) = "TEARDOWN_WIFI"
    <3>1. DOMAIN t = {}
      BY <1>1, <1>2, <1>7, <2>1
    <3> QED
      BY <1>4, <1>5, <2>1, <3>1 DEF TeardownQueued, TearingDown, Pending
  <2>2. CASE Head(q) # "TEARDOWN_WIFI" /\ ~TearingDown(k)
    BY <1>5, <1>6, <2>2 DEF Good, TeardownQueued, TearingDown
  <2>3. CASE Head(q) # "TEARDOWN_WIFI" /\ TearingDown(k)
    <3>1. /\ q[Len(q)] = "TEARDOWN_WIFI" /\ Len(q) # 1
          /\ \A i \in DOMAIN q : q[i] = "TEARDOWN_SSH" => i = Len(q) - 1
          /\ \A i \in DOMAIN q : q[i] = "TEARDOWN_WIFI" => i = Len(q)
      BY <1>1, <2>3 DEF Good, TeardownQueued, q
    <3>2. Len(t) >= 1 /\ Len(t) \in DOMAIN t /\ t[Len(t)] = "TEARDOWN_WIFI" /\ t # <<>>
      BY <1>1, <1>2, <1>3, <3>1
    <3>3. \A i \in DOMAIN t : t[i] = "TEARDOWN_SSH" => i = Len(t) - 1
      BY <1>1, <1>2, <1>3, <3>1
    <3>4. \A i \in DOMAIN t : t[i] = "TEARDOWN_WIFI" => i = Len(t)
      BY <1>1, <1>2, <1>3, <3>1
    <3>5. TearingDown(n)
      BY <1>5, <2>3 DEF TearingDown
    <3> QED
      BY <1>4, <3>2, <3>3, <3>4, <3>5 DEF TeardownQueued
  <2> QED
    BY <2>1, <2>2, <2>3
<1>10. OneNotice(n) /\ (Head(q) = "SSH_OFFLINE" => ~Pending(n, "SSH_OFFLINE"))
  <2>1. \A i, j \in DOMAIN q : q[i] = "SSH_OFFLINE" /\ q[j] = "SSH_OFFLINE" => i = j
    BY DEF Good, OneNotice, q
  <2>2. \A i \in DOMAIN t : i \in Nat /\ i >= 1
    BY <1>1, <1>2
  <2>3. OneNotice(n)
    BY <1>3, <1>4, <2>1, <2>2 DEF OneNotice
  <2>4. ASSUME Head(q) = "SSH_OFFLINE", NEW i \in DOMAIN t, t[i] = "SSH_OFFLINE" PROVE FALSE
    BY <1>1, <1>3, <2>1, <2>2, <2>4
  <2> QED
    BY <1>4, <2>3, <2>4 DEF Pending
<1> QED
  BY <1>4, <1>5, <1>6, <1>8, <1>9, <1>10 DEF Good, n, q

-----------------------------------------------------------------------------
(* The specification *)

\* The new coordinator satisfies the inductive invariant.
LEMMA IInvInit == Init => CoordInv
<1> SUFFICES ASSUME Init PROVE CoordInv
  OBVIOUS
<1>1. ~Pending(NewCoordinator, "SSH_OFFLINE")
  BY DEF Pending, NewCoordinator
<1> QED
  BY <1>1, NewIsGood DEF Init, CoordInv, One

\* Ordinary work and commands leave the number of pending notices alone.
LEMMA RequestWorkNotice ==
    ASSUME NEW k, Good(k), NEW work \in (Ordinary \cup Commands) \ {"SSH_OFFLINE"}, NEW critical \in BOOLEAN
    PROVE  Pending(RequestWork(k, work, critical), "SSH_OFFLINE") <=> Pending(k, "SSH_OFFLINE")
<1> DEFINE n == [k EXCEPT !.queue = Append(@, work)]
<1>1. k.queue \in Seq(Items) /\ work \in Items
  BY DEF Good, Coordinators, Items, Ordinary, Commands
<1>2. n.queue = Append(k.queue, work)
  BY DEF Good, Coordinators
<1>3. Pending(n, "SSH_OFFLINE") <=> Pending(k, "SSH_OFFLINE")
  BY <1>1, <1>2, AppendSplit DEF Pending, In
<1> QED
  BY <1>3 DEF RequestWork, EnqueueOnce, Enqueue

\* Every request keeps the coordinator good and its notice.
LEMMA RequestsAreGood ==
    ASSUME NEW k, Good(k)
    PROVE  \A n \in {RequestScan(k), RequestRetry(k), RequestCancelConnect(k), RequestWifiDisconnect(k)} :
              Good(n) /\ (Pending(n, "SSH_OFFLINE") <=> Pending(k, "SSH_OFFLINE"))
<1> DEFINE Kept(n) == Good(n) /\ (Pending(n, "SSH_OFFLINE") <=> Pending(k, "SSH_OFFLINE"))
<1>1. \A work \in {"RUN_SCAN", "RUN_RETRY"} : Kept(RequestWork(k, work, FALSE))
  BY RequestWorkGood, RequestWorkNotice DEF Ordinary, Commands
<1>2. \A work \in {"CANCEL_CONNECT", "WIFI_DISCONNECT"} : Kept(RequestWork(k, work, TRUE))
  BY RequestWorkGood, RequestWorkNotice DEF Ordinary, Commands
<1> HIDE DEF Kept
<1>3. Kept(RequestScan(k)) /\ Kept(RequestRetry(k)) /\ Kept(RequestCancelConnect(k)) /\ Kept(RequestWifiDisconnect(k))
  BY <1>1, <1>2 DEF RequestScan, RequestRetry, RequestCancelConnect, RequestWifiDisconnect
<1> QED
  BY <1>3 DEF Kept

\* Session events other than an error keep the coordinator good and its notice.
LEMMA SessionIsGood ==
    ASSUME NEW k, Good(k)
    PROVE  \A n \in {OnSessionConnecting(k), OnSessionOnline(k), [k EXCEPT !.sink = TRUE]} :
              Good(n) /\ (Pending(n, "SSH_OFFLINE") <=> Pending(k, "SSH_OFFLINE"))
<1>1. Good(OnSessionConnecting(k))
  BY PhaseGood DEF OnSessionConnecting, TearingDown
<1>2. Good(OnSessionOnline(k))
  BY PhaseGood DEF OnSessionOnline, TearingDown
<1>3. Good([k EXCEPT !.sink = TRUE])
  BY DEF Good, Coordinators, QueueBound, TeardownQueued, OneNotice, Pending, TearingDown
<1>4. OnSessionConnecting(k).queue = k.queue /\ OnSessionOnline(k).queue = k.queue
  BY DEF OnSessionConnecting, OnSessionOnline, Good, Coordinators
<1>5. [k EXCEPT !.sink = TRUE].queue = k.queue
  BY DEF Good, Coordinators
<1> QED
  BY <1>1, <1>2, <1>3, <1>4, <1>5 DEF Pending

\* The pair adds no notice.
LEMMA DisconnectNotice ==
    ASSUME NEW k, Good(k)
    PROVE  Pending(RequestDisconnect(k), "SSH_OFFLINE") => Pending(k, "SSH_OFFLINE")
<1> DEFINE Quiet(n) == n \in Coordinators /\ (Pending(n, "SSH_OFFLINE") => Pending(k, "SSH_OFFLINE"))
<1>1. ASSUME NEW n, Quiet(n), NEW work \in {"TEARDOWN_SSH", "TEARDOWN_WIFI"}
      PROVE  Quiet(Enqueue(n, work, TRUE))
  <2> DEFINE r == [n EXCEPT !.queue = Append(@, work)]
  <2>1. n \in Coordinators /\ n.queue \in Seq(Items) /\ work \in Items /\ work # "SSH_OFFLINE"
    BY <1>1 DEF Coordinators, Items
  <2>2. Append(n.queue, work) \in Seq(Items)
    BY <2>1
  <2>3. r.queue = Append(n.queue, work) /\ r \in Coordinators
    <3> HIDE DEF Quiet
    <3> QED
      BY <2>1, <2>2 DEF Coordinators
  <2> HIDE DEF r
  <2>4. In(r.queue, "SSH_OFFLINE") <=> In(n.queue, "SSH_OFFLINE")
    <3>1. In(Append(n.queue, work), "SSH_OFFLINE") <=> In(n.queue, "SSH_OFFLINE") \/ work = "SSH_OFFLINE"
      BY <2>1, AppendSplit
    <3> QED
      BY <2>1, <2>3, <3>1
  <2>5. Pending(r, "SSH_OFFLINE") <=> Pending(n, "SSH_OFFLINE")
    BY <2>4 DEF Pending, In
  <2>6. Enqueue(n, work, TRUE) \in {r, n}
    BY DEF Enqueue, r
  <2> QED
    BY <1>1, <2>3, <2>5, <2>6
<1>2. Quiet([k EXCEPT !.phase = "TEARDOWN_IN_PROGRESS"])
  BY DEF Pending, Good, Coordinators, Phases
<1> HIDE DEF Quiet
<1>3. Quiet(Enqueue(Enqueue([k EXCEPT !.phase = "TEARDOWN_IN_PROGRESS"], "TEARDOWN_SSH", TRUE), "TEARDOWN_WIFI", TRUE))
  BY <1>1, <1>2
<1> QED
  BY <1>3 DEF RequestDisconnect, Quiet

\* Every step preserves the inductive invariant.
LEMMA IInvStep == CoordInv /\ [Next]_vars => CoordInv'
<1> SUFFICES ASSUME CoordInv, [Next]_vars PROVE CoordInv'
  OBVIOUS
<1>0. Good(coord) /\ errors \in Nat /\ notices \in Nat
  BY DEF CoordInv
<1>1. CASE SetNotify \/ SessionConnecting \/ SessionOnline
  BY <1>0, <1>1, SessionIsGood DEF SetNotify, SessionConnecting, SessionOnline, CoordInv, One
<1>2. CASE Reset
  <2>1. ~Pending(NewCoordinator, "SSH_OFFLINE")
    BY DEF Pending, NewCoordinator
  <2> QED
    BY <1>2, <2>1, NewIsGood DEF Reset, CoordInv, One
<1>3. CASE SocketError
  <2>1. Good(coord')
    BY <1>0, <1>3, SocketErrorGood DEF SocketError
  <2>2. CASE TakesSocketError(coord)
    BY <1>0, <1>3, <2>1, <2>2 DEF SocketError, CoordInv, One
  <2>3. CASE ~TakesSocketError(coord)
    BY <1>0, <1>3, <2>1, <2>3 DEF SocketError, OnSocketError, CoordInv, One
  <2> QED
    BY <2>2, <2>3
<1>4. CASE Disconnect
  BY <1>0, <1>4, DisconnectGood, DisconnectNotice DEF Disconnect, CoordInv, One
<1>5. CASE WifiDisconnect \/ CancelConnect
  BY <1>0, <1>5, RequestsAreGood DEF WifiDisconnect, CancelConnect, CoordInv, One
<1>6. CASE Scan \/ Retry
  BY <1>0, <1>6, RequestsAreGood DEF Scan, Retry, OnScanTimerTick, OnRetryTimerTick, CoordInv, One
<1>7. CASE Drain
  BY <1>0, <1>7, DrainGood DEF Drain, CoordInv, One
<1>8. CASE UNCHANGED vars
  BY <1>8 DEF vars, CoordInv
<1> QED
  BY <1>1, <1>2, <1>3, <1>4, <1>5, <1>6, <1>7, <1>8 DEF Next

\* The inductive invariant always holds.
LEMMA IInvAlways == Spec => []CoordInv
  BY IInvInit, IInvStep, PTL DEF Spec

\* The queue never overflows and the object is inert exactly when its phase says so.
THEOREM CoordTypeCorrect == Spec => []TypeOK
<1>1. ASSUME CoordInv PROVE TypeOK
  <2>1. Len(coord.queue) \in Nat
    BY <1>1 DEF CoordInv, Good, Coordinators
  <2>2. One(Pending(coord, "CANCEL_CONNECT")) <= 1 /\ One(Pending(coord, "WIFI_DISCONNECT")) <= 1
        /\ One(TearingDown(coord)) <= 1
    BY DEF One
  <2>3. Len(coord.queue) <= Capacity
    BY <1>1, <2>1, <2>2, OneIsNat DEF CoordInv, Good, QueueBound
  <2> QED
    BY <1>1, <2>3 DEF CoordInv, Good, TypeOK
<1> QED
  BY <1>1, IInvAlways, PTL

\* A teardown that was begun is queued to its end: it cannot be lost to a full
\* queue nor overtaken by later work.
THEOREM TeardownIsNeverLost == Spec => []TeardownIsQueued
<1>1. CoordInv => TeardownIsQueued
  BY DEF CoordInv, Good, TeardownQueued, TeardownIsQueued
<1> QED
  BY <1>1, IInvAlways, PTL

\* An error is announced at most once.
THEOREM NoticeIsNotRepeated == Spec => []AnnouncedAtMostOnce
<1>1. CoordInv => AnnouncedAtMostOnce
  BY DEF CoordInv, AnnouncedAtMostOnce, One
<1> QED
  BY <1>1, IInvAlways, PTL

\* Cancelling and disconnecting are always accepted while work is.
THEOREM CommandsAreNeverRefused == Spec => []CommandsAreTaken
<1>1. ASSUME NEW k, Good(k), AcceptsWork(k), NEW work \in Commands
      PROVE  Pending(RequestWork(k, work, TRUE), work)
  <2>1. CASE Pending(k, work)
    BY <1>1, <2>1 DEF RequestWork, EnqueueOnce
  <2>2. CASE ~Pending(k, work)
    <3> DEFINE n == [k EXCEPT !.queue = Append(@, work)]
    <3>1. k.queue \in Seq(Items) /\ Len(k.queue) \in Nat /\ work \in Items
      BY <1>1 DEF Good, Coordinators, Commands, Items
    <3>2. Len(k.queue) < Capacity
      BY <1>1, <2>2, <3>1 DEF Good, QueueBound, One, AcceptsWork, Commands
    <3>3. RequestWork(k, work, TRUE) = n
      BY <1>1, <2>2, <3>2 DEF RequestWork, EnqueueOnce, Enqueue, HasRoom
    <3>4. n.queue = Append(k.queue, work)
      BY <1>1 DEF Good, Coordinators
    <3>5. Pending(n, work)
      BY <3>1, <3>4, AppendSplit DEF Pending, In
    <3> QED
      BY <3>3, <3>5
  <2> QED
    BY <2>1, <2>2
<1>2. CoordInv => CommandsAreTaken
  BY <1>1 DEF CoordInv, CommandsAreTaken, RequestCancelConnect, RequestWifiDisconnect, Commands
<1> QED
  BY <1>2, IInvAlways, PTL

\* After the teardown nothing happens until the object is reset.
THEOREM TeardownIsFinal == Spec => InertAfterTeardown
<1>1. ASSUME CoordInv, [Next]_vars, coord.phase = "TEARDOWN_DONE"
      PROVE  \/ coord' = NewCoordinator
             \/ coord' = [coord EXCEPT !.sink = coord'.sink] /\ notices' = notices
  <2>1. ~coord.active /\ coord \in Coordinators
    BY <1>1 DEF CoordInv, Good
  <2>2. coord = [coord EXCEPT !.sink = coord.sink]
    BY <2>1 DEF Coordinators
  <2>3. CASE SetNotify
    BY <2>1, <2>3 DEF SetNotify, Coordinators
  <2>4. CASE Reset
    BY <2>4 DEF Reset
  <2>5. CASE ~SetNotify /\ ~Reset
    BY <1>1, <2>1, <2>2, <2>5
       DEF Next, vars, SessionConnecting, SessionOnline, SocketError, Disconnect, WifiDisconnect, CancelConnect,
           Scan, Retry, Drain, OnSessionConnecting, OnSessionOnline, OnSocketError, TakesSocketError,
           RequestDisconnect, RequestWifiDisconnect, RequestCancelConnect, RequestScan, RequestRetry,
           RequestWork, OnScanTimerTick, OnRetryTimerTick, AcceptsWork, CanDrain
  <2> QED
    BY <2>3, <2>4, <2>5
<1>2. CoordInv /\ [Next]_vars =>
        [coord.phase = "TEARDOWN_DONE" =>
            \/ coord' = NewCoordinator
            \/ coord' = [coord EXCEPT !.sink = coord'.sink] /\ notices' = notices]_vars
  BY <1>1
<1> QED
  BY <1>2, IInvAlways, PTL DEF Spec, InertAfterTeardown

-----------------------------------------------------------------------------
(* The event log *)

\* Only durable calls have a request, and a worker has it only after it was sent.
Requests ==
    /\ \A c \in Calls : at[c] \in {"unsent", "waiting", "again"} => c \in Durable
    /\ \A c \in Durable : at[c] # "done" => tries[c] < Attempts
    /\ \A c \in Durable : WorkerUses(c) => at[c] \in {"sent", "waiting", "done"}

\* A request is in one place of the queue, or with the worker.
InOnePlace ==
    /\ \A i, j \in 1 .. Len(durable) : durable[i] = durable[j] => i = j
    /\ \A i \in 1 .. Len(durable) : durable[i] # item
    /\ item # None <=> log \in {"persist", "release"}

\* The leases are counted.
Inside == {c \in Calls : at[c] \in {"counted", "admitted", "sent", "unsent"}}
Leases == ops = Cardinality(Inside)

\* Past the leases nobody is admitted any more.
Fence ==
    /\ quiescer # "idle" => life = "closing"
    /\ quiescer = "workers" \/ life = "closed" =>
           \A c \in Calls : at[c] \notin {"admitted", "sent", "unsent"}

\* What the flags of the workers say.
Ends ==
    /\ log = "gone" <=> logDone
    /\ text = "gone" <=> textDone
    /\ logDone => ~file
    /\ text # "leave"
    /\ text \in {"recheck", "gone"} => logDone
    /\ textDone => projected = 0
    /\ life = "closed" => logDone /\ textDone

LogInv == EventLogTypeOK /\ RequestsAreOwned /\ Requests /\ InOnePlace /\ Leases /\ Fence /\ Ends

HIDE MaxErrorsAssumption
HIDE CapacityAssumption
USE EventLogLimits

LEMMA InitIInv == EventLogInit => LogInv
<1> SUFFICES ASSUME EventLogInit PROVE LogInv
  OBVIOUS
<1>1. EventLogTypeOK
  <2>1. {queued, projected} \subseteq 0 .. QueueLength /\ durable \in Seq(Durable)
    BY DEF EventLogInit
  <2>2. at \in [Calls -> Places] /\ tries \in [Durable -> 0 .. Attempts]
    BY DEF EventLogInit, Places
  <2>3. QED BY <2>1, <2>2 DEF EventLogInit, EventLogTypeOK
<1>2. RequestsAreOwned /\ Requests /\ InOnePlace
  <2>1. Len(durable) = 0
    BY DEF EventLogInit
  <2>2. \A c \in Durable : ~CallerUses(c) /\ ~WorkerUses(c)
    BY <2>1 DEF EventLogInit, CallerUses, WorkerUses, InQueue, Calls
  <2>3. RequestsAreOwned
    BY <2>2 DEF EventLogInit, RequestsAreOwned
  <2>4. Requests /\ InOnePlace
    BY <2>1, <2>2 DEF EventLogInit, Requests, InOnePlace, Calls
  <2>5. QED BY <2>3, <2>4
<1>3. Leases
  <2>1. Inside = {}
    BY DEF EventLogInit, Inside
  <2>2. QED BY <2>1, FS_EmptySet DEF EventLogInit, Leases
<1>4. Fence /\ Ends
  BY DEF EventLogInit, Fence, Ends
<1>5. QED BY <1>1, <1>2, <1>3, <1>4 DEF LogInv

-----------------------------------------------------------------------------
(* The leases *)

LEMMA InsideIsFinite == IsFiniteSet(Inside) /\ Cardinality(Inside) \in Nat
<1>1. Inside \subseteq Calls
  BY DEF Inside
<1>2. QED BY <1>1, FS_Subset, FS_CardinalityType

\* A call that takes a lease is counted, one that ends it is counted out.
LEMMA Counting ==
    ASSUME LogInv, NEW c \in Calls, NEW place, Goes(c, place)
    PROVE  /\ place \in {"counted", "admitted", "sent", "unsent"} /\ c \in Inside => Inside' = Inside
           /\ place \notin {"counted", "admitted", "sent", "unsent"} /\ c \notin Inside => Inside' = Inside
           /\ place = "counted" /\ c \notin Inside => Cardinality(Inside') = ops + 1
           /\ place \in {"waiting", "again", "done"} /\ c \in Inside => Cardinality(Inside') = ops - 1
<1>1. at \in [Calls -> Places]
  BY DEF LogInv, EventLogTypeOK
<1>2. ASSUME place \in {"counted", "admitted", "sent", "unsent"} PROVE Inside' = Inside \cup {c}
  BY <1>1, <1>2 DEF Goes, Inside
<1>3. ASSUME place \notin {"counted", "admitted", "sent", "unsent"} PROVE Inside' = Inside \ {c}
  BY <1>1, <1>3 DEF Goes, Inside
<1>4. ops = Cardinality(Inside)
  BY DEF LogInv, Leases
<1>5. c \notin Inside => Cardinality(Inside \cup {c}) = ops + 1
  BY <1>4, InsideIsFinite, FS_AddElement
<1>6. c \in Inside => Cardinality(Inside \ {c}) = ops - 1
  BY <1>4, InsideIsFinite, FS_RemoveElement
<1>7. place \in {"counted", "admitted", "sent", "unsent"} /\ c \in Inside => Inside' = Inside
  BY <1>2
<1>8. place \notin {"counted", "admitted", "sent", "unsent"} /\ c \notin Inside => Inside' = Inside
  BY <1>3
<1>9. place = "counted" /\ c \notin Inside => Cardinality(Inside') = ops + 1
  BY <1>2, <1>5
<1>10. place \in {"waiting", "again", "done"} /\ c \in Inside => Cardinality(Inside') = ops - 1
  <2>1. place \in {"waiting", "again", "done"} => place \notin {"counted", "admitted", "sent", "unsent"}
    OBVIOUS
  <2>2. QED BY <1>3, <1>6, <2>1
<1>11. QED BY <1>7, <1>8, <1>9, <1>10

LEMMA StepLeases ==
    ASSUME LogInv, [EventLogNext]_logVars
    PROVE  Leases'
<1>1. ASSUME NEW c \in Calls, CallerStep(c) \/ AckTimesOut(c) PROVE Leases'
  <2>1. CASE Load(c)
    <3>1. PICK place \in {"loaded", "done"} : Goes(c, place)
      BY <2>1 DEF Load
    <3>2. c \notin Inside /\ ops' = ops
      BY <2>1 DEF Load, Inside
    <3>3. QED BY <3>1, <3>2, Counting DEF LogInv, Leases
  <2>2. CASE Count(c)
    <3>1. c \notin Inside /\ Goes(c, "counted") /\ ops' = ops + 1
      BY <2>2 DEF Count, Inside
    <3>2. QED BY <3>1, Counting DEF Leases
  <2>3. CASE Admit(c)
    <3>1. c \in Inside
      BY <2>3 DEF Admit, Inside
    <3>2. CASE Goes(c, "admitted") /\ ops' = ops
      BY <3>1, <3>2, Counting DEF LogInv, Leases
    <3>3. CASE Goes(c, "done") /\ EndLease
      BY <3>1, <3>3, Counting DEF EndLease, Leases
    <3>4. QED BY <2>3, <3>2, <3>3 DEF Admit, Recheck
  <2>4. CASE SendOrRead(c) \/ SendDurable(c)
    <3>1. PICK place \in {"sent", "unsent"} : Goes(c, place)
      BY <2>4 DEF SendOrRead, SendDurable
    <3>2. c \in Inside /\ ops' = ops
      BY <2>4 DEF SendOrRead, SendDurable, Inside
    <3>3. QED BY <3>1, <3>2, Counting DEF LogInv, Leases
  <2>5. CASE LeaveSent(c) \/ LeaveUnsent(c)
    <3>1. PICK place \in {"waiting", "done", "again"} : Goes(c, place)
      BY <2>5 DEF LeaveSent, LeaveUnsent
    <3>2. c \in Inside /\ ops' = ops - 1
      BY <2>5 DEF LeaveSent, LeaveUnsent, Leaves, EndLease, Inside
    <3>3. QED BY <3>1, <3>2, Counting DEF Leases
  <2>6. CASE TakeAck(c) \/ AckTimesOut(c)
    <3>1. Goes(c, "done") /\ c \notin Inside /\ ops' = ops
      BY <2>6 DEF TakeAck, AckTimesOut, Inside
    <3>2. QED BY <3>1, Counting DEF LogInv, Leases
  <2>7. QED BY <1>1, <2>1, <2>2, <2>3, <2>4, <2>5, <2>6 DEF CallerStep
<1>2. CASE LogStep \/ TextStep \/ BeginQuiesce \/ QuiesceStep \/ QuiesceTimesOut \/ UNCHANGED logVars
  <2>1. UNCHANGED <<at, ops>>
    BY <1>2 DEF LogStep, TextStep, BeginQuiesce, QuiesceStep, QuiesceTimesOut, BeginTurn, Persist,
       WritePlain, NothingQueued, TestStop, CloseFile, TextReceive, TextTimesOut, TextLooks,
       TextEnds, SignalStop, LookAtLeases, LookAtWorkers, Wake, logVars, calls, ReleaseRequest
  <2>2. QED BY <2>1 DEF LogInv, Leases, Inside
<1>3. QED BY <1>1, <1>2 DEF EventLogNext

-----------------------------------------------------------------------------
(* The requests *)

\* What the steps of a call need.
LEMMA RequestTypes ==
    ASSUME LogInv
    PROVE  /\ RequestsAreOwned /\ Requests /\ InOnePlace
           /\ at \in [Calls -> Places] /\ refs \in [Durable -> Nat] /\ tries \in [Durable -> 0 .. Attempts]
           /\ durable \in Seq(Durable) /\ Len(durable) \in Nat /\ item \in Durable \cup {None}
           /\ Durable \subseteq Calls /\ None \notin Durable /\ Attempts \in Nat \ {0}
BY DEF LogInv, EventLogTypeOK, Calls

\* The worker keeps what it has while it and the queue do not move.
LEMMA WorkerStays ==
    ASSUME UNCHANGED <<durable, item>>, NEW c PROVE WorkerUses(c)' <=> WorkerUses(c)
BY DEF WorkerUses, InQueue

\* A call that ends gives its reference back.
LEMMA Ending ==
    ASSUME LogInv, NEW c \in Durable, CallerUses(c), Goes(c, "done"), refs' = Unreferenced(c),
           UNCHANGED <<durable, item, log>>, \A d \in Durable \ {c} : tries'[d] = tries[d]
    PROVE  RequestsAreOwned' /\ Requests'
<1>1. \A d \in Durable : WorkerUses(d)' <=> WorkerUses(d)
  BY WorkerStays
<1>2. /\ at'[c] = "done" /\ \A d \in Calls \ {c} : at'[d] = at[d]
      /\ refs'[c] = refs[c] - 1 /\ \A d \in Durable \ {c} : refs'[d] = refs[d]
  BY RequestTypes DEF Goes, Unreferenced
<1>3. \A d \in Durable : refs[d] = (IF CallerUses(d) THEN 1 ELSE 0) + (IF WorkerUses(d) THEN 1 ELSE 0)
  BY RequestTypes DEF RequestsAreOwned
<1>4. \A d \in Durable \ {c} : CallerUses(d)' <=> CallerUses(d)
  BY <1>2, RequestTypes DEF CallerUses
<1>5. refs'[c] = IF WorkerUses(c) THEN 1 ELSE 0
  BY <1>2, <1>3
<1>6. ~CallerUses(c)'
  BY <1>2 DEF CallerUses
<1>7. RequestsAreOwned'
  BY <1>1, <1>2, <1>3, <1>4, <1>5, <1>6 DEF RequestsAreOwned
<1>8. Requests'
  BY <1>1, <1>2, RequestTypes DEF Requests
<1>9. QED BY <1>7, <1>8

LEMMA CallerRequests ==
    ASSUME LogInv, NEW c \in Calls, CallerStep(c) \/ AckTimesOut(c), ~SendDurable(c)
    PROVE  RequestsAreOwned' /\ Requests' /\ InOnePlace'
<1> USE DEF RequestsAreOwned, Requests, CallerUses, Goes, Unreferenced
<1>1. UNCHANGED <<durable, item, log>>
  BY DEF CallerStep, AckTimesOut, Load, Count, Admit, SendOrRead, LeaveSent, LeaveUnsent, TakeAck,
     workers, queues
<1>2. \A d : WorkerUses(d)' <=> WorkerUses(d)
  BY <1>1, WorkerStays
<1>3. InOnePlace'
  BY <1>1, RequestTypes DEF InOnePlace
<1>4. CASE Load(c)
  <2>1. UNCHANGED tries
    BY <1>4 DEF Load
  <2>2. CASE at[c] = "new" /\ Goes(c, "loaded") /\ refs' = IF c \in Durable THEN [refs EXCEPT ![c] = 1] ELSE refs
    <3>1. c \in Durable => ~WorkerUses(c)
      BY <2>2, RequestTypes
    <3>2. RequestsAreOwned'
      BY <1>2, <2>2, <3>1, RequestTypes, SMTT(30)
    <3>3. Requests'
      BY <1>2, <2>1, <2>2, <3>1, RequestTypes
    <3>4. QED BY <1>3, <3>2, <3>3
  <2>3. CASE at[c] = "new" /\ Goes(c, "done") /\ UNCHANGED refs
    BY <1>2, <1>3, <2>1, <2>3, RequestTypes
  <2>4. CASE at[c] = "again" /\ Goes(c, "loaded") /\ UNCHANGED refs
    BY <1>2, <1>3, <2>1, <2>4, RequestTypes
  <2>5. CASE at[c] = "again" /\ Goes(c, "done") /\ refs' = Unreferenced(c)
    <3>1. c \in Durable /\ CallerUses(c)
      BY <2>5, RequestTypes
    <3>2. QED BY <1>1, <1>3, <2>1, <2>5, <3>1, Ending
  <2>6. QED BY <1>4, <2>2, <2>3, <2>4, <2>5 DEF Load
<1>5. CASE Count(c)
  BY <1>2, <1>3, <1>5, RequestTypes DEF Count
<1>6. CASE Admit(c)
  <2>1. at[c] = "counted" /\ UNCHANGED tries
    BY <1>6 DEF Admit
  <2>2. CASE Goes(c, "admitted") /\ refs' = refs
    BY <1>2, <1>3, <2>1, <2>2, RequestTypes
  <2>3. CASE c \in Durable /\ Goes(c, "done") /\ refs' = Unreferenced(c)
    <3>1. CallerUses(c)
      BY <2>1
    <3>2. QED BY <1>1, <1>3, <2>1, <2>3, <3>1, Ending
  <2>4. CASE c \notin Durable /\ Goes(c, "done") /\ refs' = refs
    BY <1>2, <1>3, <2>1, <2>4, RequestTypes
  <2>5. QED BY <1>6, <2>2, <2>3, <2>4 DEF Admit, Recheck
<1>7. CASE SendOrRead(c)
  <2>1. c \notin Durable
    BY <1>7 DEF SendOrRead
  <2>2. QED BY <1>2, <1>3, <1>7, <2>1, RequestTypes DEF SendOrRead
<1>8. CASE LeaveSent(c)
  BY <1>2, <1>3, <1>8, RequestTypes DEF LeaveSent, Leaves
<1>9. CASE LeaveUnsent(c)
  <2>1. c \in Durable /\ at[c] = "unsent" /\ tries[c] < Attempts /\ tries' = [tries EXCEPT ![c] = @ + 1]
    BY <1>9, RequestTypes DEF LeaveUnsent
  <2>2. CASE tries'[c] < Attempts /\ Goes(c, "again") /\ UNCHANGED refs
    BY <1>2, <1>3, <2>1, <2>2, RequestTypes
  <2>3. CASE Goes(c, "done") /\ refs' = Unreferenced(c)
    <3>1. CallerUses(c) /\ \A d \in Durable \ {c} : tries'[d] = tries[d]
      BY <2>1, RequestTypes
    <3>2. QED BY <1>1, <1>3, <2>1, <2>3, <3>1, Ending
  <2>4. QED BY <1>9, <2>2, <2>3 DEF LeaveUnsent
<1>10. CASE TakeAck(c) \/ AckTimesOut(c)
  <2>1. c \in Durable /\ CallerUses(c) /\ Goes(c, "done") /\ refs' = Unreferenced(c) /\ UNCHANGED tries
    BY <1>10 DEF TakeAck, AckTimesOut
  <2>2. QED BY <1>1, <1>3, <2>1, Ending
<1>11. QED BY <1>4, <1>5, <1>6, <1>7, <1>8, <1>9, <1>10 DEF CallerStep

LEMMA SendRequests ==
    ASSUME LogInv, NEW c \in Calls, SendDurable(c)
    PROVE  RequestsAreOwned' /\ Requests' /\ InOnePlace'
<1>1. c \in Durable /\ at[c] = "admitted" /\ UNCHANGED <<item, log, tries>>
  BY DEF SendDurable, workers
<1>2. ~WorkerUses(c)
  BY <1>1, RequestTypes DEF Requests
<1>3. CASE durable' = Append(durable, c) /\ refs' = Shared(c) /\ Goes(c, "sent")
  <2>1. /\ Len(durable') = Len(durable) + 1
        /\ durable'[Len(durable) + 1] = c
        /\ \A i \in 1 .. Len(durable) : durable'[i] = durable[i]
    BY <1>1, <1>3, RequestTypes
  <2>2. ASSUME NEW d PROVE InQueue(d)' <=> InQueue(d) \/ d = c
    <3>1. \A i \in 1 .. Len(durable') : i \in 1 .. Len(durable) \/ i = Len(durable) + 1
      BY <2>1, RequestTypes
    <3>2. 1 .. Len(durable) \subseteq 1 .. Len(durable') /\ Len(durable) + 1 \in 1 .. Len(durable')
      BY <2>1, RequestTypes
    <3>3. QED BY <2>1, <3>1, <3>2 DEF InQueue
  <2>3. \A d \in Durable : WorkerUses(d)' <=> WorkerUses(d) \/ d = c
    BY <1>1, <2>2 DEF WorkerUses
  <2>4. RequestsAreOwned' /\ Requests'
    BY <1>1, <1>2, <1>3, <2>3, RequestTypes, SMTT(30) DEF RequestsAreOwned, Requests, CallerUses, Goes, Shared
  <2>5. \A i \in 1 .. Len(durable) : durable[i] # c
    BY <1>2 DEF WorkerUses, InQueue
  <2>6. item # c
    BY <1>2 DEF WorkerUses
  <2>7. \A i \in 1 .. Len(durable') : i \in 1 .. Len(durable) \/ i = Len(durable) + 1
    BY <2>1, RequestTypes
  <2>8. /\ \A i, j \in 1 .. Len(durable) : durable[i] = durable[j] => i = j
        /\ \A i \in 1 .. Len(durable) : durable[i] # item
        /\ item # None <=> log \in {"persist", "release"}
    BY RequestTypes DEF InOnePlace
  <2>9. \A i, j \in 1 .. Len(durable') : durable'[i] = durable'[j] => i = j
    BY <2>1, <2>5, <2>7, <2>8
  <2>10. \A i \in 1 .. Len(durable') : durable'[i] # item
    BY <2>1, <2>6, <2>7, <2>8
  <2>11. InOnePlace'
    BY <1>1, <2>8, <2>9, <2>10 DEF InOnePlace
  <2>12. QED BY <2>4, <2>11
<1>4. CASE Goes(c, "unsent") /\ UNCHANGED <<durable, refs>>
  <2>1. \A d : WorkerUses(d)' <=> WorkerUses(d)
    BY <1>1, <1>4, WorkerStays
  <2>2. RequestsAreOwned' /\ Requests'
    BY <1>1, <1>4, <2>1, RequestTypes DEF RequestsAreOwned, Requests, CallerUses, Goes
  <2>3. InOnePlace'
    BY <1>1, <1>4, RequestTypes DEF InOnePlace
  <2>4. QED BY <2>2, <2>3
<1>5. QED BY <1>3, <1>4 DEF SendDurable

\* The worker takes the first request.
LEMMA TakeRequest ==
    ASSUME LogInv, durable # <<>>, item = None, item' = Head(durable), durable' = Tail(durable)
    PROVE  /\ \A d \in Durable : WorkerUses(d)' <=> WorkerUses(d)
           /\ \A i, j \in 1 .. Len(durable') : durable'[i] = durable'[j] => i = j
           /\ \A i \in 1 .. Len(durable') : durable'[i] # item'
           /\ item' \in Durable
<1>1. /\ Len(durable) > 0 /\ item' = durable[1] /\ item' \in Durable
      /\ Len(durable') = Len(durable) - 1
      /\ \A i \in 1 .. Len(durable') : durable'[i] = durable[i + 1]
  BY RequestTypes
<1>2. ASSUME NEW d PROVE InQueue(d) <=> InQueue(d)' \/ d = item'
  <2>1. \A i \in 1 .. Len(durable) : i = 1 \/ (i - 1 \in 1 .. Len(durable') /\ durable'[i - 1] = durable[i])
    BY <1>1, RequestTypes
  <2>2. \A i \in 1 .. Len(durable') : i + 1 \in 1 .. Len(durable)
    BY <1>1, RequestTypes
  <2>3. 1 \in 1 .. Len(durable)
    BY <1>1, RequestTypes
  <2>4. QED BY <1>1, <2>1, <2>2, <2>3 DEF InQueue
<1>3. \A d \in Durable : WorkerUses(d)' <=> WorkerUses(d)
  BY <1>2, RequestTypes DEF WorkerUses
<1>4. \A i \in 1 .. Len(durable') : i + 1 \in 1 .. Len(durable) /\ i + 1 # 1 /\ 1 \in 1 .. Len(durable)
  BY <1>1, RequestTypes
<1>5. \A i, j \in 1 .. Len(durable) : durable[i] = durable[j] => i = j
  BY RequestTypes DEF InOnePlace
<1>6. \A i \in 1 .. Len(durable') : durable'[i] # item'
  BY <1>1, <1>4, <1>5
<1>7. \A i, j \in 1 .. Len(durable') : durable'[i] = durable'[j] => i = j
  <2>1. SUFFICES ASSUME NEW i \in 1 .. Len(durable'), NEW j \in 1 .. Len(durable'), durable'[i] = durable'[j]
                 PROVE  i = j
    OBVIOUS
  <2>2. i + 1 = j + 1
    BY <1>1, <1>4, <1>5, <2>1
  <2>3. QED BY <2>2
<1>8. QED BY <1>1, <1>3, <1>6, <1>7

LEMMA WorkerRequests ==
    ASSUME LogInv, LogStep
    PROVE  RequestsAreOwned' /\ Requests' /\ InOnePlace'
<1>1. CASE BeginTurn
  <2>1. UNCHANGED <<at, refs, tries>> /\ item = None /\ log = "turn"
    BY <1>1, RequestTypes DEF BeginTurn, calls, InOnePlace
  <2>2. CASE durable # <<>> /\ item' = Head(durable) /\ durable' = Tail(durable) /\ log' = "persist"
    <3>1. RequestsAreOwned' /\ Requests'
      BY <2>1, <2>2, TakeRequest, RequestTypes DEF RequestsAreOwned, Requests, CallerUses
    <3>2. InOnePlace'
      BY <2>1, <2>2, TakeRequest, RequestTypes DEF InOnePlace
    <3>3. QED BY <3>1, <3>2
  <2>3. CASE UNCHANGED <<item, durable>> /\ log' = "plain"
    <3>1. \A d : WorkerUses(d)' <=> WorkerUses(d)
      BY <2>3, WorkerStays
    <3>2. QED BY <2>1, <2>3, <3>1, RequestTypes DEF RequestsAreOwned, Requests, CallerUses, InOnePlace
  <2>4. QED BY <1>1, <2>2, <2>3 DEF BeginTurn
<1>2. CASE ReleaseRequest
  <2>1. /\ item \in Durable /\ log' = "turn" /\ item' = None
        /\ refs' = [refs EXCEPT ![item] = @ - 1] /\ UNCHANGED <<at, tries, durable>>
    BY <1>2, RequestTypes DEF ReleaseRequest, Unreferenced, queues, InOnePlace
  <2>2. ~InQueue(item)
    BY RequestTypes DEF InOnePlace, InQueue
  <2>3. \A d : InQueue(d)' <=> InQueue(d)
    BY <2>1 DEF InQueue
  <2>4. \A d \in Durable : WorkerUses(d)' <=> WorkerUses(d) /\ d # item
    BY <2>1, <2>2, <2>3, RequestTypes DEF WorkerUses
  <2>5. RequestsAreOwned' /\ Requests'
    BY <2>1, <2>4, RequestTypes, SMTT(30) DEF RequestsAreOwned, Requests, CallerUses, WorkerUses
  <2>6. \A i \in 1 .. Len(durable) : durable[i] \in Durable
    BY RequestTypes
  <2>7. InOnePlace'
    BY <2>1, <2>6, RequestTypes DEF InOnePlace
  <2>8. QED BY <2>5, <2>7
<1>3. CASE Persist \/ WritePlain \/ NothingQueued \/ TestStop \/ CloseFile
  <2>1. /\ UNCHANGED <<at, tries, refs, durable, item>>
        /\ log' \in {"persist", "release"} <=> log \in {"persist", "release"}
    BY <1>3 DEF Persist, WritePlain, NothingQueued, TestStop, CloseFile, calls, queues
  <2>2. \A d : WorkerUses(d)' <=> WorkerUses(d)
    BY <2>1, WorkerStays
  <2>3. QED BY <2>1, <2>2, RequestTypes DEF RequestsAreOwned, Requests, CallerUses, InOnePlace
<1>4. QED BY <1>1, <1>2, <1>3 DEF LogStep

LEMMA StepRequests ==
    ASSUME LogInv, [EventLogNext]_logVars
    PROVE  RequestsAreOwned' /\ Requests' /\ InOnePlace'
<1>1. CASE TextStep \/ BeginQuiesce \/ QuiesceStep \/ QuiesceTimesOut \/ UNCHANGED logVars
  <2>1. UNCHANGED <<at, tries, refs, durable, item, log>>
    BY <1>1 DEF TextStep, BeginQuiesce, QuiesceStep, QuiesceTimesOut, TextReceive, TextTimesOut, TextLooks,
       TextEnds, SignalStop, LookAtLeases, LookAtWorkers, Wake, logVars, calls, queues, workers
  <2>2. \A d : WorkerUses(d)' <=> WorkerUses(d)
    BY <2>1, WorkerStays
  <2>3. QED BY <2>1, <2>2, RequestTypes DEF RequestsAreOwned, Requests, CallerUses, InOnePlace
<1>2. QED BY <1>1, CallerRequests, SendRequests, WorkerRequests DEF EventLogNext

-----------------------------------------------------------------------------
(* The stop *)

\* The quiescer goes past the leases only when there are none.
LEMMA NobodyInside ==
    ASSUME LogInv, ops = 0 PROVE Inside = {}
BY InsideIsFinite, FS_EmptySet DEF LogInv, Leases

LEMMA StepFence ==
    ASSUME LogInv, [EventLogNext]_logVars
    PROVE  Fence'
<1> USE DEF Fence
<1>0. Fence /\ at \in [Calls -> Places]
  BY DEF LogInv, EventLogTypeOK
<1>1. ASSUME NEW c \in Calls, CallerStep(c) \/ AckTimesOut(c) PROVE Fence'
  <2>1. UNCHANGED <<life, quiescer>>
    BY <1>1 DEF CallerStep, AckTimesOut, Load, Count, Admit, SendOrRead, SendDurable, LeaveSent,
       LeaveUnsent, TakeAck, quiesce
  <2>2. PICK place \in Places : Goes(c, place)
    BY <1>1 DEF CallerStep, AckTimesOut, Load, Count, Admit, Recheck, SendOrRead, SendDurable, LeaveSent,
       LeaveUnsent, TakeAck, Places
  <2>3. place \in {"admitted", "sent", "unsent"} => at[c] = "admitted" \/ life = "open"
    <3>1. CASE Load(c) \/ Count(c) \/ LeaveSent(c) \/ LeaveUnsent(c) \/ TakeAck(c) \/ AckTimesOut(c)
      BY <1>0, <2>2, <3>1 DEF Load, Count, LeaveSent, LeaveUnsent, TakeAck, AckTimesOut, Goes
    <3>2. CASE Admit(c)
      BY <1>0, <2>2, <3>2 DEF Admit, Recheck, Goes
    <3>3. CASE SendOrRead(c) \/ SendDurable(c)
      BY <3>3 DEF SendOrRead, SendDurable
    <3>4. QED BY <1>1, <3>1, <3>2, <3>3 DEF CallerStep
  <2>4. QED BY <1>0, <2>1, <2>2, <2>3 DEF Goes
<1>2. CASE LogStep \/ TextStep \/ UNCHANGED logVars
  <2>1. UNCHANGED <<life, quiescer, at>>
    BY <1>2 DEF LogStep, TextStep, BeginTurn, Persist, WritePlain, NothingQueued, TestStop, CloseFile,
       TextReceive, TextTimesOut, TextLooks, TextEnds, ReleaseRequest, logVars, calls, quiesce
  <2>2. QED BY <1>0, <2>1
<1>3. CASE BeginQuiesce
  BY <1>0, <1>3 DEF BeginQuiesce, calls
<1>4. CASE LookAtLeases
  <2>1. CASE ops = 0
    <3>1. \A c \in Calls : at[c] \notin {"admitted", "sent", "unsent"}
      BY <2>1, NobodyInside DEF Inside
    <3>2. QED BY <1>0, <1>4, <3>1 DEF LookAtLeases, calls
  <2>2. CASE ops # 0
    BY <1>0, <1>4, <2>2 DEF LookAtLeases, calls
  <2>3. QED BY <2>1, <2>2
<1>5. CASE SignalStop \/ LookAtWorkers \/ Wake \/ QuiesceTimesOut
  BY <1>0, <1>5 DEF SignalStop, LookAtWorkers, Wake, QuiesceTimesOut, calls
<1>6. QED BY <1>1, <1>2, <1>3, <1>4, <1>5 DEF EventLogNext, QuiesceStep

LEMMA StepEnds ==
    ASSUME LogInv, [EventLogNext]_logVars
    PROVE  Ends'
<1> USE DEF Ends
<1>0. /\ Ends /\ (quiescer # "idle" => life = "closing")
      /\ {projected} \subseteq 0 .. QueueLength /\ {logDone, textDone, file} \subseteq BOOLEAN
  BY DEF LogInv, EventLogTypeOK, Fence
<1>1. ASSUME NEW c \in Calls, CallerStep(c) \/ AckTimesOut(c) PROVE Ends'
  <2>1. UNCHANGED <<workers, projected, life>>
    BY <1>1 DEF CallerStep, AckTimesOut, Load, Count, Admit, SendOrRead, SendDurable, LeaveSent,
       LeaveUnsent, TakeAck, quiesce, queues
  <2>2. QED BY <1>0, <2>1 DEF workers
<1>2. CASE LogStep
  <2>1. ~logDone /\ ~textDone /\ text \notin {"recheck", "gone", "leave"} /\ life # "closed"
    BY <1>0, <1>2 DEF LogStep, BeginTurn, Persist, WritePlain, NothingQueued, TestStop, CloseFile,
       ReleaseRequest
  <2>2. UNCHANGED <<text, textDone, life>>
    BY <1>2 DEF LogStep, BeginTurn, Persist, WritePlain, NothingQueued, TestStop, CloseFile,
       ReleaseRequest, quiesce
  <2>3. (log' = "gone" <=> logDone') /\ (logDone' => ~file')
    <3>1. CASE CloseFile
      BY <3>1 DEF CloseFile
    <3>2. CASE BeginTurn \/ Persist \/ WritePlain \/ NothingQueued \/ TestStop \/ ReleaseRequest
      BY <1>0, <2>1, <3>2 DEF BeginTurn, Persist, WritePlain, NothingQueued, TestStop, ReleaseRequest
    <3>3. QED BY <1>2, <3>1, <3>2 DEF LogStep
  <2>4. QED BY <2>1, <2>2, <2>3
<1>3. CASE TextStep
  <2>1. CASE TextReceive
    BY <1>0, <2>1 DEF TextReceive, quiesce
  <2>2. CASE TextTimesOut
    BY <1>0, <2>2 DEF TextTimesOut, quiesce, queues
  <2>3. CASE TextLooks
    BY <1>0, <2>3 DEF TextLooks, AfterLook, quiesce, queues
  <2>4. CASE TextEnds
    BY <1>0, <2>4 DEF TextEnds, quiesce, queues
  <2>5. QED BY <1>3, <2>1, <2>2, <2>3, <2>4 DEF TextStep
<1>4. CASE BeginQuiesce \/ QuiesceStep \/ QuiesceTimesOut \/ UNCHANGED logVars
  <2>1. UNCHANGED <<workers, projected>>
    BY <1>4 DEF BeginQuiesce, QuiesceStep, QuiesceTimesOut, SignalStop, LookAtLeases, LookAtWorkers, Wake,
       logVars, queues
  <2>2. life' = "closed" => logDone /\ textDone
    BY <1>0, <1>4 DEF BeginQuiesce, QuiesceStep, QuiesceTimesOut, SignalStop, LookAtLeases, LookAtWorkers,
       Wake, WorkersDone, logVars, quiesce
  <2>3. QED BY <1>0, <2>1, <2>2 DEF workers
<1>5. QED BY <1>1, <1>2, <1>3, <1>4 DEF EventLogNext

-----------------------------------------------------------------------------
(* The types *)

\* The limits as the steps need them.
LEMMA Limits ==
    /\ QueueLength \in Nat /\ QueueLength > 0 /\ DurableLength \in Nat /\ DurableLength > 0
    /\ Attempts \in Nat /\ Attempts > 0
OBVIOUS

\* The parts of the type invariant.
CallTypes ==
    /\ at \in [Calls -> Places] /\ tries \in [Durable -> 0 .. Attempts]
    /\ refs \in [Durable -> Nat] /\ acked \in [Durable -> BOOLEAN]
QueueTypes ==
    /\ queued \in 0 .. QueueLength /\ projected \in 0 .. QueueLength /\ durable \in Seq(Durable)
WorkerTypes ==
    /\ stop \in BOOLEAN /\ failed \in BOOLEAN /\ changed \in BOOLEAN
    /\ logDone \in BOOLEAN /\ textDone \in BOOLEAN /\ file \in BOOLEAN
    /\ log \in {"turn", "persist", "release", "plain", "stop", "close", "gone"}
    /\ item \in Durable \cup {None}
    /\ text \in {"receive", "look", "recheck", "leave", "gone"}
StopTypes ==
    /\ life \in {"open", "closing", "closed"}
    /\ quiescer \in {"idle", "signal", "leases", "workers", "wait"}

LEMMA TypeParts == EventLogTypeOK <=> CallTypes /\ QueueTypes /\ WorkerTypes /\ StopTypes /\ ops \in Nat
BY DEF EventLogTypeOK, CallTypes, QueueTypes, WorkerTypes, StopTypes

\* Who gives a reference back has one.
LEMMA References ==
    ASSUME LogInv, NEW c \in Durable, CallerUses(c) \/ WorkerUses(c)
    PROVE  refs[c] - 1 \in Nat
<1>1. refs[c] = (IF CallerUses(c) THEN 1 ELSE 0) + (IF WorkerUses(c) THEN 1 ELSE 0)
  BY RequestTypes DEF RequestsAreOwned
<1>2. QED BY <1>1

LEMMA StepCallTypes ==
    ASSUME LogInv, [EventLogNext]_logVars
    PROVE  CallTypes'
<1> USE DEF CallTypes
<1>0. CallTypes
  BY TypeParts DEF LogInv
<1>1. ASSUME NEW c \in Calls, CallerStep(c) \/ AckTimesOut(c) PROVE CallTypes'
  <2>1. at' \in [Calls -> Places]
    <3>1. PICK place \in Places : Goes(c, place)
      BY <1>1 DEF CallerStep, AckTimesOut, Load, Count, Admit, Recheck, SendOrRead, SendDurable, LeaveSent,
         LeaveUnsent, TakeAck, Places
    <3>2. QED BY <1>0, <3>1 DEF Goes
  <2>2. tries' \in [Durable -> 0 .. Attempts]
    <3>1. CASE LeaveUnsent(c)
      <4>1. c \in Durable /\ tries[c] \in 0 .. Attempts /\ tries[c] < Attempts
        BY <3>1, RequestTypes DEF LeaveUnsent, Requests
      <4>2. tries[c] + 1 \in 0 .. Attempts
        BY <4>1, Limits
      <4>3. QED BY <1>0, <3>1, <4>1, <4>2 DEF LeaveUnsent
    <3>2. CASE UNCHANGED tries
      BY <1>0, <3>2
    <3>3. QED BY <1>1, <3>1, <3>2 DEF CallerStep, AckTimesOut, Load, Count, Admit, SendOrRead, SendDurable,
          LeaveSent, TakeAck
  <2>3. refs' \in [Durable -> Nat]
    <3>1. CASE refs' = Unreferenced(c) /\ c \in Durable /\ CallerUses(c)
      <4>1. refs[c] - 1 \in Nat
        BY <3>1, References
      <4>2. QED BY <1>0, <3>1, <4>1 DEF Unreferenced
    <3>2. CASE refs' \in {refs, [refs EXCEPT ![c] = 1], [refs EXCEPT ![c] = 2]}
      BY <1>0, <3>2
    <3>3. CASE Load(c)
      BY <3>1, <3>2, <3>3, RequestTypes DEF Load, CallerUses, Requests
    <3>4. CASE Admit(c)
      BY <3>1, <3>2, <3>4 DEF Admit, Recheck, CallerUses
    <3>5. CASE LeaveUnsent(c)
      BY <3>1, <3>2, <3>5, RequestTypes DEF LeaveUnsent, CallerUses, Requests
    <3>6. CASE TakeAck(c) \/ AckTimesOut(c)
      BY <3>1, <3>6 DEF TakeAck, AckTimesOut, CallerUses
    <3>7. CASE Count(c) \/ SendOrRead(c) \/ SendDurable(c) \/ LeaveSent(c)
      BY <3>2, <3>7 DEF Count, SendOrRead, SendDurable, LeaveSent, Shared
    <3>8. QED BY <1>1, <3>3, <3>4, <3>5, <3>6, <3>7 DEF CallerStep
  <2>4. acked' \in [Durable -> BOOLEAN]
    <3>1. acked' \in {acked, [acked EXCEPT ![c] = FALSE]}
      BY <1>1 DEF CallerStep, AckTimesOut, Load, Count, Admit, SendOrRead, SendDurable, LeaveSent,
         LeaveUnsent, TakeAck
    <3>2. QED BY <1>0, <3>1
  <2>5. QED BY <2>1, <2>2, <2>3, <2>4
<1>2. CASE Persist
  BY <1>0, <1>2 DEF Persist
<1>3. CASE ReleaseRequest
  <2>1. item \in Durable /\ WorkerUses(item)
    BY <1>3, RequestTypes DEF ReleaseRequest, InOnePlace, WorkerUses
  <2>2. refs[item] - 1 \in Nat
    BY <2>1, References
  <2>3. QED BY <1>0, <1>3, <2>1, <2>2 DEF ReleaseRequest, Unreferenced
<1>4. CASE \/ BeginTurn \/ WritePlain \/ NothingQueued \/ TestStop \/ CloseFile \/ TextStep
           \/ BeginQuiesce \/ QuiesceStep \/ QuiesceTimesOut \/ UNCHANGED logVars
  <2>1. UNCHANGED calls
    BY <1>4 DEF BeginTurn, WritePlain, NothingQueued, TestStop, CloseFile, TextStep, TextReceive,
       TextTimesOut, TextLooks, TextEnds, BeginQuiesce, QuiesceStep, QuiesceTimesOut, SignalStop,
       LookAtLeases, LookAtWorkers, Wake, logVars
  <2>2. QED BY <1>0, <2>1 DEF calls
<1>5. QED BY <1>1, <1>2, <1>3, <1>4 DEF EventLogNext, LogStep

LEMMA StepQueueTypes ==
    ASSUME LogInv, [EventLogNext]_logVars
    PROVE  QueueTypes'
<1> USE DEF QueueTypes
<1>0. QueueTypes
  BY TypeParts DEF LogInv
<1>1. queued' \in 0 .. QueueLength
  <2>1. CASE \E c \in Calls : SendOrRead(c)
    BY <1>0, <2>1, Limits DEF SendOrRead
  <2>2. CASE WritePlain
    BY <1>0, <2>2, Limits DEF WritePlain
  <2>3. CASE UNCHANGED queued
    BY <1>0, <2>3
  <2>4. QED BY <2>1, <2>2, <2>3 DEF EventLogNext, CallerStep, AckTimesOut, Load, Count, Admit, SendDurable,
        LeaveSent, LeaveUnsent, TakeAck, LogStep, TextStep, BeginTurn, Persist, NothingQueued, TestStop,
        CloseFile, ReleaseRequest, TextReceive, TextTimesOut, TextLooks, TextEnds, BeginQuiesce, QuiesceStep,
        QuiesceTimesOut, SignalStop, LookAtLeases, LookAtWorkers, Wake, logVars, queues
<1>2. projected' \in 0 .. QueueLength
  <2>1. CASE Project
    BY <1>0, <2>1, Limits DEF Project
  <2>2. CASE TextReceive
    BY <1>0, <2>2, Limits DEF TextReceive
  <2>3. CASE UNCHANGED projected
    BY <1>0, <2>3
  <2>4. QED BY <2>1, <2>2, <2>3 DEF EventLogNext, CallerStep, AckTimesOut, Load, Count, Admit, SendOrRead,
        SendDurable, LeaveSent, LeaveUnsent, TakeAck, LogStep, TextStep, BeginTurn, Persist, WritePlain,
        NothingQueued, TestStop, CloseFile, ReleaseRequest, TextTimesOut, TextLooks, TextEnds, BeginQuiesce,
        QuiesceStep, QuiesceTimesOut, SignalStop, LookAtLeases, LookAtWorkers, Wake, logVars, queues
<1>3. durable' \in Seq(Durable)
  <2>1. CASE \E c \in Calls : SendDurable(c)
    BY <1>0, <2>1 DEF SendDurable
  <2>2. CASE BeginTurn
    <3>1. CASE durable # <<>> /\ durable' = Tail(durable)
      BY <1>0, <3>1
    <3>2. CASE UNCHANGED durable
      BY <1>0, <3>2
    <3>3. QED BY <2>2, <3>1, <3>2 DEF BeginTurn
  <2>3. CASE UNCHANGED durable
    BY <1>0, <2>3
  <2>4. QED BY <2>1, <2>2, <2>3 DEF EventLogNext, CallerStep, AckTimesOut, Load, Count, Admit, SendOrRead,
        LeaveSent, LeaveUnsent, TakeAck, LogStep, TextStep, Persist, WritePlain, NothingQueued, TestStop,
        CloseFile, ReleaseRequest, TextReceive, TextTimesOut, TextLooks, TextEnds, BeginQuiesce, QuiesceStep,
        QuiesceTimesOut, SignalStop, LookAtLeases, LookAtWorkers, Wake, logVars, queues
<1>4. QED BY <1>1, <1>2, <1>3

LEMMA StepWorkerTypes ==
    ASSUME LogInv, [EventLogNext]_logVars
    PROVE  WorkerTypes'
<1> USE DEF WorkerTypes
<1>0. WorkerTypes /\ durable \in Seq(Durable)
  BY TypeParts DEF LogInv, QueueTypes
<1>1. ASSUME NEW c \in Calls, CallerStep(c) \/ AckTimesOut(c) PROVE WorkerTypes'
  <2>1. UNCHANGED <<workers, quiesce>> /\ changed' \in BOOLEAN
    BY <1>0, <1>1 DEF CallerStep, AckTimesOut, Load, Count, Admit, Recheck, EndLease, SendOrRead,
       SendDurable, LeaveSent, LeaveUnsent, TakeAck
  <2>2. /\ file' = file /\ log' = log /\ item' = item /\ text' = text
        /\ logDone' = logDone /\ textDone' = textDone /\ failed' = failed /\ stop' = stop
    BY <2>1, Zenon DEF workers, quiesce
  <2>3. QED BY <1>0, <2>1, <2>2, Zenon
<1>2. CASE LogStep
  <2>1. CASE BeginTurn
    <3>1. file' \in BOOLEAN /\ failed' \in BOOLEAN
      BY <1>0, <2>1 DEF BeginTurn, OpenFile
    <3>2. item' \in Durable \cup {None}
      BY <1>0, <2>1 DEF BeginTurn
    <3>3. QED BY <1>0, <2>1, <3>1, <3>2 DEF BeginTurn, quiesce
  <2>2. CASE Persist
    BY <1>0, <2>2 DEF Persist, quiesce
  <2>3. CASE ReleaseRequest \/ NothingQueued \/ TestStop
    BY <1>0, <2>3 DEF ReleaseRequest, NothingQueued, TestStop, quiesce
  <2>4. CASE WritePlain \/ CloseFile
    BY <1>0, <2>4 DEF WritePlain, CloseFile, quiesce
  <2>5. QED BY <1>2, <2>1, <2>2, <2>3, <2>4 DEF LogStep
<1>3. CASE TextStep
  <2>1. UNCHANGED <<file, log, item, logDone, failed, stop>>
    BY <1>3 DEF TextStep, TextReceive, TextTimesOut, TextLooks, TextEnds, quiesce
  <2>2. text' \in {"receive", "look", "recheck", "leave", "gone"}
    BY <1>3 DEF TextStep, TextReceive, TextTimesOut, TextLooks, AfterLook, TextEnds
  <2>3. textDone' \in BOOLEAN /\ changed' \in BOOLEAN
    BY <1>0, <1>3 DEF TextStep, TextReceive, TextTimesOut, TextLooks, TextEnds
  <2>4. QED BY <1>0, <2>1, <2>2, <2>3, Zenon
<1>4. CASE BeginQuiesce \/ QuiesceStep \/ QuiesceTimesOut \/ UNCHANGED logVars
  <2>1. UNCHANGED workers /\ stop' \in {stop, TRUE} /\ changed' \in {changed, FALSE}
    BY <1>4 DEF BeginQuiesce, QuiesceStep, QuiesceTimesOut, SignalStop, LookAtLeases, LookAtWorkers,
       Wake, logVars, quiesce
  <2>2. stop' \in BOOLEAN /\ changed' \in BOOLEAN
    BY <1>0, <2>1, Zenon
  <2>3. /\ file' = file /\ log' = log /\ item' = item /\ text' = text
        /\ logDone' = logDone /\ textDone' = textDone /\ failed' = failed
    BY <2>1, Zenon DEF workers
  <2>4. QED BY <1>0, <2>2, <2>3, Zenon
<1>5. QED BY <1>1, <1>2, <1>3, <1>4 DEF EventLogNext

LEMMA StepStopTypes ==
    ASSUME LogInv, [EventLogNext]_logVars
    PROVE  StopTypes'
<1> USE DEF StopTypes
<1>0. StopTypes
  BY TypeParts DEF LogInv
<1>1. CASE BeginQuiesce \/ QuiesceStep \/ QuiesceTimesOut
  BY <1>0, <1>1 DEF BeginQuiesce, QuiesceStep, QuiesceTimesOut, SignalStop, LookAtLeases, LookAtWorkers, Wake
<1>2. CASE UNCHANGED quiesce
  BY <1>0, <1>2 DEF quiesce
<1>3. QED BY <1>1, <1>2 DEF EventLogNext, CallerStep, AckTimesOut, Load, Count, Admit, SendOrRead,
      SendDurable, LeaveSent, LeaveUnsent, TakeAck, LogStep, TextStep, BeginTurn, Persist, WritePlain,
      NothingQueued, TestStop, CloseFile, ReleaseRequest, TextReceive, TextTimesOut, TextLooks, TextEnds, logVars

-----------------------------------------------------------------------------
LEMMA StepIInv == LogInv /\ [EventLogNext]_logVars => LogInv'
<1> SUFFICES ASSUME LogInv, [EventLogNext]_logVars PROVE LogInv'
  OBVIOUS
<1>1. RequestsAreOwned' /\ Requests' /\ InOnePlace' /\ Leases' /\ Fence' /\ Ends'
  BY StepRequests, StepLeases, StepFence, StepEnds
<1>2. ops' \in Nat
  <2>1. Inside' \subseteq Calls
    BY DEF Inside
  <2>2. QED BY <1>1, <2>1, FS_Subset, FS_CardinalityType DEF Leases
<1>3. EventLogTypeOK'
  <2>1. CallTypes' /\ QueueTypes' /\ WorkerTypes' /\ StopTypes'
    BY StepCallTypes, StepQueueTypes, StepWorkerTypes, StepStopTypes
  <2>2. QED BY <1>2, <2>1 DEF EventLogTypeOK, CallTypes, QueueTypes, WorkerTypes, StopTypes
<1>4. QED BY <1>1, <1>3 DEF LogInv

LEMMA Invariance == LogSpec => []LogInv
<1>1. EventLogInit => LogInv
  BY InitIInv
<1>2. LogInv /\ [EventLogNext]_logVars => LogInv'
  BY StepIInv
<1>3. QED BY <1>1, <1>2, PTL DEF LogSpec

\* For any number of calls, lengths of the queues and attempts the log keeps its types:
\* the count of the leases never goes below zero, nor does that of the references.
THEOREM LogTypeCorrect == LogSpec => []EventLogTypeOK
<1>1. LogInv => EventLogTypeOK
  BY DEF LogInv
<1>2. QED BY <1>1, Invariance, PTL

\* A request of a durable event has exactly the references of those that use it, so
\* that the later of caller and worker deletes it (release_durable_request()).
THEOREM RequestsAreNeitherLostNorShared == LogSpec => []RequestsAreOwned
<1>1. LogInv => RequestsAreOwned
  BY DEF LogInv
<1>2. QED BY <1>1, Invariance, PTL

\* A closed log is at rest: no caller is admitted, no worker is left and no file is
\* open, although a late caller may still count itself (event_log_quiesce()).
THEOREM ClosedIsAtRest == LogSpec => []NothingAfterClosed
<1>1. LogInv => NothingAfterClosed
  BY DEF LogInv, Fence, Ends, NothingAfterClosed
<1>2. QED BY <1>1, Invariance, PTL

\* A closed log has nothing left to project (text_log_task()).
THEOREM ClosedIsProjected == LogSpec => []ProjectionIsDrained
<1>1. LogInv => ProjectionIsDrained
  BY DEF LogInv, Ends, ProjectionIsDrained
<1>2. QED BY <1>1, Invariance, PTL
=============================================================================
