---------------------------- MODULE RadioProofs ----------------------------
(***************************************************************************)
(* The Wi-Fi manager's worker and the coordinator it drives, for every     *)
(* length of the two queues and every reserve of at least four places; and *)
(* the Bluetooth searches, for any number of searches and windows and any  *)
(* length of their queues.                                                 *)
(***************************************************************************)
EXTENDS NetWorker, BleScan, FiniteSetTheorems, SequenceTheorems, WellFoundedInduction, TLAPS

-----------------------------------------------------------------------------
(* Induction: the least-number principle, and a function by recursion.     *)

\* A set of natural numbers that is not empty has a least member.
LEMMA Least ==
    ASSUME NEW T \in SUBSET Nat, NEW n \in T
    PROVE  \E m \in T : \A k \in T : m <= k
<1> DEFINE R == OpToRel(<, Nat)
<1>1. IsWellFoundedOn(R, Nat)
    BY NatLessThanWellFounded, Zenon
<1>2. \A x, y \in Nat : <<x, y>> \in R <=> x < y
    BY DEF OpToRel
<1> HIDE DEF R
<1>3. PICK x \in T : \A y \in T : ~(<<y, x>> \in R)
    BY <1>1, WFMin
<1>4. x \in Nat /\ \A y \in T : y \in Nat
    OBVIOUS
<1>5. \A y \in T : ~(y < x)
    BY <1>2, <1>3, <1>4
<1>6. \A y \in T : x <= y
    BY <1>4, <1>5
<1>7. QED
    BY <1>6

-----------------------------------------------------------------------------
(* The worker of the Wi-Fi manager.                                        *)

Critical == {"CANCEL_CONNECT", "WIFI_DISCONNECT"}
Ordinary == {"RUN_SCAN", "RUN_RETRY", "SSH_OFFLINE"}

\* How many of one thing are there, for the arithmetic on the queue's length.
OneIf(b) == IF b THEN 1 ELSE 0

\* No teardown was begun, and what is not critical stays below the reserve.
Calm(k) ==
    /\ k \in [phase : {"OFFLINE", "CONNECTING", "ONLINE", "OFFLINE_ERROR"}, active : {TRUE},
              queue : Seq(Critical \cup Ordinary), sink : BOOLEAN]
    /\ Len(k.queue) <= (Capacity - CriticalReserve) + OneIf(C!Pending(k, "CANCEL_CONNECT"))
                         + OneIf(C!Pending(k, "WIFI_DISCONNECT"))

WorkerTypes ==
    /\ sessions \in Seq(SessionEvents) /\ Len(sessions) <= SessionQueueLength
    /\ flags \in [retry : BOOLEAN, scan : BOOLEAN, timeout : BOOLEAN, cancel : BOOLEAN, disconnect : BOOLEAN]
    /\ wifi \in [enabled : BOOLEAN, saved : BOOLEAN, connected : BOOLEAN, ip : BOOLEAN,
                 manual : BOOLEAN, suppress : BOOLEAN]
    /\ armed \in [retry : BOOLEAN, scan : BOOLEAN, timeout : BOOLEAN]
    /\ worker \in {"loop", "join", "leave"} \cup Critical \cup Ordinary
    /\ user \in {"idle", "join", "cancel", "disabling", "disconnect"}
    /\ driver \in {"idle", "joining", "associated", "leaving"}
    /\ asked \in BOOLEAN

\* A radio that is off and has a network all the same was never on: no retry is under way.
NoRetryWhileOff ==
    ~wifi.enabled /\ user # "disabling" /\ wifi.saved =>
        ~C!Pending(coord, "RUN_RETRY") /\ worker # "RUN_RETRY"

\* The user's own commands join only with the radio on.
JoinsWhileOn == user = "join" => wifi.enabled

WorkerInv == Calm(coord) /\ WorkerTypes /\ NoRetryWhileOff /\ JoinsWhileOn /\ OffIsCaughtUp

LEMMA RequestKeepsCalm ==
    ASSUME NEW k, Calm(k), NEW item \in Critical \cup Ordinary, NEW critical \in BOOLEAN,
           critical <=> item \in Critical
    PROVE  LET n == C!EnqueueOnce(k, item, critical) IN
             /\ Calm(n)
             /\ critical => C!Pending(n, item)
             /\ \A other \in Critical \cup Ordinary :
                  other # item => (C!Pending(n, other) <=> C!Pending(k, other))
<1> DEFINE n == C!EnqueueOnce(k, item, critical)
           a == [k EXCEPT !.queue = Append(k.queue, item)]
<1>1. k.queue \in Seq(Critical \cup Ordinary) /\ Len(k.queue) \in Nat
      /\ DOMAIN k.queue = 1 .. Len(k.queue)
    BY DEF Calm
<1>2. /\ Capacity \in Nat /\ CriticalReserve \in Nat
      /\ 4 <= CriticalReserve /\ CriticalReserve <= Capacity
    BY BoundsAssumption
<1>3. CASE C!Pending(k, item)
  <2>1. n = k
    BY <1>3 DEF C!EnqueueOnce
  <2>2. QED
    BY <1>3, <2>1
<1>4. CASE ~C!Pending(k, item) /\ ~C!HasRoom(k, critical)
  <2>1. n = k
    BY <1>4 DEF C!EnqueueOnce, C!Enqueue
  <2>2. CASE critical
    <3>1. Len(k.queue) <= Capacity - CriticalReserve + 1
      BY <1>1, <1>2, <1>4, <2>2 DEF Calm, OneIf, Critical
    <3>2. Len(k.queue) < Capacity
      BY <1>1, <1>2, <3>1
    <3>3. QED
      BY <1>4, <2>2, <3>2 DEF C!HasRoom
  <2>3. QED
    BY <2>1, <2>2
<1>5. CASE ~C!Pending(k, item) /\ C!HasRoom(k, critical)
  <2>1. n = a
    BY <1>5 DEF C!EnqueueOnce, C!Enqueue
  <2>0. Append(k.queue, item) \in Seq(Critical \cup Ordinary)
    BY <1>1
  <2>2. /\ a.queue = Append(k.queue, item)
        /\ a \in [phase : {"OFFLINE", "CONNECTING", "ONLINE", "OFFLINE_ERROR"}, active : {TRUE},
                  queue : Seq(Critical \cup Ordinary), sink : BOOLEAN]
    BY <1>1, <2>0 DEF Calm
  <2>3. /\ Len(a.queue) = Len(k.queue) + 1 /\ DOMAIN a.queue = 1 .. Len(k.queue) + 1
        /\ a.queue[Len(k.queue) + 1] = item
        /\ \A i \in 1 .. Len(k.queue) : a.queue[i] = k.queue[i]
    BY <1>1, <2>2
  <2>4. \A other : C!Pending(a, other) <=> C!Pending(k, other) \/ other = item
    <3>1. ASSUME NEW other PROVE C!Pending(a, other) => C!Pending(k, other) \/ other = item
      BY <1>1, <2>3 DEF C!Pending
    <3>2. ASSUME NEW other PROVE C!Pending(k, other) => C!Pending(a, other)
      BY <1>1, <2>3 DEF C!Pending
    <3>3. C!Pending(a, item)
      BY <1>1, <2>3 DEF C!Pending
    <3>4. QED
      BY <3>1, <3>2, <3>3
  <2>5. Len(a.queue) <= (Capacity - CriticalReserve) + OneIf(C!Pending(a, "CANCEL_CONNECT"))
                         + OneIf(C!Pending(a, "WIFI_DISCONNECT"))
    <3>1. CASE item \in Critical
      <4>1. Len(k.queue) <= (Capacity - CriticalReserve) + OneIf(C!Pending(k, "CANCEL_CONNECT"))
                              + OneIf(C!Pending(k, "WIFI_DISCONNECT"))
        BY DEF Calm
      <4>2. CASE item = "CANCEL_CONNECT"
        <5>1. /\ OneIf(C!Pending(k, "CANCEL_CONNECT")) = 0 /\ OneIf(C!Pending(a, "CANCEL_CONNECT")) = 1
              /\ OneIf(C!Pending(a, "WIFI_DISCONNECT")) = OneIf(C!Pending(k, "WIFI_DISCONNECT"))
              /\ OneIf(C!Pending(k, "WIFI_DISCONNECT")) \in Nat
          BY <1>5, <2>4, <4>2 DEF OneIf
        <5>2. QED
          BY <1>1, <1>2, <2>3, <4>1, <5>1
      <4>3. CASE item = "WIFI_DISCONNECT"
        <5>1. /\ OneIf(C!Pending(k, "WIFI_DISCONNECT")) = 0 /\ OneIf(C!Pending(a, "WIFI_DISCONNECT")) = 1
              /\ OneIf(C!Pending(a, "CANCEL_CONNECT")) = OneIf(C!Pending(k, "CANCEL_CONNECT"))
              /\ OneIf(C!Pending(k, "CANCEL_CONNECT")) \in Nat
          BY <1>5, <2>4, <4>3 DEF OneIf
        <5>2. QED
          BY <1>1, <1>2, <2>3, <4>1, <5>1
      <4>4. QED
        BY <3>1, <4>2, <4>3 DEF Critical
    <3>2. CASE item \in Ordinary
      <4>1. Len(k.queue) < Capacity - CriticalReserve
        BY <1>5, <3>2 DEF C!HasRoom, Ordinary, Critical
      <4>2. QED
        BY <1>1, <1>2, <2>3, <4>1 DEF OneIf
    <3>3. QED
      BY <3>1, <3>2
  <2>6. Calm(a)
    BY <2>2, <2>5 DEF Calm
  <2>7. QED
    BY <2>1, <2>4, <2>6
<1>6. QED
    BY <1>3, <1>4, <1>5

\* The four requests, as the callers make them.
LEMMA RequestWorkCalm ==
    ASSUME NEW k, Calm(k), NEW item \in Critical \cup Ordinary, NEW critical \in BOOLEAN,
           critical <=> item \in Critical
    PROVE  LET n == C!RequestWork(k, item, critical) IN
             /\ Calm(n)
             /\ critical => C!Pending(n, item)
             /\ \A other \in Critical \cup Ordinary :
                  other # item => (C!Pending(n, other) <=> C!Pending(k, other))
<1>1. C!AcceptsWork(k)
    BY DEF C!AcceptsWork, C!TearingDown, Calm
<1>2. C!RequestWork(k, item, critical) = C!EnqueueOnce(k, item, critical)
    BY <1>1 DEF C!RequestWork
<1>3. QED
    BY <1>2, RequestKeepsCalm

LEMMA PhaseKeepsCalm ==
    ASSUME NEW k, Calm(k), NEW phase \in {"CONNECTING", "ONLINE", "OFFLINE_ERROR"}
    PROVE  LET n == [k EXCEPT !.phase = phase] IN Calm(n) /\ n.queue = k.queue
<1> DEFINE n == [k EXCEPT !.phase = phase]
<1>1. n.queue = k.queue
    BY DEF Calm
<1>2. \A item : C!Pending(n, item) <=> C!Pending(k, item)
    BY <1>1 DEF C!Pending
<1>3. n \in [phase : {"OFFLINE", "CONNECTING", "ONLINE", "OFFLINE_ERROR"}, active : {TRUE},
             queue : Seq(Critical \cup Ordinary), sink : BOOLEAN]
    BY DEF Calm
<1>4. Len(n.queue) <= (Capacity - CriticalReserve) + OneIf(C!Pending(n, "CANCEL_CONNECT"))
                        + OneIf(C!Pending(n, "WIFI_DISCONNECT"))
  <2>1. Len(k.queue) <= (Capacity - CriticalReserve) + OneIf(C!Pending(k, "CANCEL_CONNECT"))
                          + OneIf(C!Pending(k, "WIFI_DISCONNECT"))
    BY DEF Calm
  <2>2. /\ OneIf(C!Pending(n, "CANCEL_CONNECT")) = OneIf(C!Pending(k, "CANCEL_CONNECT"))
        /\ OneIf(C!Pending(n, "WIFI_DISCONNECT")) = OneIf(C!Pending(k, "WIFI_DISCONNECT"))
    BY <1>2 DEF OneIf
  <2>3. QED
    BY <1>1, <2>1, <2>2
<1>5. QED
    BY <1>1, <1>3, <1>4 DEF Calm

\* What a session event does to the coordinator: it queues no retry, and no disconnect
\* that waits is lost.
LEMMA ApplyKeepsCalm ==
    ASSUME NEW k, Calm(k), NEW e \in SessionEvents
    PROVE  /\ Calm(Apply(k, e))
           /\ C!Pending(Apply(k, e), "RUN_RETRY") <=> C!Pending(k, "RUN_RETRY")
           /\ C!Pending(k, "WIFI_DISCONNECT") => C!Pending(Apply(k, e), "WIFI_DISCONNECT")
<1>1. e \in {"SESSION_CONNECTING", "SESSION_ONLINE", "SESSION_SOCKET_ERROR"}
    BY BoundsAssumption
<1>2. CASE e = "SESSION_CONNECTING"
  <2>1. Apply(k, e) = C!OnSessionConnecting(k)
    BY <1>2 DEF Apply
  <2>2. QED
    BY <2>1, PhaseKeepsCalm DEF C!OnSessionConnecting, C!Pending
<1>3. CASE e = "SESSION_ONLINE"
  <2>1. Apply(k, e) = C!OnSessionOnline(k)
    BY <1>3 DEF Apply
  <2>2. QED
    BY <2>1, PhaseKeepsCalm DEF C!OnSessionOnline, C!Pending
<1>4. CASE e = "SESSION_SOCKET_ERROR"
  <2> DEFINE n == [k EXCEPT !.phase = "OFFLINE_ERROR"]
  <2>1. Apply(k, e) = C!OnSocketError(k)
    BY <1>4 DEF Apply
  <2>2. Calm(n) /\ n.queue = k.queue
    BY PhaseKeepsCalm
  <2> HIDE DEF n
  <2>3. /\ Calm(C!EnqueueOnce(n, "SSH_OFFLINE", FALSE))
        /\ C!Pending(C!EnqueueOnce(n, "SSH_OFFLINE", FALSE), "RUN_RETRY") <=> C!Pending(n, "RUN_RETRY")
        /\ C!Pending(C!EnqueueOnce(n, "SSH_OFFLINE", FALSE), "WIFI_DISCONNECT") <=> C!Pending(n, "WIFI_DISCONNECT")
    BY <2>2, RequestKeepsCalm DEF Critical, Ordinary
  <2>4. /\ C!Pending(n, "RUN_RETRY") <=> C!Pending(k, "RUN_RETRY")
        /\ C!Pending(n, "WIFI_DISCONNECT") <=> C!Pending(k, "WIFI_DISCONNECT")
    BY <2>2 DEF C!Pending
  <2>5. Apply(k, e) = k \/ Apply(k, e) = C!EnqueueOnce(n, "SSH_OFFLINE", FALSE)
    BY <2>1 DEF C!OnSocketError, n
  <2>6. QED
    BY <2>3, <2>4, <2>5
<1>5. QED
    BY <1>1, <1>2, <1>3, <1>4

\* The recursion over the session events has a solution, so that told[] is one.
LEMMA ToldIsDefined ==
    ASSUME sessions \in Seq(SessionEvents)
    PROVE  told = [n \in 0 .. Len(sessions) |->
                     IF n = 0 THEN coord ELSE Apply(told[n - 1], sessions[n])]
<1>1. Len(sessions) \in Nat
    OBVIOUS
<1> DEFINE Fold(f, m) == f = [n \in 0 .. m |-> IF n = 0 THEN coord ELSE Apply(f[n - 1], sessions[n])]
           Without == {m \in 0 .. Len(sessions) : ~\E f : Fold(f, m)}
<1>2. Without = {}
  <2>1. SUFFICES ASSUME Without # {} PROVE FALSE
    OBVIOUS
  <2>2. Without \in SUBSET Nat
    BY <1>1
  <2>3. PICK m \in Without : \A k \in Without : m <= k
    BY <2>1, <2>2, Least
  <2>4. m \in 0 .. Len(sessions) /\ ~\E f : Fold(f, m)
    BY <2>3
  <2>5. CASE m = 0
    <3> DEFINE g == [n \in 0 .. 0 |-> coord]
    <3>1. Fold(g, 0)
      OBVIOUS
    <3>2. QED
      BY <2>4, <2>5, <3>1
  <2>6. CASE m # 0
    <3>1. m - 1 \in 0 .. Len(sessions) /\ m - 1 \notin Without
      <4>1. m \in Nat /\ m <= Len(sessions) /\ m - 1 \in 0 .. Len(sessions)
        BY <1>1, <2>4, <2>6
      <4>2. ~(m <= m - 1)
        BY <4>1
      <4>3. QED
        BY <2>3, <4>1, <4>2
    <3>2. PICK f : Fold(f, m - 1)
      BY <3>1
    <3> DEFINE g == [n \in 0 .. m |-> IF n = m THEN Apply(f[m - 1], sessions[m]) ELSE f[n]]
    <3>3. \A n \in 0 .. m - 1 : g[n] = f[n]
      BY <2>4
    <3>4. \A n \in 0 .. m : g[n] = IF n = 0 THEN coord ELSE Apply(g[n - 1], sessions[n])
      <4>1. ASSUME NEW n \in 0 .. m - 1
            PROVE  g[n] = IF n = 0 THEN coord ELSE Apply(g[n - 1], sessions[n])
        <5>1. f[n] = IF n = 0 THEN coord ELSE Apply(f[n - 1], sessions[n])
          BY <2>4, <3>2, <4>1
        <5>2. n # 0 => g[n - 1] = f[n - 1]
          BY <2>4, <3>3
        <5>3. QED
          BY <3>3, <5>1, <5>2
      <4>2. g[m] = Apply(g[m - 1], sessions[m])
        BY <2>4, <2>6, <3>3
      <4>3. \A n \in 0 .. m : n = m \/ n \in 0 .. m - 1
        BY <2>4
      <4> HIDE DEF g
      <4>4. QED
        BY <2>6, <4>1, <4>2, <4>3
    <3>5. Fold(g, m)
      BY <3>4
    <3>6. QED
      BY <2>4, <3>5
  <2>7. QED
    BY <2>5, <2>6
<1>3. PICK f : Fold(f, Len(sessions))
    BY <1>1, <1>2
<1>4. told = CHOOSE h : Fold(h, Len(sessions))
    BY DEF told
<1>5. Fold(told, Len(sessions))
    BY <1>3, <1>4
<1>6. QED
    BY <1>5

LEMMA ToldKeepsCalm ==
    ASSUME sessions \in Seq(SessionEvents), Calm(coord)
    PROVE  /\ Calm(told[Len(sessions)])
           /\ C!Pending(told[Len(sessions)], "RUN_RETRY") <=> C!Pending(coord, "RUN_RETRY")
           /\ C!Pending(coord, "WIFI_DISCONNECT") => C!Pending(told[Len(sessions)], "WIFI_DISCONNECT")
<1> DEFINE Like(k) == /\ Calm(k)
                      /\ C!Pending(k, "RUN_RETRY") <=> C!Pending(coord, "RUN_RETRY")
                      /\ C!Pending(coord, "WIFI_DISCONNECT") => C!Pending(k, "WIFI_DISCONNECT")
           Unlike == {n \in 0 .. Len(sessions) : ~Like(told[n])}
<1>1. Len(sessions) \in Nat /\ \A n \in 1 .. Len(sessions) : sessions[n] \in SessionEvents
    OBVIOUS
<1>2. \A n \in 0 .. Len(sessions) :
        told[n] = IF n = 0 THEN coord ELSE Apply(told[n - 1], sessions[n])
    BY ToldIsDefined
<1>3. Like(coord)
    OBVIOUS
<1>4. ASSUME NEW n \in 1 .. Len(sessions), Like(told[n - 1]) PROVE Like(told[n])
  <2>1. told[n] = Apply(told[n - 1], sessions[n]) /\ sessions[n] \in SessionEvents
    BY <1>1, <1>2
  <2>2. QED
    BY <1>4, <2>1, ApplyKeepsCalm
<1> HIDE DEF Like
<1>5. Unlike = {}
  <2>1. SUFFICES ASSUME Unlike # {} PROVE FALSE
    OBVIOUS
  <2>2. Unlike \in SUBSET Nat
    BY <1>1
  <2>3. PICK m \in Unlike : \A k \in Unlike : m <= k
    BY <2>1, <2>2, Least
  <2>4. m # 0
    BY <1>1, <1>2, <1>3, <2>3
  <2>5. m - 1 \in 0 .. Len(sessions) /\ m - 1 \notin Unlike /\ m \in 1 .. Len(sessions)
    BY <1>1, <2>3, <2>4
  <2>6. QED
    BY <1>4, <2>3, <2>5
<1>6. Like(told[Len(sessions)])
    BY <1>1, <1>5
<1>7. QED
    BY <1>6 DEF Like

\* One turn gathers what was asked for: each step of it is a request, or nothing.
LEMMA GatheredIsCalm ==
    ASSUME Calm(coord), WorkerTypes
    PROVE  /\ Calm(Gathered)
           /\ ~wifi.enabled => (C!Pending(Gathered, "RUN_RETRY") <=> C!Pending(coord, "RUN_RETRY"))
           /\ C!Pending(coord, "WIFI_DISCONNECT") => C!Pending(Gathered, "WIFI_DISCONNECT")
<1> DEFINE heard == told[Len(sessions)]
           retried == IF flags.retry
                      THEN C!OnRetryTimerTick(heard, wifi.enabled, wifi.saved, wifi.connected) ELSE heard
           scanned == IF flags.scan
                      THEN C!OnScanTimerTick(retried, wifi.enabled, wifi.saved, wifi.connected) ELSE retried
           cancelled == IF CancelWanted THEN C!RequestCancelConnect(scanned) ELSE scanned
           finally == IF flags.disconnect THEN C!RequestWifiDisconnect(cancelled) ELSE cancelled
           Retries(k) == C!Pending(k, "RUN_RETRY")
           Leaves(k) == C!Pending(k, "WIFI_DISCONNECT")
<1>1. Calm(heard) /\ (Retries(heard) <=> Retries(coord)) /\ (Leaves(coord) => Leaves(heard))
    BY ToldKeepsCalm DEF WorkerTypes
<1>2. /\ Calm(retried) /\ (Leaves(coord) => Leaves(retried))
      /\ ~wifi.enabled => (Retries(retried) <=> Retries(coord))
  <2>1. retried = heard \/ (wifi.enabled /\ retried = C!RequestWork(heard, "RUN_RETRY", FALSE))
    BY DEF C!OnRetryTimerTick, C!RequestRetry
  <2> DEFINE n == C!RequestWork(heard, "RUN_RETRY", FALSE)
  <2>2. Calm(n) /\ (Leaves(n) <=> Leaves(heard))
    BY <1>1, RequestWorkCalm DEF Critical, Ordinary
  <2>3. QED
    BY <1>1, <2>1, <2>2
<1>3. /\ Calm(scanned) /\ (Leaves(coord) => Leaves(scanned))
      /\ ~wifi.enabled => (Retries(scanned) <=> Retries(coord))
  <2>1. scanned = retried \/ (wifi.enabled /\ scanned = C!RequestWork(retried, "RUN_SCAN", FALSE))
    BY DEF C!OnScanTimerTick, C!RequestScan
  <2> DEFINE n == C!RequestWork(retried, "RUN_SCAN", FALSE)
  <2>2. /\ Calm(n)
        /\ \A other \in Critical \cup Ordinary :
               other # "RUN_SCAN" => (C!Pending(n, other) <=> C!Pending(retried, other))
    BY <1>2, RequestWorkCalm DEF Critical, Ordinary
  <2>3. (Retries(n) <=> Retries(retried)) /\ (Leaves(n) <=> Leaves(retried))
    BY <2>2 DEF Critical, Ordinary
  <2>4. QED
    BY <1>2, <2>1, <2>2, <2>3
<1>4. /\ Calm(cancelled) /\ (Leaves(coord) => Leaves(cancelled))
      /\ ~wifi.enabled => (Retries(cancelled) <=> Retries(coord))
  <2>1. cancelled = scanned \/ cancelled = C!RequestWork(scanned, "CANCEL_CONNECT", TRUE)
    BY DEF C!RequestCancelConnect
  <2> DEFINE n == C!RequestWork(scanned, "CANCEL_CONNECT", TRUE)
  <2>2. /\ Calm(n)
        /\ \A other \in Critical \cup Ordinary :
               other # "CANCEL_CONNECT" => (C!Pending(n, other) <=> C!Pending(scanned, other))
    BY <1>3, RequestWorkCalm DEF Critical, Ordinary
  <2>3. (Retries(n) <=> Retries(scanned)) /\ (Leaves(n) <=> Leaves(scanned))
    BY <2>2 DEF Critical, Ordinary
  <2>4. QED
    BY <1>3, <2>1, <2>2, <2>3
<1>5. /\ Calm(finally) /\ (Leaves(coord) => Leaves(finally))
      /\ ~wifi.enabled => (Retries(finally) <=> Retries(coord))
  <2>1. finally = cancelled \/ finally = C!RequestWork(cancelled, "WIFI_DISCONNECT", TRUE)
    BY DEF C!RequestWifiDisconnect
  <2> DEFINE n == C!RequestWork(cancelled, "WIFI_DISCONNECT", TRUE)
  <2>2. Calm(n) /\ (Retries(n) <=> Retries(cancelled)) /\ Leaves(n)
    BY <1>4, RequestWorkCalm, ZenonT(60) DEF Critical, Ordinary
  <2>3. QED
    BY <1>4, <2>1, <2>2
<1>6. Gathered = finally
    BY DEF Gathered
<1>7. QED
    BY <1>5, <1>6

\* What the drain hands out, and leaves.
LEMMA DrainKeepsCalm ==
    ASSUME NEW k, Calm(k), k.queue # <<>>
    PROVE  /\ Calm(C!DrainPending(k))
           /\ Head(k.queue) \in Critical \cup Ordinary
           /\ C!Pending(k, Head(k.queue))
           /\ \A item : C!Pending(C!DrainPending(k), item) => C!Pending(k, item)
           /\ \A item : C!Pending(k, item) /\ item # Head(k.queue) => C!Pending(C!DrainPending(k), item)
<1> DEFINE n == [k EXCEPT !.queue = Tail(k.queue)]
<1>1. /\ k.queue \in Seq(Critical \cup Ordinary) /\ Len(k.queue) \in Nat /\ Len(k.queue) >= 1
      /\ DOMAIN k.queue = 1 .. Len(k.queue) /\ Head(k.queue) = k.queue[1]
    BY DEF Calm
<1>2. Head(k.queue) \in Critical \cup Ordinary /\ Tail(k.queue) \in Seq(Critical \cup Ordinary)
    BY <1>1
<1>3. C!DrainPending(k) = n
  <2>1. Head(k.queue) # "TEARDOWN_WIFI"
    BY <1>2 DEF Critical, Ordinary
  <2>2. QED
    BY <2>1 DEF C!DrainPending
<1>4. /\ n.queue = Tail(k.queue)
      /\ n \in [phase : {"OFFLINE", "CONNECTING", "ONLINE", "OFFLINE_ERROR"}, active : {TRUE},
                queue : Seq(Critical \cup Ordinary), sink : BOOLEAN]
    BY <1>2 DEF Calm
<1>5. /\ Len(n.queue) = Len(k.queue) - 1 /\ DOMAIN n.queue = 1 .. Len(k.queue) - 1
      /\ \A i \in 1 .. Len(k.queue) - 1 : n.queue[i] = k.queue[i + 1]
    BY <1>1, <1>4
<1>6. C!Pending(k, Head(k.queue))
    BY <1>1 DEF C!Pending
<1>7. \A item : C!Pending(n, item) => C!Pending(k, item)
    BY <1>1, <1>5 DEF C!Pending
<1>8. \A item : C!Pending(k, item) /\ item # Head(k.queue) => C!Pending(n, item)
  <2> SUFFICES ASSUME NEW item, NEW i \in DOMAIN k.queue, k.queue[i] = item, item # Head(k.queue)
               PROVE  C!Pending(n, item)
    BY DEF C!Pending
  <2>1. i - 1 \in 1 .. Len(k.queue) - 1 /\ (i - 1) + 1 = i
    BY <1>1
  <2>2. n.queue[i - 1] = item
    BY <1>5, <2>1
  <2>3. QED
    BY <1>5, <2>1, <2>2 DEF C!Pending
<1>9. Len(n.queue) <= (Capacity - CriticalReserve) + OneIf(C!Pending(n, "CANCEL_CONNECT"))
                        + OneIf(C!Pending(n, "WIFI_DISCONNECT"))
  <2> DEFINE before == OneIf(C!Pending(k, "CANCEL_CONNECT")) + OneIf(C!Pending(k, "WIFI_DISCONNECT"))
             after == OneIf(C!Pending(n, "CANCEL_CONNECT")) + OneIf(C!Pending(n, "WIFI_DISCONNECT"))
  <2>1. Len(k.queue) <= (Capacity - CriticalReserve) + before
    <3>1. Capacity - CriticalReserve \in Int
      BY BoundsAssumption
    <3>2. /\ OneIf(C!Pending(k, "CANCEL_CONNECT")) \in Nat
          /\ OneIf(C!Pending(k, "WIFI_DISCONNECT")) \in Nat
      BY DEF OneIf
    <3>3. Len(k.queue) <= (Capacity - CriticalReserve) + OneIf(C!Pending(k, "CANCEL_CONNECT"))
                            + OneIf(C!Pending(k, "WIFI_DISCONNECT"))
      BY DEF Calm
    <3>4. QED
      BY <1>1, <3>1, <3>2, <3>3
  <2>2. before <= after + 1 /\ before \in Nat /\ after \in Nat
    <3>1. /\ OneIf(C!Pending(k, "CANCEL_CONNECT")) \in {0, 1} /\ OneIf(C!Pending(n, "CANCEL_CONNECT")) \in {0, 1}
          /\ OneIf(C!Pending(k, "WIFI_DISCONNECT")) \in {0, 1} /\ OneIf(C!Pending(n, "WIFI_DISCONNECT")) \in {0, 1}
      BY DEF OneIf
    <3>2. \/ OneIf(C!Pending(k, "CANCEL_CONNECT")) <= OneIf(C!Pending(n, "CANCEL_CONNECT"))
          \/ Head(k.queue) = "CANCEL_CONNECT"
      BY <1>8 DEF OneIf
    <3>3. \/ OneIf(C!Pending(k, "WIFI_DISCONNECT")) <= OneIf(C!Pending(n, "WIFI_DISCONNECT"))
          \/ Head(k.queue) = "WIFI_DISCONNECT"
      BY <1>8 DEF OneIf
    <3>4. \/ OneIf(C!Pending(k, "CANCEL_CONNECT")) <= OneIf(C!Pending(n, "CANCEL_CONNECT"))
          \/ OneIf(C!Pending(k, "WIFI_DISCONNECT")) <= OneIf(C!Pending(n, "WIFI_DISCONNECT"))
      BY <3>2, <3>3
    <3> DEFINE kc == OneIf(C!Pending(k, "CANCEL_CONNECT"))
               kd == OneIf(C!Pending(k, "WIFI_DISCONNECT"))
               nc == OneIf(C!Pending(n, "CANCEL_CONNECT"))
               nd == OneIf(C!Pending(n, "WIFI_DISCONNECT"))
    <3>5. /\ kc \in Nat /\ kc <= 1 /\ kd \in Nat /\ kd <= 1 /\ nc \in Nat /\ nd \in Nat
          /\ kc <= nc \/ kd <= nd
      BY <3>1, <3>4
    <3> HIDE DEF kc, kd, nc, nd
    <3>6. kc + kd <= nc + nd + 1 /\ kc + kd \in Nat /\ nc + nd \in Nat
      BY <3>5
    <3>7. QED
      BY <3>6 DEF kc, kd, nc, nd
  <2>3. Capacity - CriticalReserve \in Nat
    BY BoundsAssumption
  <2> HIDE DEF before, after
  <2>4. Len(n.queue) <= (Capacity - CriticalReserve) + after
    BY <1>1, <1>5, <2>1, <2>2, <2>3
  <2>5. QED
    BY <1>5, <2>2, <2>3, <2>4, <1>1 DEF after, OneIf
<1>10. Calm(n)
    BY <1>4, <1>9 DEF Calm
<1>11. QED
    BY <1>2, <1>3, <1>6, <1>7, <1>8, <1>10

\* The coordinator stays calm; a retry gets into it only while the radio is on, and a
\* disconnect goes from it only into the worker's hands.
LEMMA CoordinatorStaysCalm ==
    ASSUME WorkerInv, Next
    PROVE  /\ Calm(coord)'
           /\ ~wifi.enabled /\ C!Pending(coord', "RUN_RETRY") => C!Pending(coord, "RUN_RETRY")
           /\ C!Pending(coord, "WIFI_DISCONNECT") =>
                  C!Pending(coord', "WIFI_DISCONNECT") \/ worker' = "WIFI_DISCONNECT"
<1>0. Calm(coord) /\ WorkerTypes
    BY DEF WorkerInv
<1>1. CASE StaStart
  <2>1. coord' \in {C!RequestWork(coord, "RUN_RETRY", FALSE), C!RequestWork(coord, "RUN_SCAN", FALSE)}
    BY <1>1 DEF StaStart, C!RequestRetry, C!RequestScan
  <2> DEFINE Fine(n) == Calm(n) /\ (C!Pending(n, "WIFI_DISCONNECT") <=> C!Pending(coord, "WIFI_DISCONNECT"))
  <2>2. Fine(C!RequestWork(coord, "RUN_RETRY", FALSE)) /\ Fine(C!RequestWork(coord, "RUN_SCAN", FALSE))
    BY <1>0, RequestWorkCalm DEF Critical, Ordinary
  <2>3. Calm(coord') /\ (C!Pending(coord', "WIFI_DISCONNECT") <=> C!Pending(coord, "WIFI_DISCONNECT"))
    BY <2>1, <2>2
  <2>4. QED
    BY <1>1, <2>3 DEF StaStart, Calm, C!Pending
<1>2. CASE SubmitCancel
  <2>1. coord' = C!RequestWork(coord, "CANCEL_CONNECT", TRUE)
    BY <1>2 DEF SubmitCancel, C!RequestCancelConnect
  <2>2. /\ Calm(coord') /\ (C!Pending(coord', "RUN_RETRY") => C!Pending(coord, "RUN_RETRY"))
        /\ C!Pending(coord', "WIFI_DISCONNECT") <=> C!Pending(coord, "WIFI_DISCONNECT")
    BY <1>0, <2>1, RequestWorkCalm DEF Critical, Ordinary
  <2>3. QED
    BY <2>2 DEF Calm, C!Pending
<1>3. CASE SubmitDisconnect
  <2>1. coord' = C!RequestWork(coord, "WIFI_DISCONNECT", TRUE)
    BY <1>3 DEF SubmitDisconnect, C!RequestWifiDisconnect
  <2>2. /\ Calm(coord') /\ (C!Pending(coord', "RUN_RETRY") => C!Pending(coord, "RUN_RETRY"))
        /\ C!Pending(coord', "WIFI_DISCONNECT")
    BY <1>0, <2>1, RequestWorkCalm DEF Critical, Ordinary
  <2>3. QED
    BY <2>2 DEF Calm, C!Pending
<1>4. CASE WorkerTurn
  <2>1. /\ Calm(Gathered)
        /\ ~wifi.enabled => (C!Pending(Gathered, "RUN_RETRY") <=> C!Pending(coord, "RUN_RETRY"))
        /\ C!Pending(coord, "WIFI_DISCONNECT") => C!Pending(Gathered, "WIFI_DISCONNECT")
    BY <1>0, GatheredIsCalm
  <2>2. \/ coord' = Gathered
        \/ /\ Gathered.queue # <<>> /\ coord' = C!DrainPending(Gathered)
           /\ Head(Gathered.queue) = "WIFI_DISCONNECT" => worker' = "WIFI_DISCONNECT"
    BY <1>4 DEF WorkerTurn, C!CanDrain
  <2>3. /\ Calm(coord')
        /\ C!Pending(coord', "RUN_RETRY") => C!Pending(Gathered, "RUN_RETRY")
        /\ C!Pending(Gathered, "WIFI_DISCONNECT") =>
               C!Pending(coord', "WIFI_DISCONNECT") \/ worker' = "WIFI_DISCONNECT"
    BY <2>1, <2>2, DrainKeepsCalm
  <2>4. QED
    BY <2>1, <2>3 DEF Calm, C!Pending
<1>5. CASE UNCHANGED coord
    BY <1>0, <1>5 DEF Calm, C!Pending
<1>6. QED
  <2>1. \/ StaStart \/ SubmitCancel \/ SubmitDisconnect \/ WorkerTurn \/ UNCHANGED coord
    BY DEF Next, WorkerStep, SessionEvent, StaConnected, GotIp, LostIp, StaDisconnected, RetryTimer,
           ScanTimer, ConnectTimeout, Connect, UserJoins, AskCancel, AskDisconnect, Disable, Enable,
           RunDisconnect, WorkerLeaves, RunRetry, WorkerJoins, RunOther
  <2>2. QED
    BY <1>1, <1>2, <1>3, <1>4, <1>5, <2>1

\* The worker takes in hand only what was in the queue.
LEMMA TurnTakesFromQueue ==
    ASSUME WorkerInv, WorkerTurn
    PROVE  /\ worker' \in {"loop"} \cup Critical \cup Ordinary
           /\ ~wifi.enabled /\ worker' = "RUN_RETRY" => C!Pending(coord, "RUN_RETRY")
<1>1. /\ Calm(Gathered)
      /\ ~wifi.enabled => (C!Pending(Gathered, "RUN_RETRY") <=> C!Pending(coord, "RUN_RETRY"))
    BY GatheredIsCalm DEF WorkerInv
<1>2. \/ worker' = "loop"
      \/ Gathered.queue # <<>> /\ worker' = Head(Gathered.queue)
    BY DEF WorkerTurn, C!CanDrain
<1>3. QED
    BY <1>1, <1>2, DrainKeepsCalm

LEMMA FlagsTyped ==
    ASSUME WorkerTypes, Next
    PROVE  flags' \in [retry : BOOLEAN, scan : BOOLEAN, timeout : BOOLEAN, cancel : BOOLEAN, disconnect : BOOLEAN]
<1> DEFINE F == [retry : BOOLEAN, scan : BOOLEAN, timeout : BOOLEAN, cancel : BOOLEAN, disconnect : BOOLEAN]
<1>0. flags \in F
    BY DEF WorkerTypes
<1>1. CASE WorkerTurn
  <2>1. /\ (CancelWanted /\ ~C!Pending(Gathered, "CANCEL_CONNECT")) \in BOOLEAN
        /\ (flags.disconnect /\ ~C!Pending(Gathered, "WIFI_DISCONNECT")) \in BOOLEAN
    OBVIOUS
  <2>2. QED
    BY <1>1, <2>1 DEF WorkerTurn
<1>2. CASE SubmitCancel
  <2>1. (flags.cancel /\ ~C!Pending(coord', "CANCEL_CONNECT")) \in BOOLEAN
    OBVIOUS
  <2>2. QED
    BY <1>0, <1>2, <2>1 DEF SubmitCancel
<1>3. CASE SubmitDisconnect
  <2>1. (flags.disconnect /\ ~C!Pending(coord', "WIFI_DISCONNECT")) \in BOOLEAN
    OBVIOUS
  <2>2. QED
    BY <1>0, <1>3, <2>1 DEF SubmitDisconnect
<1>4. CASE RetryTimer \/ ScanTimer \/ ConnectTimeout \/ AskCancel \/ AskDisconnect
    BY <1>0, <1>4 DEF RetryTimer, ScanTimer, ConnectTimeout, AskCancel, AskDisconnect
<1>5. CASE UNCHANGED flags
    BY <1>0, <1>5
<1>6. QED
  <2>1. \/ WorkerTurn \/ SubmitCancel \/ SubmitDisconnect
        \/ RetryTimer \/ ScanTimer \/ ConnectTimeout \/ AskCancel \/ AskDisconnect
        \/ UNCHANGED flags
    BY DEF Next, WorkerStep, SessionEvent, StaStart, StaConnected, GotIp, LostIp, StaDisconnected,
           Connect, UserJoins, Disable, Enable, RunDisconnect, WorkerLeaves, RunRetry, WorkerJoins, RunOther
  <2>2. QED
    BY <1>1, <1>2, <1>3, <1>4, <1>5, <2>1

LEMMA ViewTyped ==
    ASSUME WorkerTypes, Next
    PROVE  /\ wifi' \in [enabled : BOOLEAN, saved : BOOLEAN, connected : BOOLEAN, ip : BOOLEAN,
                         manual : BOOLEAN, suppress : BOOLEAN]
           /\ armed' \in [retry : BOOLEAN, scan : BOOLEAN, timeout : BOOLEAN]
<1> DEFINE W == [enabled : BOOLEAN, saved : BOOLEAN, connected : BOOLEAN, ip : BOOLEAN,
                 manual : BOOLEAN, suppress : BOOLEAN]
           A == [retry : BOOLEAN, scan : BOOLEAN, timeout : BOOLEAN]
<1>0. wifi \in W /\ armed \in A
    BY DEF WorkerTypes
<1>1. CASE StaDisconnected
  <2>1. (armed.retry \/ (wifi.enabled /\ ~wifi.manual /\ ~wifi.suppress /\ wifi.saved)) \in BOOLEAN
    OBVIOUS
  <2>2. QED
    BY <1>0, <1>1, <2>1 DEF StaDisconnected
<1>2. CASE Enable
    BY <1>0, <1>2 DEF Enable
<1>3. CASE SubmitDisconnect
    BY <1>0, <1>3 DEF SubmitDisconnect
<1>4. CASE StaConnected \/ GotIp \/ LostIp \/ Connect \/ Disable
    BY <1>0, <1>4 DEF StaConnected, GotIp, LostIp, Connect, Disable
<1>5. CASE RetryTimer \/ ConnectTimeout \/ AskDisconnect \/ RunDisconnect
    BY <1>0, <1>5 DEF RetryTimer, ConnectTimeout, AskDisconnect, RunDisconnect
<1>6. CASE UNCHANGED <<wifi, armed>>
    BY <1>0, <1>6
<1>7. QED
  <2>1. \/ StaDisconnected \/ Enable \/ SubmitDisconnect
        \/ StaConnected \/ GotIp \/ LostIp \/ Connect \/ Disable
        \/ RetryTimer \/ ConnectTimeout \/ AskDisconnect \/ RunDisconnect
        \/ UNCHANGED <<wifi, armed>>
    BY DEF Next, WorkerStep, SessionEvent, StaStart, ScanTimer, UserJoins, AskCancel, SubmitCancel,
           WorkerTurn, WorkerLeaves, RunRetry, WorkerJoins, RunOther
  <2>2. QED
    BY <1>1, <1>2, <1>3, <1>4, <1>5, <1>6, <2>1

LEMMA WorkerTypesKept ==
    ASSUME WorkerInv, Next
    PROVE  WorkerTypes'
<1>0. WorkerTypes
    BY DEF WorkerInv
<1>1. sessions' \in Seq(SessionEvents) /\ Len(sessions') <= SessionQueueLength
  <2>1. CASE \E e \in SessionEvents : SessionEvent(e)
    <3>1. PICK e \in SessionEvents : SessionEvent(e)
      BY <2>1
    <3>2. sessions' = Append(sessions, e) /\ Len(sessions) < SessionQueueLength
      BY <3>1 DEF SessionEvent
    <3>3. sessions \in Seq(SessionEvents) /\ SessionQueueLength \in Nat
      BY <1>0, BoundsAssumption DEF WorkerTypes
    <3>4. QED
      BY <3>2, <3>3
  <2>2. CASE WorkerTurn
    BY <2>2, BoundsAssumption DEF WorkerTurn
  <2>3. CASE UNCHANGED sessions
    BY <1>0, <2>3 DEF WorkerTypes
  <2>4. QED
    BY <2>1, <2>2, <2>3
       DEF Next, WorkerStep, StaStart, StaConnected, GotIp, LostIp, StaDisconnected, RetryTimer,
           ScanTimer, ConnectTimeout, Connect, UserJoins, AskCancel, SubmitCancel, AskDisconnect,
           SubmitDisconnect, Disable, Enable, RunDisconnect, WorkerLeaves, RunRetry, WorkerJoins, RunOther
<1>2. worker' \in {"loop", "join", "leave"} \cup Critical \cup Ordinary
  <2>1. CASE WorkerTurn
    BY <2>1, TurnTakesFromQueue
  <2>2. CASE RunDisconnect \/ WorkerLeaves \/ RunRetry \/ WorkerJoins \/ RunOther
    BY <2>2 DEF RunDisconnect, WorkerLeaves, RunRetry, WorkerJoins, RunOther
  <2>3. CASE UNCHANGED worker
    BY <1>0, <2>3 DEF WorkerTypes
  <2>4. QED
    BY <2>1, <2>2, <2>3
       DEF Next, WorkerStep, SessionEvent, StaStart, StaConnected, GotIp, LostIp, StaDisconnected,
           RetryTimer, ScanTimer, ConnectTimeout, Connect, UserJoins, AskCancel, SubmitCancel, AskDisconnect,
           SubmitDisconnect, Disable, Enable
<1>3. /\ user' \in {"idle", "join", "cancel", "disabling", "disconnect"}
      /\ asked' \in BOOLEAN
    BY <1>0 DEF WorkerTypes,
           Next, WorkerStep, SessionEvent, StaStart, StaConnected, GotIp, LostIp, StaDisconnected,
           RetryTimer, ScanTimer, ConnectTimeout, Connect, UserJoins, AskCancel, SubmitCancel, AskDisconnect,
           SubmitDisconnect, Disable, Enable, WorkerTurn, RunDisconnect, WorkerLeaves, RunRetry, WorkerJoins, RunOther
<1>4. driver' \in {"idle", "joining", "associated", "leaving"}
    BY <1>0 DEF WorkerTypes, Join,
           Next, WorkerStep, SessionEvent, StaStart, StaConnected, GotIp, LostIp, StaDisconnected,
           RetryTimer, ScanTimer, ConnectTimeout, Connect, UserJoins, AskCancel, SubmitCancel, AskDisconnect,
           SubmitDisconnect, Disable, Enable, WorkerTurn, RunDisconnect, WorkerLeaves, RunRetry, WorkerJoins, RunOther
<1>5. QED
    BY <1>0, <1>1, <1>2, <1>3, <1>4, FlagsTyped, ViewTyped DEF WorkerTypes

LEMMA NoRetryWhileOffKept ==
    ASSUME WorkerInv, Next
    PROVE  NoRetryWhileOff'
<1> SUFFICES ASSUME ~wifi'.enabled, user' # "disabling", wifi'.saved
             PROVE  ~C!Pending(coord', "RUN_RETRY") /\ worker' # "RUN_RETRY"
    BY DEF NoRetryWhileOff, C!Pending
<1>1. /\ wifi \in [enabled : BOOLEAN, saved : BOOLEAN, connected : BOOLEAN, ip : BOOLEAN,
                   manual : BOOLEAN, suppress : BOOLEAN]
      /\ NoRetryWhileOff
    BY DEF WorkerInv, WorkerTypes
<1>2. ~wifi.enabled /\ wifi.saved /\ user # "disabling"
  <2>1. CASE \/ StaConnected \/ GotIp \/ LostIp \/ StaDisconnected \/ Connect \/ AskDisconnect
             \/ SubmitDisconnect \/ Disable \/ Enable \/ RunDisconnect
    BY <1>1, <2>1 DEF StaConnected, GotIp, LostIp, StaDisconnected, Connect, AskDisconnect,
                      SubmitDisconnect, Disable, Enable, RunDisconnect
  <2>2. CASE UNCHANGED wifi /\ (UNCHANGED user \/ UserJoins \/ AskCancel \/ SubmitCancel)
    BY <2>2 DEF UserJoins, AskCancel, SubmitCancel
  <2>3. QED
    BY <2>1, <2>2
       DEF Next, WorkerStep, SessionEvent, StaStart, RetryTimer, ScanTimer, ConnectTimeout,
           UserJoins, AskCancel, SubmitCancel, WorkerTurn, WorkerLeaves, RunRetry, WorkerJoins, RunOther
<1>3. ~C!Pending(coord, "RUN_RETRY") /\ worker # "RUN_RETRY"
    BY <1>1, <1>2 DEF NoRetryWhileOff
<1>4. ~C!Pending(coord', "RUN_RETRY")
    BY <1>2, <1>3, CoordinatorStaysCalm
<1>5. worker' # "RUN_RETRY"
  <2>1. CASE WorkerTurn
    BY <1>2, <1>3, <2>1, TurnTakesFromQueue
  <2>2. CASE worker' \in {"loop", "join", "leave", worker}
    BY <1>3, <2>2
  <2>3. QED
    BY <2>1, <2>2
       DEF Next, WorkerStep, SessionEvent, StaStart, StaConnected, GotIp, LostIp, StaDisconnected,
           RetryTimer, ScanTimer, ConnectTimeout, Connect, UserJoins, AskCancel, SubmitCancel, AskDisconnect,
           SubmitDisconnect, Disable, Enable, RunDisconnect, WorkerLeaves, RunRetry, WorkerJoins, RunOther
<1>6. QED
    BY <1>4, <1>5

LEMMA WorkerInitiallyRight == Init => WorkerInv
<1> SUFFICES ASSUME Init PROVE WorkerInv
    OBVIOUS
<1>1. coord = [phase |-> "OFFLINE", active |-> TRUE, queue |-> <<>>, sink |-> TRUE]
    BY DEF Init, C!NewCoordinator
<1>2. Calm(coord)
  <2>1. coord.queue = <<>> /\ coord.queue \in Seq(Critical \cup Ordinary) /\ Len(coord.queue) = 0
    BY <1>1
  <2>2. /\ OneIf(C!Pending(coord, "CANCEL_CONNECT")) \in Nat
        /\ OneIf(C!Pending(coord, "WIFI_DISCONNECT")) \in Nat
        /\ Capacity - CriticalReserve \in Nat
    BY BoundsAssumption DEF OneIf
  <2>3. QED
    BY <1>1, <2>1, <2>2 DEF Calm
<1>3. PICK enabled \in BOOLEAN, saved \in BOOLEAN :
        /\ wifi = [enabled |-> enabled, saved |-> saved, connected |-> FALSE, ip |-> FALSE,
                   manual |-> FALSE, suppress |-> FALSE]
        /\ armed = [retry |-> FALSE, scan |-> enabled, timeout |-> FALSE]
    BY DEF Init
<1>4. WorkerTypes
    BY <1>3, BoundsAssumption DEF Init, WorkerTypes
<1>5. NoRetryWhileOff
    BY <1>1 DEF Init, NoRetryWhileOff, C!Pending
<1>6. JoinsWhileOn /\ OffIsCaughtUp
    BY DEF Init, JoinsWhileOn, OffIsCaughtUp, Joins
<1>7. QED
    BY <1>2, <1>4, <1>5, <1>6 DEF WorkerInv

(* What joins with the radio off, or is about to, is undone after each step. *)
LEMMA OffStaysCaughtUp ==
    ASSUME WorkerInv, Next
    PROVE  JoinsWhileOn' /\ OffIsCaughtUp'
<1>0. WorkerTypes /\ NoRetryWhileOff /\ JoinsWhileOn /\ OffIsCaughtUp
    BY DEF WorkerInv
<1>1. JoinsWhileOn'
  <2>1. CASE Connect \/ Disable \/ AskDisconnect \/ SubmitDisconnect \/ AskCancel \/ SubmitCancel \/ UserJoins
    BY <1>0, <2>1 DEF JoinsWhileOn, Connect, Disable, AskDisconnect, SubmitDisconnect, AskCancel,
                      SubmitCancel, UserJoins, WorkerTypes
  <2>2. CASE Enable
    BY <1>0, <2>2 DEF JoinsWhileOn, Enable, WorkerTypes
  <2>3. CASE user' = user /\ wifi'.enabled = wifi.enabled
    BY <1>0, <2>3 DEF JoinsWhileOn
  <2>4. CASE StaConnected \/ GotIp \/ LostIp \/ StaDisconnected \/ RunDisconnect
    BY <1>0, <2>3, <2>4 DEF StaConnected, GotIp, LostIp, StaDisconnected, RunDisconnect, WorkerTypes
  <2>5. QED
    BY <2>1, <2>2, <2>3, <2>4
       DEF Next, WorkerStep, SessionEvent, StaStart, RetryTimer, ScanTimer, ConnectTimeout,
           WorkerTurn, WorkerLeaves, RunRetry, WorkerJoins, RunOther
<1>2. OffIsCaughtUp'
  <2> SUFFICES ASSUME ~wifi'.enabled, Joins' PROVE DisconnectToCome'
      BY DEF OffIsCaughtUp
  <2>1. C!Pending(coord, "WIFI_DISCONNECT") =>
            C!Pending(coord, "WIFI_DISCONNECT")' \/ worker' = "WIFI_DISCONNECT"
    BY CoordinatorStaysCalm DEF C!Pending
  <2>2. CASE Disable \/ AskDisconnect \/ RunDisconnect
    BY <2>2 DEF Disable, AskDisconnect, RunDisconnect, DisconnectToCome
  <2>3. CASE SubmitDisconnect
    <3>1. coord' = C!RequestWork(coord, "WIFI_DISCONNECT", TRUE)
      BY <2>3 DEF SubmitDisconnect, C!RequestWifiDisconnect
    <3>2. C!Pending(coord', "WIFI_DISCONNECT")
      BY <3>1, RequestWorkCalm DEF WorkerInv, Critical, Ordinary
    <3>3. QED
      BY <3>2 DEF DisconnectToCome, C!Pending
  <2>4. CASE WorkerLeaves
    BY <2>4 DEF WorkerLeaves, Joins
  <2>5. CASE RunRetry
    <3>1. CASE wifi.saved
      <4>1. user = "disabling"
        BY <1>0, <2>5, <3>1 DEF RunRetry, NoRetryWhileOff
      <4>2. QED
        BY <2>5, <4>1 DEF RunRetry, DisconnectToCome
    <3>2. CASE ~wifi.saved
      <4>1. Joins /\ ~wifi.enabled
        BY <2>5, <3>2 DEF RunRetry, Joins
      <4>2. QED
        BY <1>0, <2>1, <2>5, <4>1 DEF RunRetry, OffIsCaughtUp, DisconnectToCome
    <3>3. QED
      BY <3>1, <3>2
  <2>6. CASE Enable \/ Connect \/ UserJoins
    <3>1. wifi'.enabled
      BY <1>0, <2>6 DEF Enable, Connect, UserJoins, JoinsWhileOn, WorkerTypes
    <3>2. QED
      BY <3>1
  <2>7. CASE WorkerTurn
    <3>1. worker = "loop" /\ UNCHANGED <<wifi, driver, user>> /\ worker' # "join"
      BY <2>7, TurnTakesFromQueue DEF WorkerTurn, Critical, Ordinary
    <3>2. QED
      BY <1>0, <2>1, <3>1 DEF OffIsCaughtUp, Joins, DisconnectToCome
  <2>8. CASE SubmitCancel
    <3>1. user = "cancel" /\ UNCHANGED <<wifi, driver, worker>>
      BY <2>8 DEF SubmitCancel
    <3>2. QED
      BY <1>0, <2>1, <3>1 DEF OffIsCaughtUp, Joins, DisconnectToCome
  <2>9. CASE /\ wifi'.enabled = wifi.enabled /\ (Joins' => Joins) /\ UNCHANGED coord
             /\ user \in {"disabling", "disconnect"} => user' = user
             /\ worker \in {"WIFI_DISCONNECT", "leave"} => worker' = worker
    BY <1>0, <2>9 DEF OffIsCaughtUp, DisconnectToCome, C!Pending
  <2>10. CASE StaConnected \/ GotIp \/ LostIp \/ StaDisconnected \/ WorkerJoins \/ RunOther \/ AskCancel
    BY <1>0, <2>9, <2>10 DEF StaConnected, GotIp, LostIp, StaDisconnected, WorkerJoins, RunOther,
                             AskCancel, Joins, WorkerTypes
  <2>11. CASE StaStart
    <3>1. wifi'.enabled
      BY <2>11 DEF StaStart
    <3>2. QED
      BY <3>1
  <2>12. CASE UNCHANGED <<coord, wifi, driver, user, worker>>
    BY <2>9, <2>12 DEF Joins
  <2>13. QED
    BY <2>2, <2>3, <2>4, <2>5, <2>6, <2>7, <2>8, <2>10, <2>11, <2>12
       DEF Next, WorkerStep, SessionEvent, RetryTimer, ScanTimer, ConnectTimeout
<1>3. QED
    BY <1>1, <1>2

LEMMA WorkerInvHolds == Spec => []WorkerInv
<1>1. WorkerInv /\ [Next]_vars => WorkerInv'
  <2> SUFFICES ASSUME WorkerInv, [Next]_vars PROVE WorkerInv'
    OBVIOUS
  <2>1. CASE Next
    BY <2>1, CoordinatorStaysCalm, WorkerTypesKept, NoRetryWhileOffKept, OffStaysCaughtUp DEF WorkerInv
  <2>2. CASE UNCHANGED vars
    <3>1. UNCHANGED <<coord, sessions, flags, wifi, armed, worker, user, driver, asked>>
      BY <2>2 DEF vars
    <3>2. Calm(coord)'
      BY <3>1 DEF WorkerInv, Calm, C!Pending
    <3>3. WorkerTypes'
      BY <3>1 DEF WorkerInv, WorkerTypes
    <3>4. NoRetryWhileOff'
      BY <3>1 DEF WorkerInv, NoRetryWhileOff, C!Pending
    <3>5. JoinsWhileOn' /\ OffIsCaughtUp'
      BY <3>1 DEF WorkerInv, JoinsWhileOn, OffIsCaughtUp, Joins, DisconnectToCome, C!Pending
    <3>6. QED
      BY <3>2, <3>3, <3>4, <3>5 DEF WorkerInv
  <2>3. QED
    BY <2>1, <2>2
<1>2. QED
    BY <1>1, WorkerInitiallyRight, PTL DEF Spec

\* The variables of the worker keep their type and the coordinator's queue its length; the
\* items of a teardown never come to this worker, which nobody asks for one.
THEOREM WorkerTypeCorrect == Spec => []TypeOK
<1>1. WorkerInv => TypeOK
  <2> SUFFICES ASSUME WorkerInv PROVE TypeOK
    OBVIOUS
  <2>1. coord.queue \in Seq(C!Items) /\ Critical \cup Ordinary \subseteq C!Items
    BY DEF WorkerInv, Calm, C!Items, Critical, Ordinary
  <2>2. coord \in C!Coordinators
    BY <2>1 DEF WorkerInv, Calm, C!Coordinators, C!Phases
  <2>3. Len(coord.queue) <= Capacity
    <3>1. /\ Capacity \in Nat /\ CriticalReserve \in Nat /\ 4 <= CriticalReserve
          /\ Len(coord.queue) \in Nat
      BY <2>1, BoundsAssumption
    <3>2. Len(coord.queue) <= (Capacity - CriticalReserve) + OneIf(C!Pending(coord, "CANCEL_CONNECT"))
                                + OneIf(C!Pending(coord, "WIFI_DISCONNECT"))
      BY DEF WorkerInv, Calm
    <3>3. QED
      BY <3>1, <3>2 DEF OneIf
  <2>4. QED
    BY <2>1, <2>2, <2>3 DEF WorkerInv, WorkerTypes, TypeOK
<1>2. QED
    BY <1>1, WorkerInvHolds, PTL

\* wifi_mgr_cancel_connection() and wifi_mgr_disconnect() find their place in the queue, for
\* any capacity with a reserve of four and any sequence of session events: the flag they
\* leave for the worker is never needed.
THEOREM CommandsFindTheirPlace == Spec => SubmissionSucceeds
<1> DEFINE Found == /\ user = "cancel" /\ user' = "idle" => C!Pending(coord', "CANCEL_CONNECT")
                    /\ user = "disconnect" /\ user' = "idle" => C!Pending(coord', "WIFI_DISCONNECT")
<1>1. WorkerInv /\ [Next]_vars => Found
  <2> SUFFICES ASSUME WorkerInv, [Next]_vars PROVE Found
    OBVIOUS
  <2>1. CASE SubmitCancel
    <3>1. coord' = C!RequestWork(coord, "CANCEL_CONNECT", TRUE) /\ user = "cancel"
      BY <2>1 DEF SubmitCancel, C!RequestCancelConnect
    <3>2. C!Pending(C!RequestWork(coord, "CANCEL_CONNECT", TRUE), "CANCEL_CONNECT")
      BY RequestWorkCalm DEF WorkerInv, Critical, Ordinary
    <3>3. QED
      BY <3>1, <3>2
  <2>2. CASE SubmitDisconnect
    <3>1. coord' = C!RequestWork(coord, "WIFI_DISCONNECT", TRUE) /\ user = "disconnect"
      BY <2>2 DEF SubmitDisconnect, C!RequestWifiDisconnect
    <3>2. C!Pending(C!RequestWork(coord, "WIFI_DISCONNECT", TRUE), "WIFI_DISCONNECT")
      BY RequestWorkCalm DEF WorkerInv, Critical, Ordinary
    <3>3. QED
      BY <3>1, <3>2
  <2>3. CASE UNCHANGED user \/ UserJoins \/ AskCancel \/ AskDisconnect \/ Disable \/ Connect \/ Enable
    BY <2>3 DEF UserJoins, AskCancel, AskDisconnect, Disable, Connect, Enable
  <2>4. QED
    BY <2>1, <2>2, <2>3
       DEF vars, Next, WorkerStep, SessionEvent, StaStart, StaConnected, GotIp, LostIp,
           StaDisconnected, RetryTimer, ScanTimer, ConnectTimeout, WorkerTurn, RunDisconnect, WorkerLeaves, RunRetry, WorkerJoins, RunOther
<1>2. QED
    BY <1>1, WorkerInvHolds, PTL DEF Spec, SubmissionSucceeds

(* Wherever a retry was when the radio was switched off, the join that it  *)
(* may still make is followed by a disconnect, and so is an association    *)
(* that was there: for any lengths of the queues and any commands.         *)
THEOREM JoinsAreUndone == Spec => []OffIsCaughtUp
<1>1. WorkerInv => OffIsCaughtUp
    BY DEF WorkerInv
<1>2. QED
    BY <1>1, WorkerInvHolds, PTL

-----------------------------------------------------------------------------
(* The Bluetooth searches: the invariant *)

\* A window whose token is used was opened; what is heard of a search is true, or comes
\* from a window that the pointer makes its namesake.
Opened(t) == t >= Base => t <= window
Heard(t) == t \in 1 .. Searches => t \in over \/ Mistakable(t)

(* What the manager and the host know of windows are windows that were opened. *)
AllOpened ==
    /\ \A i \in 1 .. Len(commands) : commands[i].kind = "start" => Opened(commands[i].token)
    /\ cmd.kind = "start" => Opened(cmd.token)
    /\ Opened(scan.token) /\ Opened(scan.queued)
    /\ \A i \in 1 .. Len(due) : Opened(due[i])

(* A discovery under way is the one the manager knows of; what was, is over; *)
(* and what was told of the end of a search is heard.                        *)
OverInTime ==
    /\ gap # 0 => gap = scan.token
    /\ gap = 0 /\ scan.token \in 1 .. Searches => scan.token \in over
    /\ \A i \in 1 .. Len(due) : due[i] \in 1 .. Searches => due[i] \in over
    /\ Heard(terminal)
    /\ \A i \in 1 .. Len(events) : events[i].kind = "finished" => Heard(events[i].token)

Scan == [token : Tokens \cup {0}, cancelling : BOOLEAN, cancelToken : Tokens \cup {0},
         queued : Tokens \cup {0}, ready : BOOLEAN]
Outbox ==
    \/ outbox = <<>>
    \/ \E t \in Tokens : outbox = <<Message("cancel", t)>>
    \/ outbox = <<Message("start", search)>> /\ search # 0
    \/ \E t \in Tokens : outbox = <<Message("preempt", t), Message("start", search)>> /\ search # 0
MoreTypes ==
    /\ scan \in Scan /\ Outbox /\ due \in Seq(Tokens) /\ reports \in Seq(Nat)
    /\ window = 0 \/ window >= Base
    /\ slot => window # 0
    /\ screen = "searching" => search # 0

BleInv == BleTypeOK /\ MoreTypes /\ AllOpened /\ OverInTime /\ AnswerIsOwn

-----------------------------------------------------------------------------
(* Tokens, pointers and events *)

\* A token is not zero, and those below the base are the searches.
LEMMA TokensAre ==
    /\ Base \in Nat /\ Base > 0 /\ Searches \in Nat /\ Searches < Base /\ Windows \in Nat /\ Windows > 0
    /\ Patience \in Nat /\ Patience > 0 /\ Depth \in Nat /\ Room \in Nat /\ Room > 0 /\ GapRoom \in Nat
    /\ \A t \in Tokens : t \in Nat /\ t > 0 /\ (t < Base => t <= Searches)
    /\ \A t \in 1 .. Searches : t \in Tokens /\ t < Base
    /\ \A t \in Base .. Base + Windows - 1 : t \in Tokens
    BY BleLimits DEF Tokens

\* The pointer of a discovery that is over gives the search, or a namesake of a window.
LEMMA PointerIsHeard ==
    ASSUME NEW t \in Tokens, Opened(t), t \in 1 .. Searches => t \in over
    PROVE  Arg(t) \in Nat /\ Heard(Arg(t))
<1>1. t \in Nat /\ PtrMod \in Nat \ {0} /\ Searches < PtrMod /\ Base \in Nat /\ Searches \in Nat
    BY TokensAre, BleLimits
<1>2. Arg(t) \in Nat
    BY <1>1 DEF Arg
<1>3. CASE t < Base
  <2>1. t \in 1 .. Searches
    BY <1>1, <1>3, TokensAre
  <2>2. t % PtrMod = t
    BY <1>1, <2>1, SMTT(30)
  <2>3. QED
    BY <1>2, <2>1, <2>2 DEF Arg, Heard
<1>4. CASE t >= Base
  <2>1. t \in Base .. window
    <3>1. t <= window /\ t \in Nat
      BY <1>1, <1>4 DEF Opened
    <3>2. t \in Base .. Base + Windows - 1
      BY <1>1, <1>4, TokensAre DEF Tokens
    <3>3. QED
      BY <1>1, <1>4, <3>1, <3>2
  <2>2. Mistakable(Arg(t))
    BY <2>1 DEF Mistakable
  <2>3. QED
    BY <1>2, <2>2 DEF Heard
<1>5. QED
    BY <1>1, <1>3, <1>4

\* What was opened and what is heard stays so while windows and ends only grow in number.
LEMMA HeardStays ==
    ASSUME window \in Nat, window' \in Nat, window <= window', over \subseteq over'
    PROVE  /\ \A t \in Nat : Opened(t) => Opened(t)'
           /\ \A t : Heard(t) => Heard(t)'
           /\ \A t : t \in over \/ Mistakable(t) => t \in over' \/ Mistakable(t)'
<1>0. Base \in Nat
    BY TokensAre
<1>1. \A t \in Nat : Opened(t) => Opened(t)'
    BY <1>0 DEF Opened
<1>2. \A w \in Base .. window : w \in Base .. window'
    BY <1>0
<1>3. \A t : Mistakable(t) => Mistakable(t)'
    BY <1>2 DEF Mistakable
<1> QED
    BY <1>1, <1>3 DEF Heard

\* on_ble_event() adds one event and makes up no other.
LEMMA Published ==
    ASSUME events \in Seq(Event), Len(events) <= Room, NEW e \in Event, Publish(e)
    PROVE  /\ events' \in Seq(Event) /\ Len(events') <= Room
           /\ \A i \in 1 .. Len(events') : events'[i] = e \/ \E j \in 1 .. Len(events) : events'[i] = events[j]
<1>0. Room \in Nat /\ Len(events) \in Nat
    BY TokensAre
<1>1. CASE Len(events) < Room /\ events' = Append(events, e)
    <2>1. events' \in Seq(Event) /\ Len(events') = Len(events) + 1
          /\ (\A i \in 1 .. Len(events) : events'[i] = events[i]) /\ events'[Len(events) + 1] = e
        BY <1>1, AppendProperties, ZenonT(60)
    <2> QED
        BY <1>0, <1>1, <2>1
<1>2. CASE /\ \E i \in DOMAIN events : Evictable(events[i])
           /\ events' = Append(RemoveFirstMatch(events, Evictable), e)
    <2> DEFINE I == {i \in 1 .. Len(events) : Evictable(events[i])}
    <2>1. I \in SUBSET Nat /\ \E i \in I : TRUE
        BY <1>0, <1>2
    <2>2. PICK m \in I : \A k \in I : m <= k
        BY <2>1, Least
    <2>3. Min(I) \in I
        BY <2>1, <2>2 DEF Min
    <2> DEFINE k == Min(I)
               left == SubSeq(events, 1, k - 1)
               right == SubSeq(events, k + 1, Len(events))
    <2>4. RemoveFirstMatch(events, Evictable) = left \o right
        <3>1. SelectInSeq(events, Evictable) = k
            BY <2>1 DEF SelectInSeq
        <3>2. \E i \in 1 .. Len(events) : Evictable(events[i])
            BY <2>1
        <3> QED
            BY <3>1, <3>2 DEF RemoveFirstMatch, RemoveAt
    <2>5. k \in 1 .. Len(events)
        BY <2>3
    <2> HIDE DEF k, I
    <2>6. /\ left \in Seq(Event) /\ Len(left) = k - 1
          /\ \A i \in 1 .. k - 1 : left[i] = events[i]
        <3>1. 1 \in Int /\ k - 1 \in Int /\ \A i \in 1 .. k - 1 : events[i] \in Event
            BY <1>0, <2>5
        <3>2. /\ left \in Seq(Event) /\ Len(left) = (IF 1 <= k - 1 THEN k - 1 - 1 + 1 ELSE 0)
              /\ \A i \in 1 .. k - 1 - 1 + 1 : left[i] = events[1 + i - 1]
            BY <3>1, SubSeqProperties
        <3> HIDE DEF left
        <3> QED
            BY <1>0, <2>5, <3>2
    <2>7. /\ right \in Seq(Event) /\ Len(right) = Len(events) - k
          /\ \A i \in 1 .. Len(events) - k : right[i] = events[k + i]
        <3>1. k + 1 \in Int /\ Len(events) \in Int /\ \A i \in k + 1 .. Len(events) : events[i] \in Event
            BY <1>0, <2>5
        <3>2. /\ right \in Seq(Event)
              /\ Len(right) = (IF k + 1 <= Len(events) THEN Len(events) - (k + 1) + 1 ELSE 0)
              /\ \A i \in 1 .. Len(events) - (k + 1) + 1 : right[i] = events[k + 1 + i - 1]
            BY <3>1, SubSeqProperties
        <3> HIDE DEF right
        <3> QED
            BY <1>0, <2>5, <3>2
    <2> HIDE DEF left, right
    <2> DEFINE rest == left \o right
    <2>8. /\ rest \in Seq(Event) /\ Len(rest) = Len(left) + Len(right)
          /\ \A i \in 1 .. Len(left) + Len(right) : rest[i] = IF i <= Len(left) THEN left[i] ELSE right[i - Len(left)]
        BY <2>6, <2>7, ConcatProperties, Zenon
    <2>9. events' = Append(rest, e)
        BY <1>2, <2>4
    <2> HIDE DEF rest
    <2>10. /\ events' \in Seq(Event) /\ Len(events') = Len(rest) + 1
           /\ (\A i \in 1 .. Len(rest) : events'[i] = rest[i]) /\ events'[Len(rest) + 1] = e
        BY <2>8, <2>9, AppendProperties
    <2>11. Len(rest) = Len(events) - 1
        BY <1>0, <2>5, <2>6, <2>7, <2>8
    <2>12. ASSUME NEW i \in 1 .. Len(rest) PROVE \E j \in 1 .. Len(events) : rest[i] = events[j]
        <3>1. CASE i <= k - 1
            BY <1>0, <2>5, <2>6, <2>7, <2>8, <2>11, <3>1
        <3>2. CASE ~(i <= k - 1)
            <4>1. i - (k - 1) \in 1 .. Len(events) - k /\ k + (i - (k - 1)) \in 1 .. Len(events)
                BY <1>0, <2>5, <2>11, <3>2
            <4>2. rest[i] = right[i - (k - 1)]
                BY <1>0, <2>5, <2>6, <2>7, <2>8, <2>11, <3>2
            <4> QED
                BY <2>7, <4>1, <4>2
        <3> QED
            BY <3>1, <3>2
    <2> QED
        BY <1>0, <2>10, <2>11, <2>12
<1>3. CASE events' = events
    BY <1>3
<1> QED
    BY <1>1, <1>2, <1>3 DEF Publish

\* The head and the rest of the events or of the commands.
LEMMA Taken ==
    ASSUME NEW S, NEW s \in Seq(S), s # <<>>
    PROVE  /\ Head(s) = s[1] /\ Head(s) \in S /\ Tail(s) \in Seq(S)
           /\ Len(s) \in Nat /\ Len(s) > 0 /\ Len(Tail(s)) = Len(s) - 1
           /\ \A i \in 1 .. Len(Tail(s)) : i + 1 \in 1 .. Len(s) /\ Tail(s)[i] = s[i + 1]
<1>1. Head(s) \in S /\ Tail(s) \in Seq(S) /\ Len(Tail(s)) = Len(s) - 1
      /\ \A i \in 1 .. Len(Tail(s)) : Tail(s)[i] = s[i + 1]
    BY HeadTailProperties, Zenon
<1>2. Len(s) \in Nat /\ Len(s) > 0 /\ Head(s) = s[1]
    OBVIOUS
<1> QED
    BY <1>1, <1>2

-----------------------------------------------------------------------------
(* The user and the pump *)

\* The types of what the steps of the user interface read.
LEMMA BleTypes ==
    ASSUME BleInv
    PROVE  /\ BleTypeOK /\ MoreTypes /\ AllOpened /\ OverInTime /\ AnswerIsOwn
           /\ commands \in Seq(Command) /\ Len(commands) <= Depth /\ events \in Seq(Event) /\ Len(events) <= Room
           /\ cmd \in Command \cup {NoCommand} /\ gap \in Tokens \cup {0} /\ terminal \in Nat
           /\ over \subseteq 1 .. Searches /\ search \in 0 .. Searches /\ window \in Nat
           /\ scan \in Scan /\ scan.token \in Tokens \cup {0} /\ scan.queued \in Tokens \cup {0}
           /\ due \in Seq(Tokens) /\ reports \in Seq(Nat)
           /\ (cmd.kind \in {"start", "cancel"} => cmd \in Command /\ cmd.token \in Tokens)
<1>1. BleTypeOK /\ MoreTypes /\ AllOpened /\ OverInTime /\ AnswerIsOwn
    BY DEF BleInv
<1>2. /\ commands \in Seq(Command) /\ Len(commands) <= Depth /\ events \in Seq(Event) /\ Len(events) <= Room
      /\ cmd \in Command \cup {NoCommand} /\ gap \in Tokens \cup {0} /\ terminal \in Nat
      /\ over \subseteq 1 .. Searches /\ search \in 0 .. Searches /\ window \in Tokens \cup {0}
    BY <1>1 DEF BleTypeOK
<1>3. scan \in Scan /\ due \in Seq(Tokens) /\ reports \in Seq(Nat)
    BY <1>1 DEF MoreTypes
<1>4. scan.token \in Tokens \cup {0} /\ scan.queued \in Tokens \cup {0}
    BY <1>3 DEF Scan
<1>5. cmd.kind \in {"start", "cancel"} => cmd \in Command /\ cmd.token \in Tokens
    BY <1>2 DEF Command, NoCommand
<1>6. window \in Nat
    BY <1>2, TokensAre
<1> QED
    BY <1>1, <1>2, <1>3, <1>4, <1>5, <1>6

\* A step that leaves the manager and the host alone and takes at most one event: it may
\* send one command, and open a window.
LEMMA UiKeeps ==
    ASSUME BleInv, UNCHANGED <<mgrVars, hostVars>>,
           events' = events \/ (events # <<>> /\ events' = Tail(events)),
           \/ commands' = commands
           \/ \E m \in Command : commands' = Append(commands, m) /\ (m.kind = "start" => Opened(m.token)'),
           window <= window', BleTypeOK', MoreTypes', AnswerIsOwn'
    PROVE  BleInv'
<1>1. UNCHANGED <<mgr, cmd, scan, gap, due, terminal, over>>
    BY DEF mgrVars, hostVars
<1>2. window \in Nat /\ window' \in Nat
    <2>1. window' \in Tokens \cup {0}
        BY DEF BleTypeOK
    <2> QED
        BY <2>1, BleTypes, TokensAre
<1>3. /\ \A t \in Nat : Opened(t) => Opened(t)'
      /\ \A t : Heard(t) => Heard(t)'
    BY <1>1, <1>2, HeardStays
<1>4. \A i \in 1 .. Len(events') : \E j \in 1 .. Len(events) : events'[i] = events[j]
    <2>1. events \in Seq(Event) /\ Len(events) \in Nat
        BY BleTypes
    <2>2. CASE events # <<>> /\ events' = Tail(events)
        BY <2>1, <2>2, Taken
    <2> QED
        BY <2>1, <2>2
<1>5. OverInTime'
    BY <1>1, <1>3, <1>4, BleTypes DEF OverInTime
<1>6. \A i \in 1 .. Len(commands') : commands'[i].kind = "start" => Opened(commands[i].token)'
    <2>1. \A i \in 1 .. Len(commands) : commands[i].kind = "start" => Opened(commands[i].token)'
        <3> SUFFICES ASSUME NEW i \in 1 .. Len(commands), commands[i].kind = "start"
                     PROVE  Opened(commands[i].token)'
            OBVIOUS
        <3>1. commands[i] \in Command
            BY BleTypes
        <3>2. commands[i].token \in Nat /\ Opened(commands[i].token)
            BY <3>1, BleTypes, TokensAre DEF Command, AllOpened
        <3> QED
            BY <1>3, <3>2 DEF Opened
    <2>2. CASE commands' = commands
        BY <2>1, <2>2
    <2>3. CASE \E m \in Command : commands' = Append(commands, m) /\ (m.kind = "start" => Opened(m.token)')
        <3>1. PICK m \in Command : commands' = Append(commands, m) /\ (m.kind = "start" => Opened(m.token)')
            BY <2>3
        <3>2. /\ Len(commands') = Len(commands) + 1 /\ Len(commands) \in Nat
              /\ (\A i \in 1 .. Len(commands) : commands'[i] = commands[i]) /\ commands'[Len(commands) + 1] = m
            BY <3>1, BleTypes, AppendProperties
        <3> SUFFICES ASSUME NEW i \in 1 .. Len(commands'), commands'[i].kind = "start"
                     PROVE  Opened(commands[i].token)'
            OBVIOUS
        <3>3. CASE i \in 1 .. Len(commands)
            BY <2>1, <3>2, <3>3 DEF Opened
        <3>4. CASE i = Len(commands) + 1
            BY <3>1, <3>2, <3>4 DEF Opened
        <3> QED
            BY <3>2, <3>3, <3>4
    <2> QED
        BY <2>2, <2>3
<1>7. AllOpened'
    <2>1. (cmd.kind = "start" => Opened(cmd.token)') /\ Opened(scan.token)' /\ Opened(scan.queued)'
        <3>1. scan.token \in Nat /\ scan.queued \in Nat /\ (cmd.kind = "start" => cmd.token \in Nat)
            BY BleTypes, TokensAre
        <3> QED
            BY <1>1, <1>3, <3>1, BleTypes DEF AllOpened, Opened
    <2>2. \A i \in 1 .. Len(due) : Opened(due[i])'
        <3> SUFFICES ASSUME NEW i \in 1 .. Len(due) PROVE Opened(due[i])'
            OBVIOUS
        <3>1. due[i] \in Nat /\ Opened(due[i])
            BY BleTypes, TokensAre DEF AllOpened
        <3> QED
            BY <1>1, <1>3, <3>1 DEF Opened
    <2> QED
        BY <1>1, <1>6, <2>1, <2>2 DEF AllOpened, Opened
<1> QED
    BY <1>5, <1>7 DEF BleInv

\* One command after another, or after none.
LEMMA TwoCommands ==
    ASSUME NEW a, NEW b
    PROVE  <<>> \o <<b>> = <<b>> /\ <<a>> \o <<b>> = <<a, b>>
<1> DEFINE S == {a, b}
<1>1. <<a>> \in Seq(S) /\ <<b>> \in Seq(S) /\ <<a, b>> \in Seq(S)
    OBVIOUS
<1>2. <<>> \o <<b>> = <<b>>
    BY <1>1, ConcatEmptySeq, Zenon
<1> DEFINE both == <<a>> \o <<b>>
<1>3. /\ both \in Seq(S) /\ Len(both) = Len(<<a>>) + Len(<<b>>)
      /\ \A i \in 1 .. Len(<<a>>) + Len(<<b>>) :
             both[i] = IF i <= Len(<<a>>) THEN <<a>>[i] ELSE <<b>>[i - Len(<<a>>)]
    BY <1>1, ConcatProperties, Zenon
<1> HIDE DEF both
<1>4. Len(both) = 2 /\ both[1] = a /\ both[2] = b
    BY <1>3
<1>5. both = <<a, b>>
    BY <1>1, <1>3, <1>4
<1> QED
    BY <1>2, <1>5 DEF both

\* A search is begun, or ended by the user.
LEMMA UserKeeps ==
    ASSUME BleInv, BeginSearch \/ Escape
    PROVE  BleInv'
<1>0. BleTypeOK /\ MoreTypes
    BY DEF BleInv
<1>1. CASE BeginSearch
    <2>1. outbox = <<>> /\ search \in 0 .. Searches /\ search' = search + 1 /\ search' \in 1 .. Searches
        BY <1>0, <1>1, TokensAre DEF BeginSearch, UiIsFree, BleTypeOK
    <2>2. slot => window \in Tokens
        BY <1>0 DEF BleTypeOK, MoreTypes
    <2>3. Outbox'
        <3>1. \/ outbox' = <<Message("start", search')>>
              \/ slot /\ outbox' = <<Message("preempt", window), Message("start", search')>>
            BY <1>1, <2>1, TwoCommands DEF BeginSearch, StartSearch
        <3>2. search' # 0
            BY <2>1
        <3> QED
            BY <2>2, <3>1, <3>2 DEF Outbox
    <2>4. MoreTypes'
        BY <1>0, <1>1, <2>1, <2>3 DEF MoreTypes, BeginSearch, bgVars, mgrVars, hostVars
    <2>5. BleTypeOK'
        <3>1. screen' = "searching" /\ deadline' = Patience /\ verdict' = "none" /\ shown' = FALSE /\ list' = FALSE
            BY <1>1 DEF BeginSearch
        <3>2. UNCHANGED <<ui, over, slot, window, abandoned, gap, terminal, commands, events, mgr, cmd>>
            BY <1>1 DEF BeginSearch, bgVars, mgrVars, hostVars
        <3>3. deadline' \in 0 .. Patience /\ search' \in 0 .. Searches
            BY <2>1, <3>1, TokensAre
        <3> QED
            BY <1>0, <3>1, <3>2, <3>3 DEF BleTypeOK
    <2>6. AnswerIsOwn' /\ UNCHANGED <<mgrVars, hostVars, events, commands, window>>
        BY <1>1 DEF BeginSearch, AnswerIsOwn, bgVars
    <2>7. window <= window'
        BY <2>6, BleTypes
    <2> QED
        BY <2>4, <2>5, <2>6, <2>7, UiKeeps
<1>2. CASE Escape
    <2>1. outbox = <<>> /\ (screen = "searching" => search \in Tokens)
        BY <1>0, <1>2, TokensAre DEF Escape, UiIsFree, BleTypeOK, MoreTypes
    <2>2. Outbox'
        BY <1>2, <2>1 DEF Escape, Outbox
    <2>3. MoreTypes'
        BY <1>0, <1>2, <2>2 DEF MoreTypes, Escape, bgVars, mgrVars, hostVars
    <2>4. BleTypeOK'
        BY <1>0, <1>2, TokensAre DEF BleTypeOK, Escape, bgVars, mgrVars, hostVars
    <2>5. AnswerIsOwn' /\ UNCHANGED <<mgrVars, hostVars, events, commands, window>>
        BY <1>2 DEF Escape, AnswerIsOwn, bgVars
    <2>6. window <= window'
        BY <2>5, BleTypes
    <2> QED
        BY <2>3, <2>4, <2>5, <2>6, UiKeeps
<1> QED
    BY <1>1, <1>2

\* A command is sent or refused.
LEMMA SubmitKeeps ==
    ASSUME BleInv, Submit
    PROVE  BleInv'
<1>0. BleTypeOK /\ MoreTypes /\ Outbox /\ outbox # <<>>
    BY DEF BleInv, MoreTypes, Submit
<1>1. UNCHANGED <<mgrVars, hostVars, events, search, window, slot, screen, verdict>>
    BY DEF Submit
<1>2. UNCHANGED <<cmd, scan, terminal, over, due, reports>>
    BY <1>1 DEF mgrVars, hostVars
<1>3. PICK c \in Command : /\ commands' = commands \/ (Len(commands) < Depth /\ commands' = Append(commands, c))
                           /\ Outbox' /\ (c.kind = "start" => c.token \in 1 .. Searches)
    <2>1. CASE \E t \in Tokens : outbox = <<Message("cancel", t)>>
        <3>1. PICK t \in Tokens : outbox = <<Message("cancel", t)>>
            BY <2>1
        <3>2. Message("cancel", t) \in Command /\ Head(outbox) = Message("cancel", t) /\ outbox' = <<>>
            BY <3>1 DEF Submit, Message, Command
        <3>3. commands' = commands \/ (Len(commands) < Depth /\ commands' = Append(commands, Message("cancel", t)))
            BY <3>2 DEF Submit, Message
        <3>4. Outbox' /\ Message("cancel", t).kind = "cancel"
            BY <3>2 DEF Message, Outbox
        <3> QED
            BY <3>2, <3>3, <3>4
    <2>2. CASE outbox = <<Message("start", search)>> /\ search # 0
        <3>1. search \in 1 .. Searches /\ search \in Tokens
            BY <1>0, <2>2, TokensAre DEF BleTypeOK
        <3>2. Message("start", search) \in Command /\ Head(outbox) = Message("start", search) /\ outbox' = <<>>
            BY <2>2, <3>1 DEF Submit, Message, Command
        <3>3. commands' = commands \/ (Len(commands) < Depth /\ commands' = Append(commands, Message("start", search)))
            BY <3>2 DEF Submit, Message
        <3>4. Outbox' /\ Message("start", search).token = search
            BY <3>2 DEF Message, Outbox
        <3> QED
            BY <3>1, <3>2, <3>3, <3>4
    <2>3. CASE \E t \in Tokens : outbox = <<Message("preempt", t), Message("start", search)>> /\ search # 0
        <3>1. PICK t \in Tokens : outbox = <<Message("preempt", t), Message("start", search)>> /\ search # 0
            BY <2>3
        <3>2. /\ Message("cancel", t) \in Command /\ Head(outbox) = Message("preempt", t)
              /\ outbox' = <<Message("start", search)>>
            BY <3>1 DEF Submit, Message, Command
        <3>3. commands' = commands \/ (Len(commands) < Depth /\ commands' = Append(commands, Message("cancel", t)))
            BY <3>2 DEF Submit, Message
        <3>4. Outbox'
            BY <1>1, <3>1, <3>2 DEF Outbox
        <3>5. Message("cancel", t).kind = "cancel"
            BY DEF Message
        <3> QED
            BY <3>2, <3>3, <3>4, <3>5
    <2> QED
        BY <1>0, <2>1, <2>2, <2>3 DEF Outbox
<1>4. c.kind = "start" => Opened(c.token)'
    BY <1>3, TokensAre DEF Opened
<1>5. MoreTypes'
    BY <1>0, <1>1, <1>2, <1>3 DEF MoreTypes
<1>6. commands' \in Seq(Command) /\ Len(commands') <= Depth
    <2>1. commands \in Seq(Command) /\ Len(commands) <= Depth /\ Len(commands) \in Nat /\ Depth \in Nat
        BY <1>0, TokensAre DEF BleTypeOK
    <2>2. Append(commands, c) \in Seq(Command) /\ Len(Append(commands, c)) = Len(commands) + 1
        BY <2>1, AppendProperties, Zenon
    <2> QED
        BY <1>3, <2>1, <2>2
<1>7. abandoned' \in {abandoned, window}
    BY DEF Submit
<1>8. BleTypeOK'
    BY <1>0, <1>6, <1>7 DEF BleTypeOK, Submit, mgrVars, hostVars
<1>9. AnswerIsOwn' /\ window <= window'
    BY <1>1, <1>2, BleTypes DEF AnswerIsOwn, Mistakable
<1> QED
    BY <1>1, <1>3, <1>4, <1>5, <1>8, <1>9, UiKeeps

\* 100 ms have passed.
LEMMA TickKeeps ==
    ASSUME BleInv, Tick
    PROVE  BleInv'
<1>0. BleTypeOK /\ MoreTypes /\ outbox = <<>> /\ AnswerIsOwn
    BY DEF BleInv, Tick, UiIsFree
<1>1. UNCHANGED <<mgrVars, hostVars, events, commands, search, window, slot, abandoned, shown, list>>
    BY DEF Tick, bgVars
<1>2. UNCHANGED <<cmd, scan, terminal, over, due, reports>>
    BY <1>1 DEF mgrVars, hostVars
<1>3. \/ screen = "searching" /\ screen' = "results" /\ verdict' = "timed_out" /\ outbox' = <<Message("cancel", search)>>
      \/ UNCHANGED <<screen, verdict, outbox>>
    BY DEF Tick
<1>4. screen = "searching" => search \in Tokens
    BY <1>0, TokensAre DEF BleTypeOK, MoreTypes
<1>5. Outbox'
    BY <1>0, <1>1, <1>3, <1>4 DEF Outbox
<1>6. MoreTypes'
    BY <1>0, <1>1, <1>2, <1>3, <1>5 DEF MoreTypes
<1>7. deadline' \in 0 .. Patience
    BY <1>0, TokensAre DEF BleTypeOK, Tick
<1>8. BleTypeOK'
    BY <1>0, <1>1, <1>3, <1>7 DEF BleTypeOK, Tick, mgrVars, hostVars
<1>9. AnswerIsOwn' /\ window <= window'
    BY <1>0, <1>1, <1>2, <1>3, BleTypes DEF AnswerIsOwn, Mistakable
<1> QED
    BY <1>1, <1>6, <1>8, <1>9, UiKeeps

\* An event is taken: the first one, and the rest stays.
LEMMA EventTaken ==
    ASSUME BleInv, TakeEvent
    PROVE  /\ Head(events) = events[1] /\ Head(events) \in Event /\ 1 \in 1 .. Len(events) /\ events # <<>>
           /\ events' = Tail(events) /\ events' \in Seq(Event) /\ Len(events') <= Room
           /\ UNCHANGED <<mgrVars, hostVars, ui, outbox, search>>
           /\ UNCHANGED <<mgr, cmd, scan, gap, due, reports, terminal, over>>
<1>1. events \in Seq(Event) /\ Len(events) <= Room /\ Room \in Nat /\ events # <<>> /\ events' = Tail(events)
    BY TokensAre DEF BleInv, BleTypeOK, TakeEvent
<1>2. Head(events) = events[1] /\ Head(events) \in Event /\ Len(events) > 0 /\ Len(events) \in Nat
      /\ events' \in Seq(Event) /\ Len(events') = Len(events) - 1
    BY <1>1, Taken
<1>3. UNCHANGED <<mgrVars, hostVars, ui, outbox, search>>
    BY DEF TakeEvent
<1>4. UNCHANGED <<mgr, cmd, scan, gap, due, reports, terminal, over>>
    BY <1>3 DEF mgrVars, hostVars
<1> QED
    BY <1>1, <1>2, <1>3, <1>4

\* The pump's events; the one that answers a search is heard.
LEMMA EventsKeep ==
    ASSUME BleInv, Ignore \/ List \/ WindowEnds \/ SearchAnswered
    PROVE  BleInv'
<1>0. BleTypeOK /\ MoreTypes /\ AnswerIsOwn /\ OverInTime
    BY DEF BleInv
<1>1. TakeEvent
    BY DEF Ignore, List, WindowEnds, SearchAnswered
<1>2. commands' = commands /\ window' = window /\ slot' \in BOOLEAN /\ (slot' => slot)
      /\ abandoned' \in {abandoned, 0} /\ list' \in BOOLEAN
    <2>1. slot \in BOOLEAN /\ list \in BOOLEAN
        BY <1>0 DEF BleTypeOK
    <2>2. CASE Ignore
        BY <2>1, <2>2 DEF Ignore, bgVars
    <2>3. CASE List
        BY <2>1, <2>3 DEF List, bgVars
    <2>4. CASE WindowEnds
        <3>1. commands' = commands /\ window' = window /\ slot' = FALSE /\ list' = FALSE
              /\ abandoned' \in {abandoned, 0}
            BY <2>4 DEF WindowEnds
        <3> QED
            BY <3>1
    <2>5. CASE SearchAnswered
        BY <2>1, <2>5 DEF SearchAnswered, bgVars
    <2> QED
        BY <2>2, <2>3, <2>4, <2>5
<1>3. \/ UNCHANGED <<screen, deadline, verdict, shown>>
      \/ /\ screen = "searching" /\ Head(events).token = search /\ Head(events).kind \in {"finished", "failed"}
         /\ screen' = "results" /\ verdict' = Head(events).kind /\ deadline' = 0 /\ shown' \in BOOLEAN
    BY <1>0 DEF BleTypeOK, Ignore, List, WindowEnds, SearchAnswered
<1>4. Outbox'
    BY <1>0, <1>1, EventTaken DEF Outbox, MoreTypes
<1>5. MoreTypes'
    BY <1>0, <1>1, <1>2, <1>3, <1>4, EventTaken DEF MoreTypes
<1>6. deadline' \in 0 .. Patience
    BY <1>0, <1>3, TokensAre DEF BleTypeOK
<1>7. BleTypeOK'
    BY <1>0, <1>1, <1>2, <1>3, <1>6, EventTaken DEF BleTypeOK
<1>8. AnswerIsOwn'
    <2>1. CASE UNCHANGED <<screen, deadline, verdict, shown>>
        BY <1>0, <1>1, <1>2, <2>1, EventTaken DEF AnswerIsOwn, Mistakable
    <2>2. CASE screen = "searching" /\ Head(events).token = search /\ verdict' = Head(events).kind
        <3> SUFFICES ASSUME verdict' = "finished" PROVE search \in over \/ Mistakable(search)
            BY <1>1, <1>2, EventTaken DEF AnswerIsOwn, Mistakable
        <3>1. events[1].kind = "finished" /\ events[1].token = search /\ 1 \in 1 .. Len(events)
            BY <1>1, <2>2, EventTaken
        <3>2. search \in 1 .. Searches
            BY <1>0, <2>2, TokensAre DEF BleTypeOK, MoreTypes
        <3> QED
            BY <1>0, <3>1, <3>2 DEF OverInTime, Heard
    <2> QED
        BY <1>3, <2>1, <2>2
<1>9. window <= window'
    BY <1>2, BleTypes
<1> QED
    BY <1>1, <1>2, <1>5, <1>7, <1>8, <1>9, EventTaken, UiKeeps

LEMMA MatchKeeps ==
    ASSUME BleInv, Match
    PROVE  BleInv'
<1>0. BleTypeOK /\ MoreTypes /\ AnswerIsOwn
    BY DEF BleInv
<1>1. TakeEvent /\ UNCHANGED <<screen, deadline, verdict, shown, list, slot, window>>
    BY DEF Match
<1> DEFINE m == Message("cancel", window)
<1>2. m \in Command /\ m.kind = "cancel" /\ window \in Tokens
    <2>1. window \in Tokens
        BY <1>0 DEF Match, OfWindow, BleTypeOK, MoreTypes
    <2> QED
        BY <2>1 DEF Message, Command
<1>3. \/ Len(commands) < Depth /\ commands' = Append(commands, m) /\ abandoned' = window
      \/ commands' = commands /\ abandoned' = abandoned
    BY DEF Match
<1> HIDE DEF m
<1>4. Outbox'
    BY <1>0, <1>1, EventTaken DEF Outbox, MoreTypes
<1>5. MoreTypes'
    BY <1>0, <1>1, <1>4, EventTaken DEF MoreTypes
<1>6. commands' \in Seq(Command) /\ Len(commands') <= Depth
    <2>1. commands \in Seq(Command) /\ Len(commands) <= Depth /\ Len(commands) \in Nat /\ Depth \in Nat
        BY <1>0, TokensAre DEF BleTypeOK
    <2>2. Append(commands, m) \in Seq(Command) /\ Len(Append(commands, m)) = Len(commands) + 1
        BY <1>2, <2>1, AppendProperties, Zenon
    <2> QED
        BY <1>3, <2>1, <2>2
<1>7. BleTypeOK'
    BY <1>0, <1>1, <1>2, <1>3, <1>6, EventTaken DEF BleTypeOK
<1>8. AnswerIsOwn' /\ window <= window'
    BY <1>0, <1>1, EventTaken, BleTypes DEF AnswerIsOwn, Mistakable
<1>9. \/ commands' = commands
      \/ \E c \in Command : commands' = Append(commands, c) /\ (c.kind = "start" => Opened(c.token)')
    BY <1>2, <1>3
<1> QED
    BY <1>1, <1>5, <1>7, <1>8, <1>9, EventTaken, UiKeeps

\* The end of the pump; the window it may open is the newest.
LEMMA WindUpKeeps ==
    ASSUME BleInv, WindUp
    PROVE  BleInv'
<1>0. BleTypeOK /\ MoreTypes /\ AnswerIsOwn
    BY DEF BleInv
<1>1. /\ UNCHANGED <<mgrVars, hostVars, events, outbox, screen, search, deadline, verdict, shown, list, abandoned>>
      /\ ui' = "out"
    BY DEF WindUp
<1>2. UNCHANGED <<mgr, cmd, scan, gap, due, reports, terminal, over>>
    BY <1>1 DEF mgrVars, hostVars
<1>3. Outbox'
    BY <1>0, <1>1 DEF Outbox, MoreTypes
<1>4. CASE UNCHANGED <<commands, window, slot>>
    <2>1. BleTypeOK' /\ MoreTypes'
        BY <1>0, <1>1, <1>2, <1>3, <1>4 DEF BleTypeOK, MoreTypes
    <2>2. AnswerIsOwn' /\ window <= window'
        BY <1>0, <1>1, <1>2, <1>4, BleTypes DEF AnswerIsOwn, Mistakable
    <2> QED
        BY <1>1, <1>4, <2>1, <2>2, UiKeeps
<1>5. CASE OpenWindow
    <2>1. window' \in Tokens /\ window' >= Base /\ window < window' /\ window \in Nat
        BY <1>0, <1>5, TokensAre, SMTT(30) DEF OpenWindow, BleTypeOK, MoreTypes
    <2>2. PICK m \in Command : m = Message("start", window')
        BY <2>1 DEF Message, Command
    <2>3. /\ Len(commands) < Depth /\ commands' = Append(commands, m) /\ slot' = TRUE
          /\ m.kind = "start" /\ m.token = window'
        BY <1>5, <2>2 DEF OpenWindow, Message
    <2>4. commands' \in Seq(Command) /\ Len(commands') <= Depth
        <3>1. commands \in Seq(Command) /\ Len(commands) \in Nat /\ Depth \in Nat
            BY <1>0, TokensAre DEF BleTypeOK
        <3>2. Append(commands, m) \in Seq(Command) /\ Len(Append(commands, m)) = Len(commands) + 1
            BY <2>2, <3>1, AppendProperties, Zenon
        <3> QED
            BY <2>3, <3>1, <3>2
    <2>5. BleTypeOK'
        BY <1>0, <1>1, <1>2, <2>1, <2>3, <2>4 DEF BleTypeOK
    <2>6. window' # 0
        BY <2>1, TokensAre
    <2>7. MoreTypes'
        BY <1>0, <1>1, <1>2, <1>3, <2>1, <2>6 DEF MoreTypes
    <2>8. window' \in Nat /\ window <= window' /\ over' = over
        BY <1>2, <2>1, TokensAre
    <2>9. Opened(m.token)'
        BY <2>3, <2>8 DEF Opened
    <2>10. AnswerIsOwn'
        <3>1. search \in over \/ Mistakable(search) => search \in over' \/ Mistakable(search)'
            BY <1>1, <2>1, <2>8, HeardStays DEF Mistakable
        <3> QED
            BY <1>0, <1>1, <3>1 DEF AnswerIsOwn, Mistakable
    <2> QED
        BY <1>1, <2>3, <2>5, <2>7, <2>8, <2>9, <2>10, UiKeeps
<1> QED
    BY <1>4, <1>5 DEF WindUp

-----------------------------------------------------------------------------
(* The host *)

\* What is left to show of a step of the manager or of the host.
LEMMA MachineKeeps ==
    ASSUME BleInv, UNCHANGED <<uiVars, bgVars>>,
           commands' \in Seq(Command), Len(commands') <= Depth, events' \in Seq(Event), Len(events') <= Room,
           mgr' \in {"receive", "terminal", "pending", "act"}, cmd' \in Command \cup {NoCommand},
           gap' \in Tokens \cup {0}, terminal' \in Nat, over' \subseteq 1 .. Searches, over \subseteq over',
           scan' \in Scan, due' \in Seq(Tokens), reports' \in Seq(Nat),
           AllOpened', OverInTime'
    PROVE  BleInv'
<1>0. BleTypeOK /\ MoreTypes /\ AnswerIsOwn
    BY DEF BleInv
<1>1. UNCHANGED <<ui, outbox, screen, search, deadline, verdict, shown, list, slot, window, abandoned>>
    BY DEF uiVars, bgVars
<1>2. Outbox'
    BY <1>0, <1>1 DEF Outbox, MoreTypes
<1>3. MoreTypes'
    BY <1>0, <1>1, <1>2 DEF MoreTypes
<1>4. BleTypeOK'
    BY <1>0, <1>1 DEF BleTypeOK
<1>5. AnswerIsOwn'
    BY <1>0, <1>1 DEF AnswerIsOwn, Mistakable
<1> QED
    BY <1>3, <1>4, <1>5 DEF BleInv

\* What the machine may still start, where the commands stay and the one in hand is done with.
LEMMA OpenedStays ==
    ASSUME BleInv, UNCHANGED <<window, commands>>, cmd' \in {cmd, NoCommand},
           Opened(scan'.token), Opened(scan'.queued), \A i \in 1 .. Len(due') : Opened(due'[i])
    PROVE  AllOpened'
<1>1. AllOpened
    BY BleTypes
<1>2. \A i \in 1 .. Len(commands') : commands'[i].kind = "start" => Opened(commands'[i].token)
    BY <1>1 DEF AllOpened
<1>3. cmd'.kind = "start" => Opened(cmd'.token)
    BY <1>1 DEF AllOpened, NoCommand
<1> QED
    BY <1>2, <1>3 DEF AllOpened, Opened

\* What was heard stays heard, and the events tell nothing new but e.
LEMMA HeardWithEvent ==
    ASSUME BleInv, UNCHANGED window, over \subseteq over',
           NEW e, e.kind = "finished" => Heard(e.token),
           \A i \in 1 .. Len(events') : events'[i] = e \/ \E j \in 1 .. Len(events) : events'[i] = events[j]
    PROVE  /\ \A t : Heard(t) => Heard(t)'
           /\ \A i \in 1 .. Len(events') : events'[i].kind = "finished" => Heard(events[i].token)'
<1>1. \A t : Heard(t) => Heard(t)'
    BY BleTypes, HeardStays
<1>2. \A i \in 1 .. Len(events') : events'[i].kind = "finished" => Heard(events'[i].token)
    BY BleTypes DEF OverInTime
<1> SUFFICES ASSUME NEW i \in 1 .. Len(events'), events'[i].kind = "finished"
             PROVE  Heard(events[i].token)'
    BY <1>1
<1>3. Heard(events'[i].token)
    BY <1>2
<1> QED
    BY <1>3 DEF Heard, Mistakable

\* A discovery ends, and its completion is to come or is never called.
LEMMA EndKeeps ==
    ASSUME BleInv, gap # 0, gap' = 0, due' = Append(due, gap) \/ due' = due, over' = Ended(gap),
           UNCHANGED <<terminal, events, window>>, scan'.token = scan.token
    PROVE  /\ OverInTime' /\ due' \in Seq(Tokens) /\ \A i \in 1 .. Len(due') : Opened(due'[i])
           /\ over \subseteq over' /\ over' \subseteq 1 .. Searches
<1>0. /\ gap = scan.token /\ gap \in Tokens /\ due \in Seq(Tokens) /\ Len(due) \in Nat /\ Opened(gap)
      /\ OverInTime /\ over \subseteq 1 .. Searches
    BY BleTypes DEF OverInTime, AllOpened
<1>1. over \subseteq over' /\ over' \subseteq 1 .. Searches /\ (gap \in 1 .. Searches => gap \in over')
    BY <1>0 DEF Ended
<1>2. due' \in Seq(Tokens) /\ \A i \in 1 .. Len(due') : due'[i] = gap \/ \E j \in 1 .. Len(due) : due'[i] = due[j]
    <2>1. CASE due' = Append(due, gap)
        <3>1. /\ due' \in Seq(Tokens) /\ Len(due') = Len(due) + 1
              /\ (\A i \in 1 .. Len(due) : due'[i] = due[i]) /\ due'[Len(due) + 1] = gap
            BY <1>0, <2>1, AppendProperties
        <3> QED
            BY <1>0, <3>1
    <2>2. CASE due' = due
        BY <1>0, <2>2
    <2> QED
        BY <2>1, <2>2
<1>3. \A i \in 1 .. Len(due') : Opened(due'[i]) /\ (due'[i] \in 1 .. Searches => due'[i] \in over')
    BY <1>0, <1>1, <1>2, BleTypes DEF OverInTime, AllOpened
<1>4. \A t : Heard(t) => Heard(t)'
    BY <1>1, BleTypes, HeardStays
<1>5. Heard(terminal)' /\ \A i \in 1 .. Len(events') : events'[i].kind = "finished" => Heard(events[i].token)'
    BY <1>0, <1>4 DEF OverInTime, Heard, Mistakable
<1>6. OverInTime'
    BY <1>0, <1>1, <1>3, <1>5 DEF OverInTime
<1> QED
    BY <1>1, <1>2, <1>3, <1>6

LEMMA HostKeeps ==
    ASSUME BleInv, Report \/ DiscoveryEnds \/ Complete
    PROVE  BleInv'
<1>0. AllOpened /\ OverInTime /\ due \in Seq(Tokens) /\ reports \in Seq(Nat) /\ gap \in Tokens \cup {0}
    BY BleTypes
<1>1. /\ UNCHANGED <<mgr, cmd, scan, commands, events, window>> /\ UNCHANGED <<uiVars, bgVars>>
    BY DEF Report, DiscoveryEnds, Complete, bgVars, mgrVars
<1>2. BleTypeOK /\ MoreTypes /\ Opened(scan.token) /\ Opened(scan.queued)
    BY BleTypes DEF AllOpened
<1>5. CASE Report
    <2>1. UNCHANGED <<gap, due, terminal, over>> /\ (reports' = reports \/ reports' = Append(reports, Arg(gap)))
        BY <1>5 DEF Report
    <2>2. Arg(gap) \in Nat
        BY <1>0, TokensAre, BleLimits DEF Arg
    <2>3. reports' \in Seq(Nat)
        <3>1. Append(reports, Arg(gap)) \in Seq(Nat)
            BY <1>0, <2>2, AppendProperties, Zenon
        <3> QED
            BY <1>0, <2>1, <3>1
    <2>4. OverInTime'
        BY <1>0, <1>1, <2>1 DEF OverInTime, Heard, Mistakable
    <2>5. AllOpened'
        BY <1>0, <1>1, <2>1 DEF AllOpened, Opened
    <2> QED
        BY <1>1, <2>1, <2>3, <2>4, <2>5, BleTypes, MachineKeeps DEF BleTypeOK
<1>6. CASE DiscoveryEnds
    <2>1. /\ gap # 0 /\ gap' = 0 /\ due' = Append(due, gap) /\ over' = Ended(gap)
          /\ UNCHANGED <<terminal, reports>>
        BY <1>6 DEF DiscoveryEnds, Discovering
    <2>2. /\ OverInTime' /\ due' \in Seq(Tokens) /\ \A i \in 1 .. Len(due') : Opened(due'[i])
          /\ over \subseteq over' /\ over' \subseteq 1 .. Searches
        BY <1>1, <2>1, EndKeeps
    <2>3. AllOpened'
        BY <1>1, <1>2, <2>2, OpenedStays
    <2> QED
        BY <1>1, <2>1, <2>2, <2>3, BleTypes, MachineKeeps DEF BleTypeOK
<1>7. CASE Complete
    <2>1. /\ due # <<>> /\ due' = Tail(due) /\ terminal' = Arg(Head(due))
          /\ UNCHANGED <<gap, reports, over>>
        BY <1>7 DEF Complete
    <2>2. /\ Head(due) = due[1] /\ Head(due) \in Tokens /\ due' \in Seq(Tokens)
          /\ Len(due) \in Nat /\ Len(due) > 0
          /\ \A i \in 1 .. Len(due') : i + 1 \in 1 .. Len(due) /\ due'[i] = due[i + 1]
        BY <1>0, <2>1, Taken
    <2>3. Opened(Head(due)) /\ (Head(due) \in 1 .. Searches => Head(due) \in over)
        <3>1. 1 \in 1 .. Len(due)
            BY <2>2
        <3> QED
            BY <1>0, <2>2, <3>1 DEF AllOpened, OverInTime
    <2>4. terminal' \in Nat /\ Heard(terminal')
        BY <2>1, <2>2, <2>3, PointerIsHeard
    <2>5. \A i \in 1 .. Len(due') : Opened(due'[i]) /\ (due'[i] \in 1 .. Searches => due'[i] \in over)
        BY <1>0, <2>2 DEF AllOpened, OverInTime
    <2>6. OverInTime'
        BY <1>0, <1>1, <2>1, <2>4, <2>5 DEF OverInTime, Heard, Mistakable
    <2>7. AllOpened'
        BY <1>1, <1>2, <2>5, OpenedStays
    <2> QED
        BY <1>1, <2>1, <2>2, <2>4, <2>6, <2>7, BleTypes, MachineKeeps DEF BleTypeOK
<1> QED
    BY <1>5, <1>6, <1>7

-----------------------------------------------------------------------------
(* The manager *)

\* No discovery starts or ends, and what is reported as complete is heard.
LEMMA SameDiscovery ==
    ASSUME BleInv, UNCHANGED <<gap, due, over, window>>, terminal' \in {terminal, 0}, scan'.token = scan.token,
           NEW e \in Event, e.kind = "finished" => Heard(e.token),
           \A i \in 1 .. Len(events') : events'[i] = e \/ \E j \in 1 .. Len(events) : events'[i] = events[j]
    PROVE  OverInTime'
<1>1. OverInTime
    BY BleTypes
<1>2. \A i \in 1 .. Len(events') : events'[i].kind = "finished" => Heard(events[i].token)'
    BY HeardWithEvent
<1>3. Heard(terminal)'
    <2>1. Heard(terminal')
        BY <1>1 DEF OverInTime, Heard
    <2> QED
        BY <2>1 DEF Heard, Mistakable
<1> QED
    BY <1>1, <1>2, <1>3 DEF OverInTime

\* A discovery is started, or the host refuses it.
LEMMA StartKeeps ==
    ASSUME BleInv, NEW t \in Tokens, gap = 0, UNCHANGED <<due, terminal, window>>, scan'.token = t,
           \/ gap' = t /\ UNCHANGED <<events, over>>
           \/ Publish(Message("failed", t)) /\ over' = Ended(t) /\ gap' = gap
    PROVE  /\ OverInTime' /\ gap' \in Tokens \cup {0}
           /\ over \subseteq over' /\ over' \subseteq 1 .. Searches
           /\ events' \in Seq(Event) /\ Len(events') <= Room
<1>0. OverInTime /\ over \subseteq 1 .. Searches /\ t # 0 /\ events \in Seq(Event) /\ Len(events) <= Room
    BY BleTypes, TokensAre
<1>1. Message("failed", t) \in Event /\ Message("failed", t).kind = "failed"
    BY DEF Message, Event
<1> DEFINE e == Message("failed", t)
<1> HIDE DEF e
<1>2. /\ events' \in Seq(Event) /\ Len(events') <= Room
      /\ \A i \in 1 .. Len(events') : events'[i] = e \/ \E j \in 1 .. Len(events) : events'[i] = events[j]
    BY <1>0, <1>1, Published DEF e
<1>3. over \subseteq over' /\ over' \subseteq 1 .. Searches /\ (gap' = 0 /\ t \in 1 .. Searches => t \in over')
    BY <1>0 DEF Ended
<1>4. e.kind # "finished"
    BY <1>1 DEF e
<1>5. /\ \A s : Heard(s) => Heard(s)'
      /\ \A i \in 1 .. Len(events') : events'[i].kind = "finished" => Heard(events[i].token)'
    BY <1>2, <1>3, <1>4, HeardWithEvent
<1>6. Heard(terminal)'
    BY <1>0, <1>5 DEF OverInTime, Heard, Mistakable
<1>7. \A i \in 1 .. Len(due') : due'[i] \in 1 .. Searches => due'[i] \in over'
    BY <1>0, <1>3 DEF OverInTime
<1>8. gap' \in {0, t}
    OBVIOUS
<1>9. OverInTime'
    BY <1>3, <1>5, <1>6, <1>7, <1>8 DEF OverInTime
<1> QED
    BY <1>2, <1>3, <1>8, <1>9

\* The lesser of two numbers.
LEMMA LesserOfTwo ==
    ASSUME NEW a \in Int, NEW b \in Int
    PROVE  Min({a, b}) \in {a, b} /\ Min({a, b}) <= a /\ Min({a, b}) <= b
<1>1. \E x \in {a, b} : \A y \in {a, b} : x <= y
    OBVIOUS
<1> QED
    BY <1>1 DEF Min

\* As many reports of the discovery are passed on as there is room for.
LEMMA ReportsPassOn ==
    ASSUME BleInv, Receive
    PROVE  /\ events' \in Seq(Event) /\ Len(events') <= Room
           /\ \A i \in 1 .. Len(events') : events'[i].kind = "result" \/ \E j \in 1 .. Len(events) : events'[i] = events[j]
<1> DEFINE Own == {i \in DOMAIN reports : reports[i] \in {scan.token} \ {0}}
           own == Cardinality(Own)
           n == Min({own, Room - Len(events)})
           m == Message("result", scan.token)
           passed == [i \in 1 .. n |-> m]
<1>0. /\ events \in Seq(Event) /\ Len(events) <= Room /\ Len(events) \in Nat /\ Room \in Nat
      /\ scan.token \in Tokens \cup {0} /\ reports \in Seq(Nat)
    BY BleTypes, TokensAre
<1>1. events' = events \o passed
    BY DEF Receive
<1>2. own \in Nat /\ (scan.token = 0 => own = 0)
    <2>1. DOMAIN reports = 1 .. Len(reports) /\ Len(reports) \in Nat
        BY <1>0
    <2>2. IsFiniteSet(1 .. Len(reports))
        BY <2>1, FS_Interval
    <2>3. IsFiniteSet(Own)
        BY <2>1, <2>2, FS_Subset
    <2>4. own \in Nat
        BY <2>3, FS_CardinalityType
    <2>5. scan.token = 0 => Own = {}
        OBVIOUS
    <2>6. Cardinality({}) = 0
        BY FS_EmptySet
    <2> QED
        BY <2>4, <2>5, <2>6
<1> HIDE DEF own, n
<1>3. n \in Nat /\ n <= own /\ n <= Room - Len(events)
    <2>1. Room - Len(events) \in Nat
        BY <1>0
    <2> QED
        <3>1. own \in Int /\ Room - Len(events) \in Int
            BY <1>2, <2>1
        <3>2. n \in {own, Room - Len(events)} /\ n <= own /\ n <= Room - Len(events)
            BY <3>1, LesserOfTwo, Zenon DEF n
        <3> QED
            BY <1>2, <2>1, <3>2
<1>4. n > 0 => m \in Event
    BY <1>0, <1>2, <1>3 DEF Message, Event
<1>5. m.kind = "result"
    BY DEF Message
<1> HIDE DEF m
<1>6. passed \in Seq(Event) /\ Len(passed) = n /\ \A i \in 1 .. n : passed[i] = m
    <2>1. \A i \in 1 .. n : m \in Event
        BY <1>3, <1>4
    <2> QED
        BY <1>3, <2>1
<1> HIDE DEF passed
<1>7. /\ events' \in Seq(Event) /\ Len(events') = Len(events) + Len(passed)
      /\ \A i \in 1 .. Len(events) + Len(passed) :
             events'[i] = IF i <= Len(events) THEN events[i] ELSE passed[i - Len(events)]
    BY <1>0, <1>1, <1>6, ConcatProperties
<1>8. Len(events') <= Room
    BY <1>0, <1>3, <1>6, <1>7
<1>9. ASSUME NEW i \in 1 .. Len(events')
      PROVE  events'[i].kind = "result" \/ \E j \in 1 .. Len(events) : events'[i] = events[j]
    <2>1. CASE i <= Len(events)
        BY <1>0, <1>7, <2>1
    <2>2. CASE ~(i <= Len(events))
        <3>1. i - Len(events) \in 1 .. n /\ events'[i] = passed[i - Len(events)]
            BY <1>0, <1>3, <1>6, <1>7, <2>2
        <3> QED
            BY <1>5, <1>6, <3>1
    <2> QED
        BY <2>1, <2>2
<1> QED
    BY <1>7, <1>8, <1>9

LEMMA ReceiveKeeps ==
    ASSUME BleInv, Receive
    PROVE  BleInv'
<1>1. /\ UNCHANGED <<uiVars, bgVars, scan, gap, due, terminal, over>> /\ mgr' = "terminal" /\ reports' = <<>>
      /\ \/ cmd' = NoCommand /\ commands' = commands
         \/ commands # <<>> /\ cmd' = Head(commands) /\ commands' = Tail(commands)
    BY DEF Receive
<1>2. /\ events' \in Seq(Event) /\ Len(events') <= Room
      /\ \A i \in 1 .. Len(events') : events'[i].kind = "result" \/ \E j \in 1 .. Len(events) : events'[i] = events[j]
    BY ReportsPassOn
<1>3. window' = window /\ AllOpened /\ OverInTime /\ commands \in Seq(Command) /\ Len(commands) <= Depth
    BY <1>1, BleTypes DEF bgVars
<1>4. OverInTime'
    <2>1. \A i \in 1 .. Len(events') : events'[i].kind = "finished" => Heard(events'[i].token)
        BY <1>2, <1>3 DEF OverInTime
    <2> QED
        BY <1>1, <1>3, <2>1 DEF OverInTime, Heard, Mistakable
<1>5. CASE cmd' = NoCommand /\ commands' = commands
    <2>1. AllOpened'
        BY <1>1, <1>3, <1>5, OpenedStays DEF AllOpened
    <2>2. commands' \in Seq(Command) /\ Len(commands') <= Depth /\ reports' \in Seq(Nat)
        BY <1>1, <1>3, <1>5
    <2> QED
        BY <1>1, <1>2, <1>4, <1>5, <2>1, <2>2, BleTypes, MachineKeeps
<1>6. CASE commands # <<>> /\ cmd' = Head(commands) /\ commands' = Tail(commands)
    <2>1. /\ cmd' = commands[1] /\ cmd' \in Command /\ Len(commands) \in Nat /\ Len(commands) > 0
          /\ commands' \in Seq(Command) /\ Len(commands') = Len(commands) - 1
          /\ \A i \in 1 .. Len(commands') : i + 1 \in 1 .. Len(commands) /\ commands'[i] = commands[i + 1]
        BY <1>3, <1>6, Taken
    <2>2. 1 \in 1 .. Len(commands) /\ Len(commands') <= Depth
        BY <1>3, <2>1, TokensAre
    <2>3. AllOpened'
        BY <1>1, <1>3, <2>1, <2>2 DEF AllOpened, Opened
    <2>4. reports' \in Seq(Nat)
        BY <1>1
    <2> QED
        BY <1>1, <1>2, <1>4, <2>1, <2>2, <2>3, <2>4, BleTypes, MachineKeeps
<1> QED
    BY <1>1, <1>5, <1>6

LEMMA ProcessTerminalKeeps ==
    ASSUME BleInv, ProcessTerminal
    PROVE  BleInv'
<1>1. /\ UNCHANGED <<uiVars, bgVars, commands, cmd, gap, due, reports, over>> /\ terminal' = 0 /\ window' = window
      /\ mgr' = IF scan.queued # 0 THEN "pending" ELSE Then
    BY DEF ProcessTerminal, bgVars
<1>2. mgr' \in {"receive", "terminal", "pending", "act"}
    BY <1>1 DEF Then
<1>3. /\ scan' \in Scan /\ scan'.token = scan.token /\ scan'.queued = scan.queued
      /\ events' \in Seq(Event) /\ Len(events') <= Room
      /\ \E e \in Event : /\ e.kind = "finished" => Heard(e.token)
                          /\ \A i \in 1 .. Len(events') : events'[i] = e \/ \E j \in 1 .. Len(events) : events'[i] = events[j]
    <2>1. CASE terminal # 0 /\ OwnCompletion(terminal)
        <3>1. terminal = scan.token /\ scan.token \in Tokens
            BY <2>1, BleTypes DEF OwnCompletion
        <3>2. scan' = [scan EXCEPT !.cancelling = FALSE, !.cancelToken = 0, !.ready = TRUE]
            BY <2>1 DEF ProcessTerminal, Completed
        <3>3. PICK outcome \in {"finished", "failed"} : Publish(Message(outcome, scan.token))
            BY <2>1 DEF ProcessTerminal, Completed
        <3> DEFINE e == Message(outcome, scan.token)
        <3>4. e \in Event /\ e.token = terminal
            BY <3>1 DEF Message, Event
        <3>5. Heard(e.token)
            BY <3>4, BleTypes DEF OverInTime
        <3> HIDE DEF e
        <3>6. /\ events' \in Seq(Event) /\ Len(events') <= Room
              /\ \A i \in 1 .. Len(events') : events'[i] = e \/ \E j \in 1 .. Len(events) : events'[i] = events[j]
            BY <3>3, <3>4, BleTypes, Published DEF e
        <3>7. scan' \in Scan /\ scan'.token = scan.token /\ scan'.queued = scan.queued
            BY <3>2, BleTypes DEF Scan
        <3> QED
            BY <3>4, <3>5, <3>6, <3>7
    <2>2. CASE ~(terminal # 0 /\ OwnCompletion(terminal))
        <3>1. scan' = scan /\ events' = events
            BY <2>2 DEF ProcessTerminal, Completed
        <3>2. PICK t \in Tokens : TRUE
            BY TokensAre
        <3>3. Message("result", t) \in Event /\ Message("result", t).kind = "result"
            BY DEF Message, Event
        <3> QED
            BY <3>1, <3>3, BleTypes
    <2> QED
        BY <2>1, <2>2
<1>4. OverInTime'
    BY <1>1, <1>3, SameDiscovery
<1>5. AllOpened'
    BY <1>1, <1>3, BleTypes, OpenedStays DEF AllOpened
<1> QED
    BY <1>1, <1>2, <1>3, <1>4, <1>5, BleTypes, MachineKeeps

\* start_scan_command() with a window or a search that the manager may start.
LEMMA StartScanKeeps ==
    ASSUME BleInv, UNCHANGED <<uiVars, bgVars, commands, due, reports, terminal>>,
           mgr' \in {"receive", "terminal", "pending", "act"}, cmd' \in {cmd, NoCommand},
           NEW t \in Tokens, Opened(t), gap = 0,
           NEW s \in Scan, s.token = scan.token, Opened(s.queued), StartScan(t, s)
    PROVE  BleInv'
<1>0. window' = window /\ AllOpened /\ OverInTime
    BY BleTypes DEF bgVars
<1>1. CASE scan' = s /\ UNCHANGED <<gap, events, over>>
    <2>1. OverInTime'
        BY <1>0, <1>1 DEF OverInTime, Heard, Mistakable
    <2>2. AllOpened'
        BY <1>0, <1>1, OpenedStays DEF AllOpened
    <2> QED
        BY <1>1, <2>1, <2>2, BleTypes, MachineKeeps
<1>2. CASE /\ scan' = [s EXCEPT !.ready = FALSE, !.cancelToken = 0, !.token = t]
           /\ \/ gap' = t /\ UNCHANGED <<events, over>>
              \/ Publish(Message("failed", t)) /\ over' = Ended(t) /\ UNCHANGED gap
    <2>1. scan' \in Scan /\ scan'.token = t /\ scan'.queued = s.queued
        BY <1>2 DEF Scan
    <2>2. /\ OverInTime' /\ gap' \in Tokens \cup {0} /\ over \subseteq over' /\ over' \subseteq 1 .. Searches
          /\ events' \in Seq(Event) /\ Len(events') <= Room
        BY <1>0, <1>2, <2>1, StartKeeps
    <2>3. AllOpened'
        BY <1>0, <2>1, OpenedStays DEF AllOpened
    <2> QED
        BY <2>1, <2>2, <2>3, BleTypes, MachineKeeps
<1> QED
    BY <1>1, <1>2 DEF StartScan

LEMMA StartQueuedKeeps ==
    ASSUME BleInv, StartQueued
    PROVE  BleInv'
<1>1. /\ UNCHANGED <<uiVars, bgVars, commands, cmd, due, reports, terminal, window>>
      /\ mgr' \in {"receive", "terminal", "pending", "act"}
    BY DEF StartQueued, Then, bgVars
<1>2. CASE scan.queued # 0 /\ scan.ready /\ ~scan.cancelling /\ ~Discovering
    <2> DEFINE t == scan.queued
               s == [scan EXCEPT !.queued = 0]
    <2>1. t \in Tokens /\ gap = 0 /\ Opened(t)
        BY <1>2, BleTypes DEF Discovering, AllOpened
    <2>2. s \in Scan /\ s.token = scan.token /\ Opened(s.queued) /\ StartScan(t, s)
        <3>1. s \in Scan /\ s.token = scan.token /\ s.queued = 0
            BY BleTypes DEF Scan
        <3>2. Opened(0)
            BY TokensAre DEF Opened
        <3>3. StartScan(t, s)
            BY <1>2 DEF StartQueued
        <3> QED
            BY <3>1, <3>2, <3>3
    <2> HIDE DEF t, s
    <2> QED
        BY <1>1, <2>1, <2>2, StartScanKeeps
<1>3. CASE ~(scan.queued # 0 /\ scan.ready /\ ~scan.cancelling /\ ~Discovering)
    <2>1. UNCHANGED <<scan, gap, events, over>>
        BY <1>3 DEF StartQueued
    <2>2. OverInTime'
        BY <1>1, <2>1, BleTypes DEF OverInTime, Heard, Mistakable
    <2>3. AllOpened'
        BY <1>1, <2>1, BleTypes, OpenedStays DEF AllOpened
    <2> QED
        BY <1>1, <2>1, <2>2, <2>3, BleTypes, MachineKeeps
<1> QED
    BY <1>2, <1>3

\* ble_gap_disc_cancel() ends the discovery now, or leaves it to end.
LEMMA CancelKeeps ==
    ASSUME BleInv, UNCHANGED <<uiVars, bgVars, commands, reports, terminal, events>>, mgr' = "receive",
           cmd' = NoCommand, gap # 0, CancelTaken,
           scan' \in Scan, scan'.token = scan.token, Opened(scan'.queued)
    PROVE  BleInv'
<1>0. window' = window /\ AllOpened /\ OverInTime
    BY BleTypes DEF bgVars
<1>1. CASE UNCHANGED <<gap, due, over>>
    <2>1. OverInTime'
        BY <1>0, <1>1 DEF OverInTime, Heard, Mistakable
    <2>2. AllOpened'
        BY <1>0, <1>1, OpenedStays DEF AllOpened
    <2> QED
        BY <1>1, <2>1, <2>2, BleTypes, MachineKeeps
<1>2. CASE gap' = 0 /\ over' = Ended(gap) /\ (due' = Append(due, gap) \/ due' = due)
    <2>1. /\ OverInTime' /\ due' \in Seq(Tokens) /\ \A i \in 1 .. Len(due') : Opened(due'[i])
          /\ over \subseteq over' /\ over' \subseteq 1 .. Searches
        BY <1>0, <1>2, EndKeeps
    <2>2. AllOpened'
        BY <1>0, <2>1, OpenedStays DEF AllOpened
    <2> QED
        BY <1>2, <2>1, <2>2, BleTypes, MachineKeeps
<1> QED
    BY <1>1, <1>2 DEF CancelTaken

LEMMA DoStartKeeps ==
    ASSUME BleInv, DoStart
    PROVE  BleInv'
<1>1. /\ UNCHANGED <<uiVars, bgVars, commands, reports, terminal>> /\ mgr' = "receive"
      /\ cmd.kind = "start" /\ cmd' = NoCommand
    BY DEF DoStart, NextCommand
<1>2. cmd.token \in Tokens /\ Opened(cmd.token) /\ Opened(scan.queued)
    BY <1>1, BleTypes DEF AllOpened
<1>3. CASE ~Discovering /\ StartScan(cmd.token, scan) /\ UNCHANGED due
    BY <1>1, <1>2, <1>3, BleTypes, StartScanKeeps DEF Discovering
<1>4. CASE /\ Discovering /\ events' = events
           /\ scan' \in Scan /\ scan'.token = scan.token /\ scan'.queued = cmd.token
           /\ CancelTaken \/ UNCHANGED <<gap, due, over>>
    <2>1. CancelTaken /\ gap # 0
        BY <1>4 DEF CancelTaken, Discovering
    <2> QED
        BY <1>1, <1>2, <1>4, <2>1, CancelKeeps
<1>5. CASE Discovering /\ scan.cancelling /\ scan' = [scan EXCEPT !.queued = cmd.token]
           /\ UNCHANGED <<events, gap, due, over>>
    BY <1>2, <1>4, <1>5, BleTypes DEF Scan
<1>6. CASE /\ Discovering /\ UNCHANGED events /\ CancelTaken
           /\ scan' = [scan EXCEPT !.queued = cmd.token, !.cancelToken = scan.token, !.cancelling = TRUE]
    BY <1>2, <1>4, <1>6, BleTypes DEF Scan
<1>7. CASE /\ Discovering /\ UNCHANGED <<events, gap, due, over>>
           /\ scan' = [scan EXCEPT !.queued = cmd.token, !.cancelToken = scan.token]
    BY <1>2, <1>4, <1>7, BleTypes DEF Scan
<1> QED
    BY <1>3, <1>5, <1>6, <1>7 DEF DoStart

LEMMA DoCancelKeeps ==
    ASSUME BleInv, DoCancel
    PROVE  BleInv'
<1>1. /\ UNCHANGED <<uiVars, bgVars, commands, reports, terminal, window>> /\ mgr' = "receive"
      /\ cmd.kind = "cancel" /\ cmd' = NoCommand
    BY DEF DoCancel, NextCommand, bgVars
<1>2. cmd.token \in Tokens /\ Opened(scan.token) /\ Opened(scan.queued)
    BY <1>1, BleTypes DEF AllOpened
<1>3. CASE cmd.token = scan.token /\ Discovering /\ CancelTaken /\ UNCHANGED events
           /\ scan' = [scan EXCEPT !.cancelToken = cmd.token, !.cancelling = TRUE]
    <2>1. scan' \in Scan /\ scan'.token = scan.token /\ scan'.queued = scan.queued /\ gap # 0
        BY <1>2, <1>3, BleTypes DEF Scan, Discovering
    <2> QED
        BY <1>1, <1>2, <1>3, <2>1, CancelKeeps
<1>4. ASSUME UNCHANGED <<gap, due, over>>, scan' \in Scan, scan'.token = scan.token, scan'.queued = scan.queued,
             NEW e \in Event, e.kind = "finished" => Heard(e.token),
             events' = events \/ Publish(e)
      PROVE  BleInv'
    <2>1. /\ events' \in Seq(Event) /\ Len(events') <= Room
          /\ \A i \in 1 .. Len(events') : events'[i] = e \/ \E j \in 1 .. Len(events) : events'[i] = events[j]
        BY <1>4, BleTypes, Published
    <2>2. OverInTime'
        BY <1>1, <1>4, <2>1, SameDiscovery
    <2>3. AllOpened'
        BY <1>1, <1>2, <1>4, BleTypes, OpenedStays DEF AllOpened
    <2> QED
        BY <1>1, <1>4, <2>1, <2>2, <2>3, BleTypes, MachineKeeps
<1>5. \A k \in {"finished", "failed"} : Message(k, cmd.token) \in Event
          /\ Message(k, cmd.token).kind = k /\ Message(k, cmd.token).token = cmd.token
    BY <1>2 DEF Message, Event
<1>6. CASE UNCHANGED <<events, scan, gap, due, over>>
    BY <1>4, <1>5, <1>6, BleTypes
<1>7. CASE /\ cmd.token = scan.token /\ ~Discovering /\ Publish(Message("finished", cmd.token))
           /\ scan' = [scan EXCEPT !.cancelToken = 0, !.ready = TRUE] /\ UNCHANGED <<gap, due, over>>
    <2>1. scan' \in Scan /\ scan'.token = scan.token /\ scan'.queued = scan.queued /\ gap = 0
        BY <1>7, BleTypes DEF Scan, Discovering
    <2>2. Heard(cmd.token)
        BY <1>7, <2>1, BleTypes DEF OverInTime, Heard
    <2> QED
        BY <1>4, <1>5, <1>7, <2>1, <2>2
<1>8. CASE Publish(Message("failed", cmd.token)) /\ UNCHANGED <<scan, gap, due, over>>
    BY <1>4, <1>5, <1>8, BleTypes
<1> QED
    BY <1>3, <1>6, <1>7, <1>8 DEF DoCancel

-----------------------------------------------------------------------------
(* The invariant holds. *)

LEMMA BleInitially == BleInit => BleInv
<1> SUFFICES ASSUME BleInit PROVE BleInv
    OBVIOUS
<1>1. \A S : <<>> \in Seq(S) /\ Len(<<>>) = 0
    OBVIOUS
<1>2. BleTypeOK
    <2>1. commands \in Seq(Command) /\ Len(commands) <= Depth /\ events \in Seq(Event) /\ Len(events) <= Room
        BY <1>1, TokensAre DEF BleInit
    <2>2. search \in 0 .. Searches /\ deadline \in 0 .. Patience /\ over \subseteq 1 .. Searches
        BY TokensAre DEF BleInit
    <2> QED
        BY <2>1, <2>2 DEF BleInit, BleTypeOK
<1>3. scan \in Scan
    BY DEF BleInit, Scan
<1>4. MoreTypes
    BY <1>1, <1>3 DEF BleInit, MoreTypes, Outbox
<1>5. AllOpened
    <2>1. Opened(0)
        BY TokensAre DEF Opened
    <2> QED
        BY <1>1, <2>1 DEF BleInit, AllOpened, NoCommand
<1>6. OverInTime /\ AnswerIsOwn
    <2>1. 0 \notin 1 .. Searches
        OBVIOUS
    <2> QED
        BY <1>1, <2>1 DEF BleInit, OverInTime, Heard, AnswerIsOwn
<1> QED
    BY <1>2, <1>4, <1>5, <1>6 DEF BleInv

LEMMA BleStepsKeep == BleInv /\ [BleNext]_bleVars => BleInv'
<1> SUFFICES ASSUME BleInv, [BleNext]_bleVars PROVE BleInv'
    OBVIOUS
<1>1. CASE UNCHANGED bleVars
    <2>1. /\ UNCHANGED <<uiVars, bgVars, mgrVars, hostVars, commands, events>>
        BY <1>1 DEF bleVars
    <2>2. BleTypeOK' /\ MoreTypes' /\ AnswerIsOwn'
        BY <2>1, BleTypes DEF uiVars, bgVars, mgrVars, hostVars, BleTypeOK, MoreTypes, Outbox, AnswerIsOwn, Mistakable
    <2>3. window <= window'
        BY <2>1, BleTypes DEF bgVars
    <2> QED
        BY <2>1, <2>2, <2>3, UiKeeps
<1>2. BeginSearch \/ Escape => BleInv'
    BY UserKeeps
<1>3. Pump => BleInv'
    BY SubmitKeeps, TickKeeps, EventsKeep, MatchKeeps, WindUpKeeps DEF Pump
<1>4. Manage => BleInv'
    BY ReceiveKeeps, ProcessTerminalKeeps, StartQueuedKeeps, DoStartKeeps, DoCancelKeeps DEF Manage
<1>5. Report \/ DiscoveryEnds \/ Complete => BleInv'
    BY HostKeeps
<1> QED
    BY <1>1, <1>2, <1>3, <1>4, <1>5 DEF BleNext

(* The commands, events and tokens of the Bluetooth searches keep their    *)
(* types, and their queues their lengths, whatever the width of a pointer. *)
THEOREM BleTypeCorrect == BleSpec => []BleTypeOK
<1>1. BleInv => BleTypeOK
    BY DEF BleInv
<1> QED
    BY <1>1, BleInitially, BleStepsKeep, PTL DEF BleSpec

(* A search is answered by the end of its own discovery, or by that of a   *)
(* window whose token a pointer cuts to the search's own number: for any   *)
(* pointer that holds the searches, any number of searches and windows and *)
(* any length of the queues, whatever is cancelled, queued, late or never  *)
(* completed.                                                              *)
THEOREM SearchHearsItsOwn == BleSpec => []AnswerIsOwn
<1>1. BleInv => AnswerIsOwn
    BY DEF BleInv
<1> QED
    BY <1>1, BleInitially, BleStepsKeep, PTL DEF BleSpec
=============================================================================
