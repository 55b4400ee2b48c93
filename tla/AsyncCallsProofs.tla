-------------------------- MODULE AsyncCallsProofs --------------------------
(***************************************************************************)
(* The two components that hand work to LVGL's list of asynchronous calls. *)
(* The keyboard dispatch owns every block once and delivers every key at   *)
(* most once, for any number of submitters, blocks, tickets, generations   *)
(* and identities; the worker of cat keeps its queue as long as it runs    *)
(* and answers whoever asked, once, for any number of requests, sessions   *)
(* and places in the queue.                                                *)
(***************************************************************************)
EXTENDS KeyboardDispatch, CatWorker, FiniteSetTheorems, TLAPS

\* Identities are handed out upwards and are in one place each.
IdentitiesAreFresh ==
    /\ \A i \in InUse \cup async \cup handled : i < identity
    /\ current.key < identity
    /\ InUse \cap handled = {}
    /\ current.key \notin InUse \cup handled

\* A queued key belongs to a generation that has been, and its block says so.
StampsMatch ==
    /\ \A i \in InUse : tickets[i].generation <= generation
    /\ \A i \in Waiting : stamp[tickets[i].block] = tickets[i].generation
    /\ current.key # 0 => current.block # NoBlock
    /\ ~open => queue = {}

IInv == TypeOK /\ BlocksAreOwned /\ IdentitiesAreFresh /\ StampsMatch

USE BlocksAssumption, LimitsAssumption

LEMMA InitIInv == Init => IInv
<1> SUFFICES ASSUME Init PROVE IInv
  OBVIOUS
<1>1. InUse = {}
  BY DEF Init, InUse
<1>2. TypeOK
  <2>1. tickets \in [InUse -> [generation : Nat, block : Pointers]]
    BY <1>1 DEF Init
  <2>2. current \in [key : Nat, block : Pointers] /\ hand \in [Submitters -> Pointers]
    BY DEF Init, NoCall, Pointers
  <2>3. 0 \in 0 .. MaxGeneration /\ 1 \in 1 .. MaxIdentity + 1
    OBVIOUS
  <2>4. stamp \in [Blocks -> Nat]
    BY DEF Init
  <2>5. QED BY <1>1, <2>1, <2>2, <2>3, <2>4 DEF Init, TypeOK
<1>3. BlocksAreOwned
  BY <1>1 DEF Init, BlocksAreOwned, Waiting, Held, Running, NoCall
<1>4. IdentitiesAreFresh /\ StampsMatch
  BY <1>1 DEF Init, IdentitiesAreFresh, StampsMatch, Waiting, NoCall
<1>5. QED BY <1>2, <1>3, <1>4 DEF IInv

-----------------------------------------------------------------------------
\* What Accept does to the tickets.
LEMMA AcceptTickets ==
    ASSUME IInv, NEW s \in Submitters, Accept(s)
    PROVE  /\ InUse' = InUse \cup {identity} /\ identity \notin InUse /\ identity \in Identities
           /\ identity' = identity + 1
           /\ tickets'[identity] = [generation |-> generation, block |-> hand[s]]
           /\ \A i \in InUse : tickets'[i] = tickets[i]
           /\ tickets' \in [InUse' -> [generation : Nat, block : Pointers]]
           /\ Waiting' = Waiting \cup {identity}
           /\ hand[s] \in Blocks
<1>1. identity \in Identities /\ identity \notin InUse /\ hand[s] \in Blocks /\ generation \in Nat
  BY DEF IInv, TypeOK, IdentitiesAreFresh, Accept, TicketFree, Identities, Pointers
<1>2. tickets' = [i \in InUse \cup {identity} |->
                    IF i = identity THEN [generation |-> generation, block |-> hand[s]] ELSE tickets[i]]
  BY DEF Accept
<1>3. InUse' = InUse \cup {identity}
  BY <1>2 DEF InUse
<1>4. tickets'[identity] = [generation |-> generation, block |-> hand[s]]
  BY <1>2
<1>5. \A i \in InUse : tickets'[i] = tickets[i]
  BY <1>1, <1>2
<1>6. tickets' \in [InUse' -> [generation : Nat, block : Pointers]]
  BY <1>1, <1>2, <1>3 DEF IInv, TypeOK, Pointers
<1>7. Waiting' = Waiting \cup {identity}
  BY <1>1, <1>3, <1>4, <1>5 DEF Waiting
<1>8. QED BY <1>1, <1>3, <1>4, <1>5, <1>6, <1>7 DEF Accept

\* What the call of a ticket in use does.
LEMMA BeginTickets ==
    ASSUME IInv, NEW i \in Identities, Begin(i), i \in InUse
    PROVE  /\ InUse' = InUse \ {i} /\ Waiting' = Waiting \ {i}
           /\ \A j \in InUse' : tickets'[j] = tickets[j]
           /\ tickets' \in [InUse' -> [generation : Nat, block : Pointers]]
           /\ queue' = queue \ {tickets[i].block}
           /\ current' = [key |-> IF IsCurrent(i) THEN i ELSE 0, block |-> tickets[i].block]
<1>1. tickets' = [j \in InUse \ {i} |-> tickets[j]]
  BY DEF Begin, Release
<1>2. InUse' = InUse \ {i} /\ \A j \in InUse' : tickets'[j] = tickets[j]
  BY <1>1 DEF InUse
<1>3. QED BY <1>1, <1>2 DEF Begin, Waiting, IInv, TypeOK

\* What stop() does to the tickets: none waits any more.
LEMMA StopTickets ==
    ASSUME IInv, Stop
    PROVE  /\ InUse' = InUse /\ Waiting' = {}
           /\ \A i \in InUse : tickets'[i].generation = tickets[i].generation
           /\ tickets' \in [InUse' -> [generation : Nat, block : Pointers]]
<1>1. tickets' = [i \in InUse |-> IF tickets[i].block \in queue THEN [tickets[i] EXCEPT !.block = NoBlock]
                                  ELSE tickets[i]]
  BY DEF Stop
<1>2. \A i \in InUse : tickets[i] \in [generation : Nat, block : Pointers]
  BY DEF IInv, TypeOK
<1>3. \A i \in InUse : /\ tickets'[i] \in [generation : Nat, block : Pointers]
                       /\ tickets'[i].generation = tickets[i].generation
  BY <1>1, <1>2 DEF Pointers
<1>4. \A i \in InUse : tickets[i].block \in queue \/ tickets[i].block = NoBlock
  BY DEF IInv, BlocksAreOwned, Waiting
<1>5. \A i \in InUse : tickets'[i].block = NoBlock
  BY <1>1, <1>2, <1>4
<1>6. InUse' = InUse
  BY <1>1 DEF InUse
<1>7. tickets' \in [InUse' -> [generation : Nat, block : Pointers]]
  BY <1>1, <1>3, <1>6
<1>8. QED BY <1>3, <1>5, <1>6, <1>7 DEF Waiting

-----------------------------------------------------------------------------
\* A step that leaves the tickets alone leaves these alone.
LEMMA SameTickets ==
    ASSUME tickets' = tickets PROVE InUse' = InUse /\ Waiting' = Waiting
BY DEF InUse, Waiting

\* A new generation, or none left: what was current is not any more.
LEMMA GenerationStep ==
    ASSUME TypeOK, NextGeneration
    PROVE  /\ generation' \in 0 .. MaxGeneration /\ exhausted' \in BOOLEAN
           /\ generation <= generation'
           /\ exhausted' \/ generation < generation'
<1>1. generation \in 0 .. MaxGeneration /\ exhausted \in BOOLEAN
  BY DEF TypeOK
<1>2. CASE generation = MaxGeneration
  BY <1>1, <1>2 DEF NextGeneration
<1>3. CASE generation # MaxGeneration
  <2>1. generation' = generation + 1 /\ exhausted' = exhausted
    BY <1>3 DEF NextGeneration
  <2>2. QED BY <1>1, <1>3, <2>1
<1>4. QED BY <1>2, <1>3

LEMMA StartGeneration ==
    ASSUME TypeOK, Start \/ StartExhausted
    PROVE  generation' \in 0 .. MaxGeneration /\ exhausted' \in BOOLEAN
<1>1. generation \in 0 .. MaxGeneration
  BY DEF TypeOK
<1>2. CASE Start
  <2>1. generation' = generation + 1 /\ exhausted' = FALSE /\ generation # MaxGeneration
    BY <1>2 DEF Start
  <2>2. generation' \in 0 .. MaxGeneration
    BY <1>1, <2>1
  <2>3. QED BY <2>1, <2>2
<1>3. CASE StartExhausted
  <2>1. generation' = generation /\ exhausted' = TRUE
    BY <1>3 DEF StartExhausted
  <2>2. QED BY <1>1, <2>1
<1>4. QED BY <1>2, <1>3

LEMMA TypeStep ==
    ASSUME IInv, [Next]_vars PROVE TypeOK'
<1>0. TypeOK
  BY DEF IInv
<1> USE <1>0 DEF TypeOK
<1>1. ASSUME NEW s \in Submitters, NEW b \in Blocks, Allocate(s, b) PROVE TypeOK'
  BY <1>1, SameTickets DEF Allocate, Pointers
<1>2. ASSUME NEW s \in Submitters, Accept(s) PROVE TypeOK'
  <2>1. /\ tickets' \in [InUse' -> [generation : Nat, block : Pointers]] /\ hand[s] \in Blocks
        /\ InUse' \in SUBSET Identities /\ identity \in Identities /\ identity' = identity + 1
    BY <1>2, AcceptTickets
  <2>2. identity' \in 1 .. MaxIdentity + 1
    BY <2>1 DEF Identities
  <2>3. stamp' \in [Blocks -> Nat] /\ hand' \in [Submitters -> Pointers] /\ queue' \in SUBSET Blocks
    BY <1>2, <2>1 DEF Accept, Pointers
  <2>4. QED BY <1>2, <2>1, <2>2, <2>3 DEF Accept
<1>3. ASSUME NEW s \in Submitters, Drop(s) PROVE TypeOK'
  BY <1>3, SameTickets DEF Drop, Pointers
<1>4. ASSUME NEW s \in Submitters, Rollback(s) PROVE TypeOK'
  <2>1. identity' \in 1 .. MaxIdentity + 1
    BY <1>4 DEF Rollback, TicketFree
  <2>2. hand[s] \in Blocks
    BY <1>4 DEF Rollback, Pointers
  <2>3. stamp' \in [Blocks -> Nat] /\ hand' \in [Submitters -> Pointers]
    BY <1>4, <2>2 DEF Rollback, Pointers
  <2>4. QED BY <1>4, <2>1, <2>3, SameTickets DEF Rollback
<1>5. ASSUME NEW i \in Identities, Begin(i) PROVE TypeOK'
  <2>1. CASE i \in InUse
    <3>1. /\ InUse' = InUse \ {i} /\ tickets' \in [InUse' -> [generation : Nat, block : Pointers]]
          /\ queue' = queue \ {tickets[i].block}
          /\ current' = [key |-> IF IsCurrent(i) THEN i ELSE 0, block |-> tickets[i].block]
      BY <1>5, <2>1, BeginTickets
    <3>2. tickets[i].block \in Pointers /\ i \in Nat
      BY <2>1 DEF Identities
    <3>3. current' \in [key : Nat, block : Pointers]
      BY <3>1, <3>2
    <3>4. QED BY <1>5, <3>1, <3>3 DEF Begin
  <2>2. CASE i \notin InUse
    BY <1>5, <2>2, SameTickets DEF Begin
  <2>3. QED BY <2>1, <2>2
<1>6. CASE End
  <2>1. current.key \in Nat /\ NoCall \in [key : Nat, block : Pointers]
    BY DEF NoCall, Pointers
  <2>2. handled' \in SUBSET Identities
    <3>1. current.key < identity
      BY DEF IInv, IdentitiesAreFresh
    <3>2. current.key \in Identities \/ current.key = 0
      BY <2>1, <3>1 DEF Identities
    <3>3. QED BY <1>6, <3>2 DEF End
  <2>3. QED BY <1>6, <2>1, <2>2, SameTickets DEF End
<1>7. CASE Invalidate
  <2>1. generation' \in 0 .. MaxGeneration /\ exhausted' \in BOOLEAN
    BY <1>7, GenerationStep DEF Invalidate
  <2>2. QED BY <1>7, <2>1, SameTickets DEF Invalidate
<1>8. CASE Stop
  <2>1. InUse' = InUse /\ tickets' \in [InUse' -> [generation : Nat, block : Pointers]]
    BY <1>8, StopTickets
  <2>2. generation' \in 0 .. MaxGeneration /\ exhausted' \in BOOLEAN
    BY <1>8, GenerationStep DEF Stop
  <2>3. QED BY <1>8, <2>1, <2>2 DEF Stop
<1>9. CASE Start \/ StartExhausted
  <2>1. generation' \in 0 .. MaxGeneration /\ exhausted' \in BOOLEAN
    BY <1>9, StartGeneration
  <2>2. open' \in BOOLEAN
    BY <1>9 DEF Start, StartExhausted
  <2>3. QED BY <1>9, <2>1, <2>2, SameTickets DEF Start, StartExhausted
<1>10. CASE UNCHANGED vars
  BY <1>10, SameTickets DEF vars
<1>11. QED BY <1>1, <1>2, <1>3, <1>4, <1>5, <1>6, <1>7, <1>8, <1>9, <1>10 DEF Next

\* Identities stay fresh: those handed out are below the next one and in one place.
LEMMA FreshStep ==
    ASSUME IInv, [Next]_vars PROVE IdentitiesAreFresh'
<1>0. TypeOK /\ IdentitiesAreFresh
  BY DEF IInv
<1> USE <1>0 DEF TypeOK, IdentitiesAreFresh
<1>1. ASSUME NEW s \in Submitters, Accept(s) PROVE IdentitiesAreFresh'
  <2>1. InUse' = InUse \cup {identity} /\ identity \notin InUse /\ identity' = identity + 1
    BY <1>1, AcceptTickets
  <2>2. identity \in Nat /\ async' = async \cup {identity} /\ UNCHANGED <<handled, current>>
    BY <1>1 DEF Accept
  <2>3. \A i \in InUse' \cup async' \cup handled' : i < identity'
    <3>1. \A i \in InUse \cup async \cup handled : i \in Nat /\ i < identity
      BY DEF Identities
    <3>2. QED BY <2>1, <2>2, <3>1
  <2>4. identity \notin handled /\ identity # current.key
    BY <2>2
  <2>5. QED BY <2>1, <2>2, <2>3, <2>4
<1>2. ASSUME NEW s \in Submitters, Rollback(s) PROVE IdentitiesAreFresh'
  <2>1. \A i \in InUse \cup async \cup handled : i \in Nat /\ i < identity
    BY DEF Identities
  <2>2. QED BY <1>2, <2>1, SameTickets DEF Rollback
<1>3. ASSUME NEW i \in Identities, Begin(i) PROVE IdentitiesAreFresh'
  <2>1. CASE i \in InUse
    <3>1. InUse' = InUse \ {i} /\ (current'.key = i \/ current'.key = 0)
      <4>1. current' = [key |-> IF IsCurrent(i) THEN i ELSE 0, block |-> tickets[i].block]
            /\ InUse' = InUse \ {i}
        BY <1>3, <2>1, BeginTickets
      <4>2. QED BY <4>1
    <3>2. i < identity /\ i \notin handled /\ 0 < identity /\ 0 \notin InUse /\ 0 \notin handled
      BY <2>1 DEF Identities
    <3>3. UNCHANGED <<identity, handled>> /\ async' \subseteq async
      BY <1>3 DEF Begin
    <3>4. QED BY <3>1, <3>2, <3>3
  <2>2. CASE i \notin InUse
    BY <1>3, <2>2, SameTickets DEF Begin
  <2>3. QED BY <2>1, <2>2
<1>4. CASE End
  <2>1. handled' = handled \cup ({current.key} \ {0}) /\ current'.key = 0 /\ InUse' = InUse
        /\ UNCHANGED <<identity, async>>
    BY <1>4, SameTickets DEF End, NoCall
  <2>2. 0 \notin InUse /\ 0 \notin handled'
    BY <2>1 DEF Identities
  <2>3. QED BY <2>1, <2>2
<1>5. CASE Stop
  BY <1>5, StopTickets DEF Stop
<1>6. ASSUME UNCHANGED <<tickets, identity, async, handled, current>> PROVE IdentitiesAreFresh'
  BY <1>6, SameTickets
<1>7. ASSUME NEW s \in Submitters, NEW b \in Blocks, Allocate(s, b) PROVE IdentitiesAreFresh'
  BY <1>6, <1>7 DEF Allocate
<1>8. CASE Invalidate \/ Start \/ StartExhausted \/ UNCHANGED vars
  BY <1>6, <1>8 DEF Invalidate, Start, StartExhausted, vars
<1>9. ASSUME NEW s \in Submitters, Drop(s) PROVE IdentitiesAreFresh'
  BY <1>6, <1>9 DEF Drop
<1>10. QED BY <1>1, <1>2, <1>3, <1>4, <1>5, <1>7, <1>8, <1>9 DEF Next

\* A block changes hands as a whole: from malloc() to free() it has one owner.
OneOwner ==
    /\ heap = queue \cup Held \cup Running
    /\ queue \cap Held = {} /\ queue \cap Running = {} /\ Held \cap Running = {}
DistinctHands == \A s, t \in Submitters : hand[s] = hand[t] => s = t \/ hand[s] = NoBlock
TicketsHoldQueue ==
    /\ queue = {tickets[i].block : i \in Waiting}
    /\ \A i, j \in Waiting : tickets[i].block = tickets[j].block => i = j

LEMMA OwnedParts == BlocksAreOwned <=> OneOwner /\ DistinctHands /\ TicketsHoldQueue
BY DEF BlocksAreOwned, OneOwner, DistinctHands, TicketsHoldQueue

\* What a submitter holds after it takes a block or lets it go.
LEMMA HandStep ==
    ASSUME TypeOK, NEW s \in Submitters, NEW b \in Pointers, DistinctHands,
           hand' = [hand EXCEPT ![s] = b], hand[s] = NoBlock \/ b = NoBlock, b \notin Held
    PROVE  /\ Held' = (Held \ {hand[s]}) \cup ({b} \ {NoBlock})
           /\ DistinctHands'
<1>1. \A t \in Submitters : hand'[t] = IF t = s THEN b ELSE hand[t]
  BY DEF TypeOK
<1>2. \A t \in Submitters : hand[t] # NoBlock => hand[t] \in Held /\ hand[t] # b
  BY DEF Held
<1>3. DistinctHands'
  BY <1>1, <1>2 DEF DistinctHands
<1>4. \A x : x \in Held' <=> x # NoBlock /\ \E t \in Submitters : x = hand'[t]
  BY DEF Held
<1>5. \A x : x \in Held <=> x # NoBlock /\ \E t \in Submitters : x = hand[t]
  BY DEF Held
<1>6. \A t \in Submitters : t # s /\ hand[t] = hand[s] => hand[s] = NoBlock
  BY DEF DistinctHands
<1>7. \A x : x \in Held' <=> x \in (Held \ {hand[s]}) \cup ({b} \ {NoBlock})
  BY <1>1, <1>4, <1>5, <1>6
<1>8. QED BY <1>3, <1>7

LEMMA OwnStep ==
    ASSUME IInv, [Next]_vars PROVE BlocksAreOwned'
<1>0. TypeOK /\ OneOwner /\ DistinctHands /\ TicketsHoldQueue
  BY OwnedParts DEF IInv
<1>1. ASSUME NEW s \in Submitters, NEW b \in Blocks, Allocate(s, b) PROVE BlocksAreOwned'
  <2>1. /\ hand[s] = NoBlock /\ b \notin heap /\ heap' = heap \cup {b}
        /\ hand' = [hand EXCEPT ![s] = b] /\ UNCHANGED <<queue, tickets, current>> /\ b # NoBlock
    BY <1>1 DEF Allocate
  <2>2. Held' = (Held \ {hand[s]}) \cup ({b} \ {NoBlock}) /\ DistinctHands'
    BY <1>0, <2>1, HandStep DEF OneOwner, Pointers
  <2>3. Held' = Held \cup {b} /\ Running' = Running
    BY <2>1, <2>2 DEF Held, Running
  <2>4. OneOwner'
    BY <1>0, <2>1, <2>3 DEF OneOwner
  <2>5. TicketsHoldQueue'
    BY <1>0, <2>1, SameTickets DEF TicketsHoldQueue
  <2>6. QED BY <2>2, <2>4, <2>5 DEF BlocksAreOwned, OneOwner, DistinctHands, TicketsHoldQueue
<1>2. ASSUME NEW s \in Submitters, Accept(s) PROVE BlocksAreOwned'
  <2>1. /\ hand' = [hand EXCEPT ![s] = NoBlock] /\ UNCHANGED <<heap, current>> /\ queue' = queue \cup {hand[s]}
        /\ hand[s] # NoBlock
    BY <1>2 DEF Accept
  <2>2. NoBlock \in Pointers /\ NoBlock \notin Held /\ hand[s] \in Held
    BY <2>1 DEF Pointers, Held
  <2>3. Held' = (Held \ {hand[s]}) \cup ({NoBlock} \ {NoBlock}) /\ DistinctHands'
    BY <1>0, <2>1, <2>2, HandStep
  <2>4. Held' = Held \ {hand[s]} /\ Running' = Running
    BY <2>1, <2>3 DEF Running
  <2>5. OneOwner'
    BY <1>0, <2>1, <2>2, <2>4 DEF OneOwner
  <2>6. /\ Waiting' = Waiting \cup {identity} /\ identity \notin InUse /\ tickets'[identity].block = hand[s]
        /\ \A i \in InUse : tickets'[i] = tickets[i]
    <3>1. tickets'[identity] = [generation |-> generation, block |-> hand[s]]
      BY <1>2, AcceptTickets
    <3>2. tickets'[identity].block = hand[s]
      BY <3>1
    <3>3. QED BY <1>2, <3>2, AcceptTickets
  <2>7. Waiting \subseteq InUse
    BY DEF Waiting
  <2>8. \A i \in Waiting : tickets'[i].block = tickets[i].block /\ tickets[i].block \in queue
    BY <1>0, <2>6, <2>7 DEF TicketsHoldQueue
  <2>9. hand[s] \notin queue
    BY <1>0, <2>2 DEF OneOwner
  <2>10. \A i, j \in Waiting' : tickets'[i].block = tickets'[j].block => i = j
    BY <1>0, <2>6, <2>8, <2>9 DEF TicketsHoldQueue
  <2>11. \A x : x \in queue' <=> \E i \in Waiting' : x = tickets'[i].block
    BY <1>0, <2>1, <2>6, <2>8 DEF TicketsHoldQueue
  <2>12. queue' = {tickets'[i].block : i \in Waiting'}
    BY <2>11
  <2>13. QED BY <2>3, <2>5, <2>10, <2>12 DEF BlocksAreOwned, OneOwner, DistinctHands, TicketsHoldQueue
<1>3. ASSUME NEW s \in Submitters, Drop(s) \/ Rollback(s) PROVE BlocksAreOwned'
  <2>1. /\ UNCHANGED <<queue, tickets, current>> /\ heap' = heap \ {hand[s]}
        /\ hand' = [hand EXCEPT ![s] = NoBlock] /\ hand[s] # NoBlock
    BY <1>3 DEF Drop, Rollback
  <2>2. NoBlock \in Pointers /\ NoBlock \notin Held /\ hand[s] \in Held
    BY <2>1 DEF Pointers, Held
  <2>3. Held' = (Held \ {hand[s]}) \cup ({NoBlock} \ {NoBlock}) /\ DistinctHands'
    BY <1>0, <2>1, <2>2, HandStep
  <2>4. Held' = Held \ {hand[s]} /\ Running' = Running
    BY <2>1, <2>3 DEF Running
  <2>5. OneOwner'
    BY <1>0, <2>1, <2>2, <2>4 DEF OneOwner
  <2>6. TicketsHoldQueue'
    BY <1>0, <2>1, SameTickets DEF TicketsHoldQueue
  <2>7. QED BY <2>3, <2>5, <2>6 DEF BlocksAreOwned, OneOwner, DistinctHands, TicketsHoldQueue
<1>4. ASSUME NEW i \in Identities, Begin(i) PROVE BlocksAreOwned'
  <2>1. CASE i \in InUse
    <3> DEFINE b == tickets[i].block
    <3>1. /\ Waiting' = Waiting \ {i} /\ InUse' = InUse \ {i}
          /\ \A j \in InUse' : tickets'[j] = tickets[j]
          /\ queue' = queue \ {b}
          /\ current'.block = b
      BY <1>4, <2>1, BeginTickets
    <3>2. UNCHANGED <<heap, hand>> /\ Running = {}
      BY <1>4 DEF Begin, Idle, NoCall, Running
    <3>3. /\ Waiting \subseteq InUse /\ NoBlock \notin queue
          /\ \A j \in Waiting : tickets[j].block \in queue
          /\ i \in Waiting <=> b # NoBlock
      BY <1>0, <2>1 DEF Waiting, TicketsHoldQueue
    <3>4. Running' = {b} \ {NoBlock} /\ Held' = Held
      BY <3>1, <3>2 DEF Running, Held
    <3>5. b \in queue \/ b = NoBlock
      BY <3>3
    <3>6. OneOwner'
      <4> HIDE DEF b
      <4>1. NoBlock \notin heap
        BY <1>0 DEF TypeOK
      <4>2. QED BY <1>0, <3>1, <3>2, <3>4, <3>5, <4>1 DEF OneOwner
    <3>7. \A j \in Waiting' : tickets'[j].block = tickets[j].block
      BY <3>1, <3>3
    <3>8. \A j \in Waiting' : tickets[j].block # b
      BY <1>0, <3>1, <3>3 DEF TicketsHoldQueue
    <3>9. \A x : x \in queue' <=> \E j \in Waiting' : x = tickets'[j].block
      BY <1>0, <3>1, <3>3, <3>7, <3>8 DEF TicketsHoldQueue
    <3>10. queue' = {tickets'[j].block : j \in Waiting'}
      BY <3>9
    <3>11. \A j, k \in Waiting' : tickets'[j].block = tickets'[k].block => j = k
      BY <1>0, <3>1, <3>7 DEF TicketsHoldQueue
    <3>12. DistinctHands'
      BY <1>0, <3>2 DEF DistinctHands
    <3>13. QED BY <3>6, <3>10, <3>11, <3>12 DEF BlocksAreOwned, OneOwner, DistinctHands, TicketsHoldQueue
  <2>2. CASE i \notin InUse
    <3>1. UNCHANGED <<queue, tickets, current, heap, hand>>
      BY <1>4, <2>2 DEF Begin
    <3>2. QED BY <1>0, <3>1, SameTickets DEF BlocksAreOwned, OneOwner, DistinctHands, TicketsHoldQueue, Held, Running
  <2>3. QED BY <2>1, <2>2
<1>5. CASE End
  <2>1. UNCHANGED <<queue, tickets, hand>> /\ heap' = heap \ {current.block} /\ current' = NoCall
    BY <1>5 DEF End
  <2>2. Running' = {} /\ NoBlock \notin heap /\ Held' = Held /\ Running = {current.block} \ {NoBlock}
    BY <1>0, <2>1 DEF NoCall, Running, Held, TypeOK
  <2>3. OneOwner'
    BY <1>0, <2>1, <2>2 DEF OneOwner
  <2>4. TicketsHoldQueue' /\ DistinctHands'
    BY <1>0, <2>1, SameTickets DEF TicketsHoldQueue, DistinctHands
  <2>5. QED BY <2>3, <2>4 DEF BlocksAreOwned, OneOwner, DistinctHands, TicketsHoldQueue
<1>6. CASE Stop
  <2>1. Waiting' = {} /\ queue' = {} /\ heap' = heap \ queue /\ UNCHANGED <<hand, current>>
    BY <1>6, StopTickets DEF Stop, IInv
  <2>2. Held' = Held /\ Running' = Running
    BY <2>1 DEF Held, Running
  <2>3. OneOwner'
    BY <1>0, <2>1, <2>2 DEF OneOwner
  <2>4. TicketsHoldQueue' /\ DistinctHands'
    BY <1>0, <2>1 DEF TicketsHoldQueue, DistinctHands
  <2>5. QED BY <2>3, <2>4 DEF BlocksAreOwned, OneOwner, DistinctHands, TicketsHoldQueue
<1>7. CASE Invalidate \/ Start \/ StartExhausted \/ UNCHANGED vars
  <2>1. UNCHANGED <<queue, tickets, heap, hand, current>>
    BY <1>7 DEF Invalidate, Start, StartExhausted, vars
  <2>2. QED BY <1>0, <2>1, SameTickets DEF BlocksAreOwned, OneOwner, DistinctHands, TicketsHoldQueue, Held, Running
<1>8. QED BY <1>1, <1>2, <1>3, <1>4, <1>5, <1>6, <1>7 DEF Next

-----------------------------------------------------------------------------
\* A block that waits is in the queue, and in no submitter's hand.
LEMMA WaitingBlocks ==
    ASSUME IInv
    PROVE  /\ Waiting \subseteq InUse
           /\ \A i \in Waiting : tickets[i].block \in queue /\ tickets[i].block \in Blocks
           /\ \A s \in Submitters : hand[s] \notin queue
           /\ \A i \in InUse : tickets[i].generation \in Nat
<1>1. \A i \in Waiting : tickets[i].block \in queue
  BY DEF IInv, BlocksAreOwned
<1>2. \A s \in Submitters : hand[s] \notin queue
  <2>1. NoBlock \notin queue
    BY DEF IInv, TypeOK
  <2>2. \A s \in Submitters : hand[s] \in Held \/ hand[s] = NoBlock
    BY DEF Held
  <2>3. QED BY <2>1, <2>2 DEF IInv, BlocksAreOwned
<1>3. queue \subseteq Blocks /\ \A i \in InUse : tickets[i].generation \in Nat
  BY DEF IInv, TypeOK
<1>4. QED BY <1>1, <1>2, <1>3 DEF Waiting

\* The stamp of a block nobody waits for may change.
LEMMA OtherStamps ==
    ASSUME IInv, NEW s \in Submitters, stamp' = [stamp EXCEPT ![hand[s]] = generation]
    PROVE  \A i \in Waiting : stamp'[tickets[i].block] = stamp[tickets[i].block]
<1>1. \A i \in Waiting : tickets[i].block # hand[s] /\ tickets[i].block \in Blocks
  BY WaitingBlocks
<1>2. QED BY <1>1 DEF IInv, TypeOK

LEMMA StampStep ==
    ASSUME IInv, [Next]_vars PROVE StampsMatch'
<1>0. /\ StampsMatch /\ generation \in 0 .. MaxGeneration /\ Waiting \subseteq InUse
      /\ \A i \in InUse : tickets[i].generation \in Nat
  BY WaitingBlocks DEF IInv, TypeOK
<1>1. ASSUME NEW s \in Submitters, Accept(s) PROVE StampsMatch'
  <2>1. /\ InUse' = InUse \cup {identity} /\ identity \notin InUse /\ Waiting' = Waiting \cup {identity}
        /\ tickets'[identity] = [generation |-> generation, block |-> hand[s]]
        /\ \A i \in InUse : tickets'[i] = tickets[i]
        /\ hand[s] \in Blocks
    BY <1>1, AcceptTickets
  <2>2. stamp' = [stamp EXCEPT ![hand[s]] = generation] /\ UNCHANGED <<generation, open, current>> /\ open
    BY <1>1 DEF Accept
  <2>3. \A i \in InUse' : tickets'[i].generation <= generation'
    BY <1>0, <2>1, <2>2 DEF StampsMatch
  <2>4. stamp'[hand[s]] = generation
    BY <2>1, <2>2 DEF IInv, TypeOK
  <2>5. \A i \in Waiting : stamp'[tickets[i].block] = tickets[i].generation
    BY <1>0, <2>2, OtherStamps DEF StampsMatch
  <2>6. \A i \in Waiting' : stamp'[tickets'[i].block] = tickets'[i].generation
    BY <1>0, <2>1, <2>4, <2>5
  <2>7. QED BY <1>0, <2>2, <2>3, <2>6 DEF StampsMatch
<1>2. ASSUME NEW s \in Submitters, Rollback(s) PROVE StampsMatch'
  <2>1. stamp' = [stamp EXCEPT ![hand[s]] = generation] /\ UNCHANGED <<tickets, queue, generation, open, current>>
    BY <1>2 DEF Rollback
  <2>2. \A i \in Waiting : stamp'[tickets[i].block] = tickets[i].generation
    BY <1>0, <2>1, OtherStamps DEF StampsMatch
  <2>3. QED BY <1>0, <2>1, <2>2, SameTickets DEF StampsMatch
<1>3. ASSUME NEW i \in Identities, Begin(i) PROVE StampsMatch'
  <2>1. UNCHANGED <<stamp, generation, open>>
    BY <1>3 DEF Begin
  <2>2. CASE i \in InUse
    <3>1. /\ InUse' = InUse \ {i} /\ Waiting' = Waiting \ {i}
          /\ \A j \in InUse' : tickets'[j] = tickets[j]
          /\ queue' = queue \ {tickets[i].block}
          /\ current' = [key |-> IF IsCurrent(i) THEN i ELSE 0, block |-> tickets[i].block]
      BY <1>3, <2>2, BeginTickets
    <3>2. current'.key # 0 => current'.block # NoBlock
      BY <3>1 DEF IsCurrent, Waiting
    <3>3. QED BY <1>0, <2>1, <3>1, <3>2 DEF StampsMatch
  <2>3. CASE i \notin InUse
    <3>1. UNCHANGED <<tickets, queue, current>>
      BY <1>3, <2>3 DEF Begin
    <3>2. QED BY <1>0, <2>1, <3>1, SameTickets DEF StampsMatch
  <2>4. QED BY <2>2, <2>3
<1>4. CASE End
  BY <1>0, <1>4, SameTickets DEF End, NoCall, StampsMatch
<1>5. ASSUME NextGeneration, UNCHANGED <<tickets, stamp, current, open, queue>> PROVE StampsMatch'
  <2>1. generation <= generation' /\ generation' \in 0 .. MaxGeneration
    BY <1>5, GenerationStep DEF IInv
  <2>2. \A i \in InUse : tickets[i].generation <= generation'
    BY <1>0, <2>1 DEF StampsMatch
  <2>3. QED BY <1>0, <1>5, <2>2, SameTickets DEF StampsMatch
<1>6. CASE Stop
  <2>1. generation <= generation' /\ generation' \in 0 .. MaxGeneration
    BY <1>6, GenerationStep DEF IInv, Stop
  <2>2. /\ InUse' = InUse /\ Waiting' = {}
        /\ \A i \in InUse : tickets'[i].generation = tickets[i].generation
    BY <1>6, StopTickets
  <2>3. \A i \in InUse' : tickets'[i].generation <= generation'
    BY <1>0, <2>1, <2>2 DEF StampsMatch
  <2>4. queue' = {} /\ current' = current
    BY <1>6 DEF Stop
  <2>5. QED BY <1>0, <2>2, <2>3, <2>4 DEF StampsMatch
<1>7. CASE Start \/ StartExhausted
  <2>1. generation <= generation' /\ UNCHANGED <<tickets, stamp, current, queue>> /\ (~open' => ~open)
    <3>1. CASE Start
      <4>1. generation' = generation + 1 /\ open' = TRUE /\ UNCHANGED <<tickets, stamp, current, queue>>
        BY <3>1 DEF Start
      <4>2. QED BY <1>0, <4>1
    <3>2. CASE StartExhausted
      <4>1. generation' = generation /\ UNCHANGED <<tickets, stamp, current, queue, open>>
        BY <3>2 DEF StartExhausted
      <4>2. QED BY <1>0, <4>1
    <3>3. QED BY <1>7, <3>1, <3>2
  <2>2. generation' \in 0 .. MaxGeneration
    BY <1>7, StartGeneration DEF IInv
  <2>3. \A i \in InUse : tickets[i].generation <= generation'
    BY <1>0, <2>1, <2>2 DEF StampsMatch
  <2>4. QED BY <1>0, <2>1, <2>3, SameTickets DEF StampsMatch
<1>8. ASSUME UNCHANGED <<tickets, stamp, generation, current, open, queue>> PROVE StampsMatch'
  BY <1>0, <1>8, SameTickets DEF StampsMatch
<1>9. CASE UNCHANGED vars
  BY <1>8, <1>9 DEF vars
<1>10. ASSUME NEW s \in Submitters, Drop(s) \/ \E b \in Blocks : Allocate(s, b) PROVE StampsMatch'
  BY <1>8, <1>10 DEF Drop, Allocate
<1>11. CASE Invalidate
  BY <1>5, <1>11 DEF Invalidate
<1>12. QED BY <1>1, <1>2, <1>3, <1>4, <1>6, <1>7, <1>9, <1>10, <1>11 DEF Next

\* The inductive invariant holds in every reachable state.
THEOREM Inductive == Spec => []IInv
<1>1. IInv /\ [Next]_vars => IInv'
  BY TypeStep, OwnStep, FreshStep, StampStep DEF IInv
<1>2. QED BY InitIInv, <1>1, PTL DEF Spec

\* Every state is one the program can represent.
THEOREM TypeCorrect == Spec => []TypeOK
<1>1. IInv => TypeOK
  BY DEF IInv
<1>2. QED BY Inductive, <1>1, PTL

\* No block leaks, is freed twice or is used after it was freed, whatever stop(),
\* start() and the calls of LVGL do in between (keyboard_dispatch.cpp:213).
THEOREM OwnedOnce == Spec => []BlocksAreOwned
<1>1. IInv => BlocksAreOwned
  BY DEF IInv
<1>2. QED BY Inductive, <1>1, PTL

-----------------------------------------------------------------------------
LEMMA TicketsAreFinite ==
    ASSUME TypeOK PROVE IsFiniteSet(InUse) /\ Cardinality(InUse) \in Nat
<1>1. MaxIdentity \in Int /\ 1 \in Int
  OBVIOUS
<1>2. IsFiniteSet(Identities)
  BY <1>1, FS_Interval DEF Identities
<1>3. InUse \subseteq Identities
  BY DEF TypeOK
<1>4. QED BY <1>2, <1>3, FS_Subset, FS_CardinalityType

\* The queue is no longer than the list of tickets.
LEMMA QueueIsNoLonger ==
    ASSUME IInv PROVE Cardinality(queue) <= Cardinality(InUse)
<1> DEFINE f == [i \in Waiting |-> tickets[i].block]
<1>1. IsFiniteSet(InUse) /\ Waiting \subseteq InUse
  BY TicketsAreFinite, WaitingBlocks DEF IInv
<1>2. IsFiniteSet(Waiting) /\ Cardinality(Waiting) <= Cardinality(InUse)
  BY <1>1, FS_Subset
<1>3. queue = {tickets[i].block : i \in Waiting}
  BY DEF IInv, BlocksAreOwned
<1>4. f \in Surjection(Waiting, queue)
  BY <1>3 DEF Surjection
<1>5. IsFiniteSet(queue) /\ Cardinality(queue) <= Cardinality(Waiting)
  BY <1>2, <1>4, FS_Surjection
<1>6. Cardinality(queue) \in Nat /\ Cardinality(Waiting) \in Nat /\ Cardinality(InUse) \in Nat
  BY <1>1, <1>2, <1>5, FS_CardinalityType
<1>7. QED BY <1>2, <1>5, <1>6

TicketsBounded == InUse \subseteq async /\ Cardinality(InUse) <= Capacity

LEMMA BoundedStep ==
    ASSUME IInv, TicketsBounded, [Next]_vars PROVE TicketsBounded'
<1>1. IsFiniteSet(InUse) /\ Cardinality(InUse) \in Nat /\ Capacity \in Nat
  BY TicketsAreFinite DEF IInv
<1>2. ASSUME NEW s \in Submitters, Accept(s) PROVE TicketsBounded'
  <2>1. InUse' = InUse \cup {identity} /\ identity \notin InUse
    BY <1>2, AcceptTickets
  <2>2. async' = async \cup {identity} /\ Cardinality(InUse) < Capacity
    BY <1>2 DEF Accept, TicketFree
  <2>3. Cardinality(InUse \cup {identity}) = Cardinality(InUse) + 1
    BY <1>1, <2>1, FS_AddElement
  <2>4. Cardinality(InUse') <= Capacity
    BY <1>1, <2>1, <2>2, <2>3
  <2>5. QED BY <2>1, <2>2, <2>4 DEF TicketsBounded
<1>3. ASSUME NEW i \in Identities, Begin(i) PROVE TicketsBounded'
  <2>1. CASE i \in InUse
    <3>1. InUse' = InUse \ {i} /\ async' = async \ {i}
      BY <1>3, <2>1, BeginTickets DEF Begin
    <3>2. Cardinality(InUse \ {i}) = Cardinality(InUse) - 1
      BY <1>1, <2>1, FS_RemoveElement
    <3>3. Cardinality(InUse') <= Capacity
      BY <1>1, <3>1, <3>2 DEF TicketsBounded
    <3>4. QED BY <3>1, <3>3 DEF TicketsBounded
  <2>2. CASE i \notin InUse
    BY <1>3, <2>2, SameTickets DEF Begin, TicketsBounded
  <2>3. QED BY <2>1, <2>2
<1>4. CASE Stop
  BY <1>4, StopTickets DEF Stop, TicketsBounded
<1>5. ASSUME UNCHANGED <<tickets, async>> PROVE TicketsBounded'
  BY <1>5, SameTickets DEF TicketsBounded
<1>6. CASE End \/ Invalidate \/ Start \/ StartExhausted \/ UNCHANGED vars
  BY <1>5, <1>6 DEF End, Invalidate, Start, StartExhausted, vars
<1>7. ASSUME NEW s \in Submitters, Drop(s) \/ Rollback(s) \/ \E b \in Blocks : Allocate(s, b)
      PROVE TicketsBounded'
  BY <1>5, <1>7 DEF Drop, Rollback, Allocate
<1>8. QED BY <1>2, <1>3, <1>4, <1>6, <1>7 DEF Next

\* Every ticket in use has its call in LVGL's list, and the tickets bound the
\* queue: no order of calls uses them up for good (keyboard_dispatch.cpp:258).
THEOREM TicketsAlwaysComeBack == Spec => []TicketsComeBack
<1>1. Init => TicketsBounded
  <2> SUFFICES ASSUME Init PROVE TicketsBounded
    OBVIOUS
  <2>1. InUse = {}
    BY DEF Init, InUse
  <2>2. Cardinality(InUse) = 0
    BY <2>1, FS_EmptySet
  <2>3. QED BY <2>1, <2>2 DEF TicketsBounded
<1>2. IInv /\ TicketsBounded /\ [Next]_vars => TicketsBounded'
  BY BoundedStep
<1>3. IInv /\ TicketsBounded => TicketsComeBack
  BY QueueIsNoLonger DEF TicketsBounded, TicketsComeBack
<1>4. QED BY Inductive, <1>1, <1>2, <1>3, PTL DEF Spec

-----------------------------------------------------------------------------
\* Steps that neither touch a waiting ticket nor the generation keep the current keys.
LEMMA SameCurrent ==
    ASSUME IInv, UNCHANGED <<open, exhausted, generation, tickets>>,
           \A i \in Waiting : stamp'[tickets[i].block] = stamp[tickets[i].block]
    PROVE  Current' = Current
<1>1. InUse' = InUse /\ Waiting' = Waiting
  BY SameTickets
<1>2. \A i \in InUse : IsCurrent(i)' <=> IsCurrent(i)
  BY <1>1 DEF IsCurrent
<1>3. QED BY <1>1, <1>2 DEF Current

\* Nothing is current in a new generation.
LEMMA NothingCurrent ==
    ASSUME IInv, IInv', exhausted' \/ ~open' \/ generation < generation',
           InUse' \subseteq InUse, \A i \in InUse' : tickets'[i].generation = tickets[i].generation
    PROVE  Current' = {}
<1>1. \A i \in InUse : tickets[i].generation <= generation /\ tickets[i].generation \in Nat
  BY WaitingBlocks DEF IInv, StampsMatch
<1>2. generation \in Nat /\ generation' \in Nat
  BY DEF IInv, TypeOK
<1>3. \A i \in InUse' : tickets'[i].generation = generation' => ~(generation < generation')
  BY <1>1, <1>2
<1>4. \A i \in InUse' : ~IsCurrent(i)'
  BY <1>3 DEF IsCurrent
<1>5. QED BY <1>4 DEF Current

\* A new generation dismisses the keys, or there was none.
LEMMA DismissStep ==
    ASSUME IInv, IInv', NextGeneration, Idle, UNCHANGED <<current, handled>>, InUse' = InUse,
           \A i \in InUse : tickets'[i].generation = tickets[i].generation
    PROVE  [Delivery!Next]_<<Undelivered, handled, <<generation, exhausted>>>>
<1>1. exhausted' \/ generation < generation'
  BY GenerationStep DEF IInv
<1>2. Current' = {}
  BY <1>1, NothingCurrent
<1>3. Undelivered' = {}
  BY <1>2 DEF Undelivered, Idle, NoCall
<1>4. CASE generation' = generation /\ exhausted' = exhausted
  <2>1. generation \in Nat
    BY DEF IInv, TypeOK
  <2>2. exhausted
    BY <1>1, <1>4, <2>1
  <2>3. Current = {}
    BY <2>2 DEF Current, IsCurrent
  <2>4. Undelivered = {}
    BY <2>3 DEF Undelivered, Idle, NoCall
  <2>5. QED BY <1>3, <1>4, <2>4
<1>5. CASE ~(generation' = generation /\ exhausted' = exhausted)
  <2>1. <<generation, exhausted>>' # <<generation, exhausted>>
    BY <1>5
  <2>2. Delivery!Dismiss
    BY <1>3, <2>1 DEF Delivery!Dismiss
  <2>3. QED BY <2>2 DEF Delivery!Next
<1>6. QED BY <1>4, <1>5

LEMMA DeliveryStep ==
    ASSUME IInv, IInv', [Next]_vars
    PROVE  [Delivery!Next]_<<Undelivered, handled, <<generation, exhausted>>>>
<1> DEFINE Goal == [Delivery!Next]_<<Undelivered, handled, <<generation, exhausted>>>>
<1>1. ASSUME UNCHANGED <<open, exhausted, generation, tickets, current, handled>>,
             \A i \in Waiting : stamp'[tickets[i].block] = stamp[tickets[i].block]
      PROVE Goal
  <2>1. Current' = Current
    BY <1>1, SameCurrent
  <2>2. Undelivered' = Undelivered
    BY <1>1, <2>1 DEF Undelivered
  <2>3. QED BY <1>1, <2>2
<1>2. ASSUME NEW s \in Submitters, Drop(s) \/ \E b \in Blocks : Allocate(s, b) PROVE Goal
  BY <1>1, <1>2 DEF Drop, Allocate
<1>3. ASSUME NEW s \in Submitters, Rollback(s) PROVE Goal
  <2>1. \A i \in Waiting : stamp'[tickets[i].block] = stamp[tickets[i].block]
    BY <1>3, OtherStamps DEF Rollback
  <2>2. QED BY <1>1, <1>3, <2>1 DEF Rollback
<1>4. ASSUME NEW s \in Submitters, Accept(s) PROVE Goal
  <2>1. /\ InUse' = InUse \cup {identity} /\ identity \notin InUse /\ identity \in Identities
        /\ Waiting' = Waiting \cup {identity}
        /\ tickets'[identity] = [generation |-> generation, block |-> hand[s]]
        /\ \A i \in InUse : tickets'[i] = tickets[i]
        /\ hand[s] \in Blocks
    BY <1>4, AcceptTickets
  <2>2. /\ stamp' = [stamp EXCEPT ![hand[s]] = generation] /\ open /\ ~exhausted
        /\ UNCHANGED <<open, exhausted, generation, current, handled>>
    BY <1>4 DEF Accept
  <2>3. \A i \in Waiting : stamp'[tickets[i].block] = stamp[tickets[i].block]
    BY <2>2, OtherStamps
  <2>4. stamp'[hand[s]] = generation /\ Waiting \subseteq InUse
    BY <2>1, <2>2, WaitingBlocks DEF IInv, TypeOK
  <2>5. \A i \in InUse' : i = identity => IsCurrent(i)'
    BY <2>1, <2>2, <2>4 DEF IsCurrent
  <2>6. \A i \in InUse : IsCurrent(i)' <=> IsCurrent(i)
    BY <2>1, <2>2, <2>3, <2>4 DEF IsCurrent
  <2>7. Current' = Current \cup {identity}
    BY <2>1, <2>5, <2>6 DEF Current
  <2>8. Undelivered' = Undelivered \cup {identity}
    BY <2>2, <2>7 DEF Undelivered
  <2>9. identity \notin Undelivered \cup handled
    <3>1. identity \in Nat /\ identity \notin handled /\ identity # current.key
      BY <2>1 DEF IInv, IdentitiesAreFresh, TypeOK, Identities
    <3>2. QED BY <2>1, <3>1 DEF Undelivered, Current
  <2>10. Delivery!Take(identity)
    BY <2>2, <2>8, <2>9 DEF Delivery!Take
  <2>11. QED BY <2>1, <2>10 DEF Delivery!Next
<1>5. ASSUME NEW i \in Identities, Begin(i) PROVE Goal
  <2>1. CASE i \in InUse
    <3>1. /\ InUse' = InUse \ {i} /\ Waiting' = Waiting \ {i}
          /\ \A j \in InUse' : tickets'[j] = tickets[j]
          /\ current' = [key |-> IF IsCurrent(i) THEN i ELSE 0, block |-> tickets[i].block]
      BY <1>5, <2>1, BeginTickets
    <3>2. UNCHANGED <<open, exhausted, generation, stamp, handled>> /\ current = NoCall
      BY <1>5 DEF Begin, Idle
    <3>3. \A j \in InUse' : IsCurrent(j)' <=> IsCurrent(j)
      BY <3>1, <3>2 DEF IsCurrent
    <3>4. Current' = Current \ {i}
      BY <3>1, <3>3 DEF Current
    <3>5. i # 0 /\ (IsCurrent(i) <=> i \in Current)
      BY <2>1 DEF Identities, Current
    <3>6. current'.key = IF IsCurrent(i) THEN i ELSE 0
      BY <3>1
    <3>7. current.key = 0
      BY <3>2 DEF NoCall
    <3>8. Undelivered' = Undelivered
      BY <3>4, <3>5, <3>6, <3>7 DEF Undelivered
    <3>9. QED BY <3>2, <3>8
  <2>2. CASE i \notin InUse
    BY <1>1, <1>5, <2>2 DEF Begin
  <2>3. QED BY <2>1, <2>2
<1>6. CASE End
  <2>1. /\ UNCHANGED <<open, exhausted, generation, stamp, tickets>> /\ current'.key = 0
        /\ handled' = handled \cup ({current.key} \ {0})
    BY <1>6 DEF End, NoCall
  <2>2. Current' = Current
    BY <2>1, SameCurrent
  <2>3. current.key \notin Current
    BY DEF IInv, IdentitiesAreFresh, Current
  <2>4. Undelivered' = Current /\ Undelivered = Current \cup ({current.key} \ {0})
    BY <2>1, <2>2 DEF Undelivered
  <2>5. CASE current.key = 0
    <3>1. Undelivered' = Undelivered /\ handled' = handled
      BY <2>1, <2>4, <2>5
    <3>2. QED BY <2>1, <3>1
  <2>6. CASE current.key # 0
    <3>1. current.key \in Identities
      BY <2>6 DEF IInv, IdentitiesAreFresh, TypeOK, Identities
    <3>2. Undelivered' = Undelivered \ {current.key} /\ current.key \in Undelivered
      BY <2>3, <2>4, <2>6
    <3>3. handled' = handled \cup {current.key}
      BY <2>1, <2>6
    <3>4. Delivery!Handle(current.key)
      BY <2>1, <3>2, <3>3 DEF Delivery!Handle
    <3>5. QED BY <3>1, <3>4 DEF Delivery!Next
  <2>7. QED BY <2>5, <2>6
<1>7. CASE Invalidate
  <2>1. InUse' = InUse /\ tickets' = tickets
    BY <1>7, SameTickets DEF Invalidate
  <2>2. QED BY <1>7, <2>1, DismissStep DEF Invalidate
<1>8. CASE Stop
  BY <1>8, StopTickets, DismissStep DEF Stop
<1>9. CASE Start \/ StartExhausted
  <2>1. UNCHANGED <<tickets, current, handled>> /\ Idle /\ ~open
    BY <1>9 DEF Start, StartExhausted
  <2>2. InUse' = InUse
    BY <2>1, SameTickets
  <2>3. exhausted' \/ ~open' \/ generation < generation'
    <3>1. generation \in Nat
      BY DEF IInv, TypeOK
    <3>2. QED BY <1>9, <3>1 DEF Start, StartExhausted
  <2>4. Current' = {} /\ Current = {}
    BY <2>1, <2>2, <2>3, NothingCurrent DEF Current, IsCurrent
  <2>5. Undelivered' = {} /\ Undelivered = {}
    BY <2>1, <2>4 DEF Undelivered, Idle, NoCall
  <2>6. CASE <<generation, exhausted>>' = <<generation, exhausted>>
    BY <2>1, <2>5, <2>6
  <2>7. CASE <<generation, exhausted>>' # <<generation, exhausted>>
    BY <2>1, <2>5, <2>7 DEF Delivery!Next, Delivery!Dismiss
  <2>8. QED BY <2>6, <2>7
<1>10. CASE UNCHANGED vars
  BY <1>1, <1>10 DEF vars
<1>11. QED BY <1>2, <1>3, <1>4, <1>5, <1>6, <1>7, <1>8, <1>9, <1>10 DEF Next

\* The dispatch implements the delivery it promises: a key that was taken is
\* handled once or dismissed, and never handled after that (keyboard_dispatch.cpp:107).
THEOREM DeliversOnce == Spec => RefinesKeyDelivery
<1>1. Init => Delivery!Init
  <2> SUFFICES ASSUME Init PROVE Delivery!Init
    OBVIOUS
  <2>1. InUse = {} /\ current.key = 0 /\ handled = {}
    BY DEF Init, InUse, NoCall
  <2>2. QED BY <2>1 DEF Delivery!Init, Undelivered, Current
<1>2. IInv /\ IInv' /\ [Next]_vars => [Delivery!Next]_<<Undelivered, handled, <<generation, exhausted>>>>
  BY DeliveryStep
<1>3. QED BY Inductive, <1>1, <1>2, PTL DEF Spec, RefinesKeyDelivery, Delivery!Spec

-----------------------------------------------------------------------------
(* The worker of cat *)

\* What the runs leave to the shape of the model: a request has the generation
\* that it was accepted in, and the end of the worker is told once.
CatTypes ==
    /\ work \in Seq(Requests) /\ Len(work) <= WorkCapacity
    /\ worker \in [pc : {"none", "receive", "timed_out", "read", "post", "exit"}, id : 0 .. MaxRequests]
    /\ results \subseteq Result /\ delivering \in Result \cup {None}
    /\ stop \in [Stoppers -> {"out", "entry", "notify", "wait", "relock"}]
    /\ sessionNow \in 0 .. MaxSessions /\ lost \cup answered \subseteq Accepted
    /\ session \in Seq(0 .. MaxSessions) /\ Len(session) <= MaxRequests
CatFlags == {task, closing, shutdown, disabled, callback, stopped, notified} \subseteq BOOLEAN

\* A worker that is there has its queue, and nobody has been told of its end; only
\* the shutdown stops after the shutdown began.
WorkerIsJoinedOnce ==
    /\ worker # NoWorker => task /\ ~stopped /\ \A s \in Stoppers : stop[s] # "relock"
    /\ ~shutdown => stop["quiesce"] = "out"

\* Whoever waits for a result is of the session in which it was asked for.
RequestsAreOfTheirSession ==
    /\ \A i \in DOMAIN work : work[i] \in Accepted /\ session[work[i]] = sessionNow
    /\ worker.pc \in {"read", "post"} => worker.id \in Accepted /\ session[worker.id] = sessionNow
    /\ \A r \in results : r.id \in Accepted /\ session[r.id] = r.generation
    /\ ~Free => /\ delivering.id \in Accepted /\ session[delivering.id] = sessionNow
                /\ callback

CatInv == CatTypes /\ CatFlags /\ WorkerIsJoinedOnce /\ RequestsAreOfTheirSession

\* Nothing was asked and nothing runs.
LEMMA InitCatInv == CatInit => CatInv
<1> SUFFICES ASSUME CatInit PROVE CatInv
    OBVIOUS
<1> USE CatLimits DEF CatInit
<1>1. CatTypes
    BY DEF CatTypes, NoWorker, None, Accepted, Stoppers
<1>4. CatFlags
    BY DEF CatFlags
<1>2. WorkerIsJoinedOnce
    BY DEF WorkerIsJoinedOnce, Stoppers
<1>3. RequestsAreOfTheirSession
    BY DEF RequestsAreOfTheirSession, NoWorker, Free
<1> QED
    BY <1>1, <1>2, <1>3, <1>4 DEF CatInv

\* A step of a stop moves the one who stops, and to "relock" only with the token.
LEMMA StopMoves ==
    ASSUME CatTypes, NEW s \in Stoppers, StopNext(s)
    PROVE  /\ stop' \in [Stoppers -> {"out", "entry", "notify", "wait", "relock"}]
           /\ \A t \in Stoppers : t # s => stop'[t] = stop[t]
           /\ stop'[s] = "relock" => stopped /\ ~stopped'
           /\ stopped' = stopped \/ stop[s] = "relock" \/ ~stopped'
           /\ task' = task \/ stop[s] = "relock"
<1> USE DEF At, GoTo
<1>0. stop \in [Stoppers -> {"out", "entry", "notify", "wait", "relock"}]
    BY DEF CatTypes
<1>1. CASE StopBegins(s)
    BY <1>0, <1>1 DEF StopBegins
<1>2. CASE StopRefused(s) \/ StopWithoutTask(s) \/ StopCloses(s) \/ StopNotifies(s)
    BY <1>0, <1>2 DEF StopRefused, StopWithoutTask, StopCloses, StopNotifies
<1>3. CASE StopJoins(s)
    BY <1>0, <1>3 DEF StopJoins
<1>4. CASE StopTimesOut(s) \/ StopReleases(s)
    BY <1>0, <1>4 DEF StopTimesOut, StopReleases
<1> QED
    BY <1>1, <1>2, <1>3, <1>4 DEF StopNext

\* The shutdown begins with its stop and is for good.
LEMMA ShutdownBegins ==
    ASSUME CatFlags, NEW s \in Stoppers, StopNext(s)
    PROVE  /\ shutdown => shutdown'
           /\ stop[s] = "out" /\ s = "quiesce" => shutdown'
<1>1. shutdown \in BOOLEAN
    BY DEF CatFlags
<1>2. CASE StopBegins(s)
    BY <1>1, <1>2 DEF StopBegins
<1>3. CASE ~StopBegins(s)
    BY <1>3 DEF StopNext, At, StopRefused, StopWithoutTask, StopCloses,
                StopNotifies, StopJoins, StopTimesOut, StopReleases
<1> QED
    BY <1>2, <1>3

\* What each step leaves of the worker and of those who stop it.
LEMMA JoinedStep ==
    ASSUME CatInv, [CatNext]_catVars
    PROVE  WorkerIsJoinedOnce'
<1> USE DEF WorkerIsJoinedOnce, Stoppers
<1>0. WorkerIsJoinedOnce /\ stop \in [Stoppers -> {"out", "entry", "notify", "wait", "relock"}]
    BY DEF CatInv, CatTypes
<1>1. CASE StartWorker
    BY <1>0, <1>1 DEF StartWorker, UiIsFree, NoWorker
<1>2. CASE Enqueue
    BY <1>0, <1>2 DEF Enqueue
<1>3. CASE DeliverEnds
    BY <1>0, <1>3 DEF DeliverEnds, DeliverOnly
<1>4. CASE WorkerNext
    BY <1>0, <1>4 DEF WorkerNext, WorkerOnly, Receive, TimeOut, LookAtClosing, Read, Post, Exit, NoWorker
<1>5. ASSUME NEW r \in results, Deliver(r) PROVE WorkerIsJoinedOnce'
    BY <1>0, <1>5 DEF Deliver, DeliverOnly
<1>6. ASSUME NEW s \in Stoppers, StopNext(s) PROVE WorkerIsJoinedOnce'
    <2>1. CatTypes /\ worker' = worker
        BY <1>6 DEF CatInv, StopNext, StopOnly, StopBegins, StopRefused, StopWithoutTask, StopCloses,
                    StopNotifies, StopJoins, StopTimesOut, StopReleases
    <2> QED
        BY <1>0, <1>6, <2>1, StopMoves, ShutdownBegins DEF CatInv
<1>7. CASE UNCHANGED catVars
    BY <1>0, <1>7 DEF catVars
<1> QED
    BY <1>1, <1>2, <1>3, <1>4, <1>5, <1>6, <1>7 DEF CatNext

\* The types, action by action.
LEMMA CatTypesStep ==
    ASSUME CatInv, [CatNext]_catVars
    PROVE  CatTypes'
<1> USE CatLimits DEF CatTypes
<1>0. CatTypes /\ WorkerIsJoinedOnce /\ RequestsAreOfTheirSession
    BY DEF CatInv
<1>1. CASE StartWorker
    <2>1. /\ worker' = worker \/ worker' = [pc |-> "receive", id |-> 0]
          /\ sessionNow' = sessionNow + 1 /\ sessionNow < MaxSessions /\ work' = <<>>
          /\ UNCHANGED <<results, delivering, stop, session, lost, answered>>
        BY <1>1 DEF StartWorker
    <2>2. worker' \in [pc : {"none", "receive", "timed_out", "read", "post", "exit"}, id : 0 .. MaxRequests]
        BY <1>0, <2>1
    <2> QED
        BY <1>0, <2>1, <2>2 DEF Accepted
<1>2. CASE Enqueue
    <2>1. Len(session) + 1 \in Requests /\ sessionNow \in 0 .. MaxSessions
        BY <1>0, <1>2 DEF Enqueue, Requests
    <2>2. /\ work' \in Seq(Requests) /\ Len(work') <= WorkCapacity
          /\ session' \in Seq(0 .. MaxSessions) /\ Len(session') <= MaxRequests
          /\ DOMAIN session \subseteq DOMAIN session'
        BY <1>0, <1>2, <2>1 DEF Enqueue
    <2> QED
        BY <1>0, <1>2, <2>2 DEF Enqueue, Accepted
<1>3. CASE DeliverEnds
    BY <1>0, <1>3 DEF DeliverEnds, DeliverOnly, RequestsAreOfTheirSession, Accepted
<1>4. CASE WorkerNext
    <2>1. CASE Receive
        BY <1>0, <2>1 DEF Receive, WorkerOnly, Accepted, Requests
    <2>2. CASE Post
        <3>1. worker.id \in Accepted /\ worker.id \in Requests /\ sessionNow \in Nat
            BY <1>0, <2>2 DEF Post, RequestsAreOfTheirSession, Accepted, Requests
        <3>2. [id |-> worker.id, generation |-> sessionNow] \in Result
            BY <3>1 DEF Result
        <3> QED
            BY <1>0, <2>2, <3>1, <3>2 DEF Post, WorkerOnly, Accepted
    <2>3. CASE TimeOut \/ LookAtClosing \/ Read \/ Exit
        <3>1. /\ \/ worker' = NoWorker
                 \/ \E pc \in {"exit", "timed_out", "receive", "post"} : worker' = [worker EXCEPT !.pc = pc]
              /\ UNCHANGED <<work, results, delivering, stop, sessionNow, session, lost, answered>>
            BY <2>3 DEF TimeOut, LookAtClosing, Read, Exit, WorkerOnly
        <3>2. worker' \in [pc : {"none", "receive", "timed_out", "read", "post", "exit"}, id : 0 .. MaxRequests]
            <4>1. CASE worker' = NoWorker
                BY <4>1 DEF NoWorker
            <4>2. ASSUME NEW pc \in {"exit", "timed_out", "receive", "post"}, worker' = [worker EXCEPT !.pc = pc]
                  PROVE  worker' \in [pc : {"none", "receive", "timed_out", "read", "post", "exit"},
                                      id : 0 .. MaxRequests]
                BY <1>0, <4>2
            <4> QED
                BY <3>1, <4>1, <4>2
        <3>3. Accepted' = Accepted
            BY <3>1 DEF Accepted
        <3> QED
            BY <1>0, <3>1, <3>2, <3>3
    <2> QED
        BY <1>4, <2>1, <2>2, <2>3 DEF WorkerNext
<1>5. ASSUME NEW r \in results, Deliver(r) PROVE CatTypes'
    BY <1>0, <1>5 DEF Deliver, DeliverOnly, Accepted
<1>6. ASSUME NEW s \in Stoppers, StopNext(s) PROVE CatTypes'
    <2>1. stop' \in [Stoppers -> {"out", "entry", "notify", "wait", "relock"}]
        BY <1>0, <1>6, StopMoves
    <2>2. StopOnly /\ (work' = work \/ work' = <<>>)
        BY <1>6 DEF StopNext, StopBegins, StopRefused, StopWithoutTask, StopCloses,
                    StopNotifies, StopJoins, StopTimesOut, StopReleases
    <2>3. work' \in Seq(Requests) /\ Len(work') <= WorkCapacity
        <3>1. <<>> \in Seq(Requests) /\ Len(<<>>) = 0 /\ 0 <= WorkCapacity
            OBVIOUS
        <3> QED
            BY <1>0, <2>2, <3>1
    <2>4. /\ worker' = worker /\ sessionNow' = sessionNow /\ results' = results /\ delivering' = delivering
          /\ session' = session /\ lost' = lost /\ answered' = answered /\ Accepted' = Accepted
        BY <2>2 DEF StopOnly, Accepted
    <2> QED
        BY <1>0, <2>1, <2>3, <2>4
<1>7. CASE UNCHANGED catVars
    BY <1>0, <1>7 DEF catVars, Accepted
<1> QED
    BY <1>1, <1>2, <1>3, <1>4, <1>5, <1>6, <1>7 DEF CatNext

\* Each flag is set and cleared, or kept.
LEMMA CatFlagsStep ==
    ASSUME CatInv, [CatNext]_catVars
    PROVE  CatFlags'
<1> USE DEF CatFlags
<1>0. CatFlags
    BY DEF CatInv
<1>1. CASE StartWorker \/ Enqueue \/ DeliverEnds
    BY <1>0, <1>1 DEF StartWorker, Enqueue, DeliverEnds, DeliverOnly
<1>2. CASE WorkerNext
    BY <1>0, <1>2 DEF WorkerNext, WorkerOnly, Receive, TimeOut, LookAtClosing, Read, Post, Exit
<1>3. ASSUME NEW r \in results, Deliver(r) PROVE CatFlags'
    BY <1>0, <1>3 DEF Deliver, DeliverOnly
<1>4. ASSUME NEW s \in Stoppers, StopNext(s) PROVE CatFlags'
    BY <1>0, <1>4 DEF StopNext, StopOnly, StopBegins, StopRefused, StopWithoutTask, StopCloses,
                      StopNotifies, StopJoins, StopTimesOut, StopReleases
<1>5. CASE UNCHANGED catVars
    BY <1>0, <1>5 DEF catVars
<1> QED
    BY <1>1, <1>2, <1>3, <1>4, <1>5 DEF CatNext

\* A request that is accepted leaves the earlier ones as they were; a session begins
\* when nothing of the one before is left but results.
LEMMA SessionsStep ==
    ASSUME CatInv, [CatNext]_catVars
    PROVE  RequestsAreOfTheirSession'
<1> USE CatLimits DEF RequestsAreOfTheirSession, Accepted, Free
<1>0. CatTypes /\ WorkerIsJoinedOnce /\ RequestsAreOfTheirSession
    BY DEF CatInv
<1>00. /\ work \in Seq(Requests) /\ session \in Seq(0 .. MaxSessions)
       /\ results \subseteq Result /\ delivering \in Result \cup {None}
       /\ worker \in [pc : {"none", "receive", "timed_out", "read", "post", "exit"}, id : 0 .. MaxRequests]
    BY <1>0 DEF CatTypes
<1>1. CASE StartWorker
    <2>1. worker = NoWorker /\ delivering = None
        BY <1>0, <1>1 DEF StartWorker, UiIsFree, WorkerIsJoinedOnce
    <2> QED
        BY <1>0, <1>00, <1>1, <2>1 DEF StartWorker, NoWorker
<1>2. CASE Enqueue
    <2>1. /\ DOMAIN session' = 1 .. Len(session) + 1
          /\ \A i \in DOMAIN session : i \in DOMAIN session' /\ session'[i] = session[i]
          /\ Len(session) + 1 \in DOMAIN session' /\ session'[Len(session) + 1] = sessionNow
        BY <1>00, <1>2 DEF Enqueue
    <2>2. /\ DOMAIN work' = 1 .. Len(work) + 1
          /\ \A i \in DOMAIN work' : work'[i] = Len(session) + 1 \/ (i \in DOMAIN work /\ work'[i] = work[i])
        BY <1>00, <1>2 DEF Enqueue
    <2> QED
        BY <1>0, <1>2, <2>1, <2>2 DEF Enqueue
<1>3. CASE DeliverEnds
    BY <1>0, <1>3 DEF DeliverEnds, DeliverOnly
<1>4. CASE WorkerNext
    <2>1. CASE Receive
        <3>1. /\ 1 \in DOMAIN work /\ Head(work) = work[1]
              /\ \A i \in DOMAIN Tail(work) : i + 1 \in DOMAIN work /\ Tail(work)[i] = work[i + 1]
            BY <1>00, <2>1 DEF Receive
        <3> QED
            BY <1>0, <2>1, <3>1 DEF Receive, WorkerOnly
    <2>2. CASE Post
        BY <1>0, <2>2 DEF Post, WorkerOnly
    <2>3. CASE TimeOut \/ LookAtClosing \/ Read \/ Exit
        <3>1. UNCHANGED <<work, results, delivering, sessionNow, session, callback>>
            BY <2>3 DEF TimeOut, LookAtClosing, Read, Exit, WorkerOnly
        <3>2. worker'.pc \in {"read", "post"} => worker.pc = "read" /\ worker'.id = worker.id
            BY <1>00, <2>3 DEF TimeOut, LookAtClosing, Read, Exit, NoWorker
        <3> QED
            BY <1>0, <3>1, <3>2
    <2> QED
        BY <1>4, <2>1, <2>2, <2>3 DEF WorkerNext
<1>5. ASSUME NEW r \in results, Deliver(r) PROVE RequestsAreOfTheirSession'
    BY <1>0, <1>5 DEF Deliver, DeliverOnly, Wanted
<1>6. ASSUME NEW s \in Stoppers, StopNext(s) PROVE RequestsAreOfTheirSession'
    BY <1>0, <1>6 DEF StopNext, StopOnly, At, GoTo, StopBegins, StopRefused, StopWithoutTask, StopCloses,
                      StopNotifies, StopJoins, StopTimesOut, StopReleases
<1>7. CASE UNCHANGED catVars
    BY <1>0, <1>7 DEF catVars
<1> QED
    BY <1>1, <1>2, <1>3, <1>4, <1>5, <1>6, <1>7 DEF CatNext

\* The invariant holds throughout.
LEMMA CatInductive == CatSpec => []CatInv
<1>1. CatInv /\ [CatNext]_catVars => CatInv'
    BY JoinedStep, CatTypesStep, CatFlagsStep, SessionsStep DEF CatInv
<1> QED
    BY <1>1, InitCatInv, PTL DEF CatSpec

\* The types of the cat worker are respected.
THEOREM CatTypeCorrect == CatSpec => []CatTypeOK
<1>1. CatInv => CatTypeOK
    BY DEF CatInv, CatTypes, CatFlags, CatTypeOK
<1> QED
    BY <1>1, CatInductive, PTL

(* However two stops give up, return the token of the worker's end and come *)
(* again, the queue is released only when the worker is gone.               *)
THEOREM QueueIsKept == CatSpec => []QueueOutlivesWorker
<1>1. CatInv => QueueOutlivesWorker
    BY DEF CatInv, WorkerIsJoinedOnce, QueueOutlivesWorker, NoWorker
<1> QED
    BY <1>1, CatInductive, PTL

(* A result that LVGL delivers late reaches no later session, and none is   *)
(* delivered into a callback that was withdrawn.                            *)
THEOREM OnlyTheAskerHears == CatSpec => []AnswersTheAsker
<1>1. CatInv => AnswersTheAsker
    BY DEF CatInv, RequestsAreOfTheirSession, AnswersTheAsker
<1> QED
    BY <1>1, CatInductive, PTL

\* A request is in one place: in the queue, with the worker, among the results, with
\* the callback, or answered.
Queued == {work[i] : i \in DOMAIN work}
InHand == IF worker.pc \in {"read", "post"} THEN {worker.id} ELSE {}
Posted == {r.id : r \in results}
Heard == IF Free THEN {} ELSE {delivering.id}
OnePlace ==
    /\ \A i, j \in DOMAIN work : work[i] = work[j] => i = j
    /\ Queued \cap (InHand \cup Posted \cup Heard \cup answered) = {}
    /\ InHand \cap (Posted \cup Heard \cup answered) = {}
    /\ Posted \cap (Heard \cup answered) = {}
    /\ Heard \cap answered = {}

\* Whatever is in a place was accepted.
LEMMA PlacesAreAccepted ==
    ASSUME CatInv
    PROVE  Queued \cup InHand \cup Posted \cup Heard \cup answered \subseteq Accepted
BY DEF CatInv, CatTypes, RequestsAreOfTheirSession, Queued, InHand, Posted, Heard

\* Of two results of one request there is only one.
LEMMA ResultsDiffer ==
    ASSUME CatInv, NEW r \in results
    PROVE  {q.id : q \in results \ {r}} = Posted \ {r.id}
<1>1. \A q \in results : q \in Result /\ session[q.id] = q.generation
    BY DEF CatInv, CatTypes, RequestsAreOfTheirSession
<1>2. \A q \in results : q.id = r.id => q = r
    BY <1>1 DEF Result
<1> QED
    BY <1>2 DEF Posted

\* Each step moves one request from its place to the next.
LEMMA OnePlaceStep ==
    ASSUME CatInv, OnePlace, [CatNext]_catVars
    PROVE  OnePlace'
<1> USE DEF OnePlace
<1>0. CatTypes /\ WorkerIsJoinedOnce /\ RequestsAreOfTheirSession
    BY DEF CatInv
<1>1. CASE StartWorker
    <2>1. worker = NoWorker
        BY <1>0, <1>1 DEF StartWorker, WorkerIsJoinedOnce
    <2>2. Queued' = {} /\ InHand' = {} /\ Posted' = Posted /\ Heard' = Heard /\ answered' = answered
        BY <1>1, <2>1 DEF StartWorker, Queued, InHand, Posted, Heard, Free, NoWorker
    <2> QED
        BY <1>1, <2>2 DEF StartWorker
<1>2. CASE Enqueue
    <2> DEFINE n == Len(session) + 1
    <2>1. /\ DOMAIN work' = 1 .. Len(work) + 1 /\ work'[Len(work) + 1] = n
          /\ \A i \in DOMAIN work' : i # Len(work) + 1 => i \in DOMAIN work /\ work'[i] = work[i]
        BY <1>0, <1>2 DEF Enqueue, CatTypes
    <2>2. n \notin Accepted
        BY <1>0 DEF CatTypes, Accepted
    <2>3. Queued' = Queued \cup {n}
        <3>1. work \in Seq(Requests) /\ Len(work) \in Nat /\ DOMAIN work = 1 .. Len(work)
            BY <1>0 DEF CatTypes
        <3>2. Len(work) + 1 \in DOMAIN work' /\ \A i \in DOMAIN work : i \in DOMAIN work' /\ work'[i] = work[i]
            BY <2>1, <3>1
        <3>3. \A x \in Queued' : x \in Queued \cup {n}
            BY <2>1 DEF Queued
        <3>4. \A x \in Queued \cup {n} : x \in Queued'
            BY <2>1, <3>2 DEF Queued
        <3> QED
            BY <3>3, <3>4
    <2>4. InHand' = InHand /\ Posted' = Posted /\ Heard' = Heard /\ answered' = answered
        BY <1>2 DEF Enqueue, InHand, Posted, Heard, Free
    <2> HIDE DEF n
    <2>5. \A i, j \in DOMAIN work' : work'[i] = work'[j] => i = j
        BY <2>1, <2>2, PlacesAreAccepted DEF Queued
    <2> QED
        BY <2>2, <2>3, <2>4, <2>5, PlacesAreAccepted
<1>3. CASE DeliverEnds
    <2>1. /\ Queued' = Queued /\ InHand' = InHand /\ Posted' = Posted /\ Heard' = {}
          /\ answered' = answered \cup Heard
        BY <1>3 DEF DeliverEnds, DeliverOnly, Queued, InHand, Posted, Heard, Free
    <2> QED
        BY <1>3, <2>1 DEF DeliverEnds, DeliverOnly
<1>4. CASE WorkerNext
    <2>0. Heard' = Heard /\ answered' = answered
        BY <1>4 DEF WorkerNext, WorkerOnly, Receive, TimeOut, LookAtClosing, Read, Post, Exit, Heard, Free
    <2>1. CASE Receive
        <3>1. /\ work' = Tail(work) /\ work \in Seq(Requests) /\ work # <<>>
              /\ 1 \in DOMAIN work /\ Head(work) = work[1] /\ DOMAIN work' = 1 .. Len(work) - 1
              /\ \A i \in DOMAIN work' : i + 1 \in DOMAIN work /\ i + 1 # 1 /\ work'[i] = work[i + 1]
            BY <1>0, <2>1 DEF Receive, CatTypes
        <3>2. Queued' = Queued \ {Head(work)} /\ Head(work) \in Queued
            <4>1. \A i \in DOMAIN work : i # 1 => i - 1 \in DOMAIN work' /\ work'[i - 1] = work[i]
                BY <3>1
            <4>2. \A x \in Queued' : x \in Queued /\ x # Head(work)
                BY <3>1 DEF Queued
            <4>3. \A x \in Queued : x # Head(work) => x \in Queued'
                <5> SUFFICES ASSUME NEW i \in DOMAIN work, work[i] # Head(work) PROVE work[i] \in Queued'
                    BY DEF Queued
                <5>1. i # 1
                    BY <3>1
                <5>2. i - 1 \in DOMAIN work' /\ work'[i - 1] = work[i]
                    BY <4>1, <5>1
                <5> QED
                    BY <5>2 DEF Queued
            <4> QED
                BY <3>1, <4>2, <4>3 DEF Queued
        <3>3. InHand' = {Head(work)} /\ Posted' = Posted
            BY <2>1 DEF Receive, InHand, Posted, WorkerOnly
        <3>4. \A i, j \in DOMAIN work' : work'[i] = work'[j] => i = j
            BY <3>1
        <3> QED
            BY <2>0, <3>2, <3>3, <3>4
    <2>2. CASE Post
        <3>1. InHand = {worker.id} /\ InHand' = {} /\ Queued' = Queued
            BY <2>2 DEF Post, InHand, Queued, WorkerOnly
        <3>2. Posted' \subseteq Posted \cup InHand
            BY <2>2, <3>1 DEF Post, Posted
        <3> QED
            BY <2>0, <2>2, <3>1, <3>2 DEF Post
    <2>3. CASE TimeOut \/ LookAtClosing \/ Read \/ Exit
        <3>1. InHand' \subseteq InHand
            BY <1>0, <2>3 DEF TimeOut, LookAtClosing, Read, Exit, InHand, NoWorker, CatTypes
        <3>2. work' = work /\ Queued' = Queued /\ Posted' = Posted
            BY <2>3 DEF TimeOut, LookAtClosing, Read, Exit, Queued, Posted
        <3> QED
            BY <2>0, <3>1, <3>2
    <2> QED
        BY <1>4, <2>1, <2>2, <2>3 DEF WorkerNext
<1>5. ASSUME NEW r \in results, Deliver(r) PROVE OnePlace'
    <2>1. Posted' = Posted \ {r.id} /\ r.id \in Posted
        BY <1>5, ResultsDiffer DEF Deliver, Posted
    <2>2. Queued' = Queued /\ InHand' = InHand /\ answered' = answered /\ work' = work
        BY <1>5 DEF Deliver, DeliverOnly, Queued, InHand
    <2>3. Heard' \subseteq {r.id}
        BY <1>5 DEF Deliver, Heard, Free
    <2> QED
        BY <2>1, <2>2, <2>3
<1>6. ASSUME NEW s \in Stoppers, StopNext(s) PROVE OnePlace'
    <2>1. StopOnly /\ (work' = work \/ work' = <<>>)
        BY <1>6 DEF StopNext, StopBegins, StopRefused, StopWithoutTask, StopCloses,
                    StopNotifies, StopJoins, StopTimesOut, StopReleases
    <2>2. InHand' = InHand /\ Posted' = Posted /\ Heard' = Heard /\ answered' = answered
        BY <2>1 DEF StopOnly, InHand, Posted, Heard, Free
    <2>3. Queued' = Queued \/ Queued' = {}
        BY <2>1 DEF Queued
    <2> QED
        BY <2>1, <2>2, <2>3
<1>7. CASE UNCHANGED catVars
    BY <1>7 DEF catVars, Queued, InHand, Posted, Heard, Free
<1> QED
    BY <1>1, <1>2, <1>3, <1>4, <1>5, <1>6, <1>7 DEF CatNext

(* No request is answered twice: the callback runs only for a request for   *)
(* which it never ran, whatever is stopped, started anew or late.           *)
THEOREM AnsweredOnce ==
    CatSpec => [][delivering' # delivering /\ delivering' # None => delivering'.id \notin answered]_catVars
<1>1. CatInit => OnePlace
    BY DEF CatInit, OnePlace, Queued, InHand, Posted, Heard, NoWorker, Free
<1>2. CatInv /\ OnePlace /\ [CatNext]_catVars
         => [delivering' # delivering /\ delivering' # None => delivering'.id \notin answered]_catVars
    <2> SUFFICES ASSUME CatInv, OnePlace, CatNext, delivering' # delivering, delivering' # None
                 PROVE  delivering'.id \notin answered
        OBVIOUS
    <2>1. PICK r \in results : Deliver(r)
        BY DEF CatNext, StartWorker, Enqueue, DeliverEnds, WorkerNext, WorkerOnly, Receive, TimeOut, LookAtClosing,
               Read, Post, Exit, StopNext, StopOnly, StopBegins, StopRefused, StopWithoutTask, StopCloses,
               StopNotifies, StopJoins, StopTimesOut, StopReleases
    <2> QED
        BY <2>1 DEF Deliver, OnePlace, Posted
<1> QED
    BY <1>1, <1>2, OnePlaceStep, CatInductive, PTL DEF CatSpec
=============================================================================
