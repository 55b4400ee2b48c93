-------------------------- MODULE KeyboardDispatch --------------------------
(***************************************************************************)
(* platform/input/cyberdeck_keyboard_dispatch.cpp: keys from the keyboard  *)
(* task and from the serial bridge are handed to LVGL.  Each key is a heap *)
(* block in a bounded queue; the asynchronous call of LVGL carries only    *)
(* the identity of a ticket, because stop() and start() may free the block *)
(* before the call comes.  Everything under s_mutex is one step; malloc()  *)
(* precedes it, the handler and free() follow it.  LVGL runs its calls in  *)
(* any order; stop(), start() and invalidate_pending() run in its context. *)
(***************************************************************************)
EXTENDS Naturals, FiniteSets

CONSTANTS
    Submitters,     \* tasks that call submit()
    Blocks,         \* addresses malloc() may return
    NoBlock,        \* nullptr
    Capacity,       \* k_queue_capacity, also the number of tickets
    MaxGeneration,  \* UINT64_MAX
    MaxIdentity     \* UINTPTR_MAX

ASSUME BlocksAssumption == NoBlock \notin Blocks
ASSUME LimitsAssumption ==
    Capacity \in Nat \ {0} /\ MaxGeneration \in Nat \ {0} /\ MaxIdentity \in Nat \ {0}

VARIABLES
    queue,       \* blocks in s_queue: a call takes its own block, so order plays no part
    open,        \* s_queue # nullptr
    tickets,     \* s_tickets in use, by identity
    generation,  \* s_generation
    exhausted,   \* s_generation_exhausted
    identity,    \* s_next_ticket_identity, MaxIdentity + 1 when they are used up
    stamp,       \* the generation written into each block
    heap,        \* blocks allocated
    hand,        \* the block each submitter is about to hand over
    async,       \* identities in LVGL's list of asynchronous calls
    current,     \* the call that runs: its identity if the handler is called, its block
    handled      \* history: identities whose key reached the handler

vars == <<queue, open, tickets, generation, exhausted, identity, stamp, heap, hand, async, current,
          handled>>

Identities == 1 .. MaxIdentity
Pointers == Blocks \cup {NoBlock}
InUse == DOMAIN tickets
NoCall == [key |-> 0, block |-> NoBlock]

TypeOK ==
    /\ queue \in SUBSET Blocks /\ open \in BOOLEAN
    /\ InUse \in SUBSET Identities
    /\ tickets \in [InUse -> [generation : Nat, block : Pointers]]
    /\ generation \in 0 .. MaxGeneration /\ exhausted \in BOOLEAN
    /\ identity \in 1 .. MaxIdentity + 1
    /\ stamp \in [Blocks -> Nat]
    /\ heap \in SUBSET Blocks
    /\ hand \in [Submitters -> Pointers]
    /\ async \in SUBSET Identities
    /\ current \in [key : Nat, block : Pointers]
    /\ handled \in SUBSET Identities

Init ==
    /\ queue = {} /\ open = FALSE
    /\ tickets = [i \in {} |-> NoCall]
    /\ generation = 0 /\ exhausted = FALSE /\ identity = 1
    /\ stamp = [b \in Blocks |-> 0]
    /\ heap = {} /\ hand = [s \in Submitters |-> NoBlock]
    /\ async = {} /\ current = NoCall /\ handled = {}

-----------------------------------------------------------------------------
Waiting == {i \in InUse : tickets[i].block # NoBlock}
Release(i) == tickets' = [j \in InUse \ {i} |-> tickets[j]]
Idle == current = NoCall

\* reserve_ticket() succeeds
TicketFree == identity <= MaxIdentity /\ Cardinality(InUse) < Capacity

\* submit(): malloc()
Allocate(s, b) ==
    /\ hand[s] = NoBlock /\ b \notin heap
    /\ heap' = heap \cup {b} /\ hand' = [hand EXCEPT ![s] = b]
    /\ UNCHANGED <<queue, open, tickets, generation, exhausted, identity, stamp, async, current, handled>>

\* Slip: a call that LVGL did not take is reported as scheduled.
AcceptUnscheduled(s) ==
    /\ hand[s] # NoBlock /\ open /\ ~exhausted /\ TicketFree /\ Cardinality(queue) < Capacity
    /\ stamp' = [stamp EXCEPT ![hand[s]] = generation]
    /\ tickets' = [i \in InUse \cup {identity} |->
                     IF i = identity THEN [generation |-> generation, block |-> hand[s]] ELSE tickets[i]]
    /\ queue' = queue \cup {hand[s]}
    /\ async' = async \cup {identity} \/ async' = async
    /\ identity' = identity + 1
    /\ hand' = [hand EXCEPT ![s] = NoBlock]
    /\ UNCHANGED <<open, generation, exhausted, heap, current, handled>>

\* submit(): under the lock, and LVGL takes the call.
Accept(s) ==
    /\ hand[s] # NoBlock /\ open /\ ~exhausted /\ TicketFree /\ Cardinality(queue) < Capacity
    /\ stamp' = [stamp EXCEPT ![hand[s]] = generation]
    /\ tickets' = [i \in InUse \cup {identity} |->
                     IF i = identity THEN [generation |-> generation, block |-> hand[s]] ELSE tickets[i]]
    /\ queue' = queue \cup {hand[s]}
    /\ async' = async \cup {identity}
    /\ identity' = identity + 1
    /\ hand' = [hand EXCEPT ![s] = NoBlock]
    /\ UNCHANGED <<open, generation, exhausted, heap, current, handled>>

\* submit(): the lock is not taken in time, or there is no queue, ticket or room.
Drop(s) ==
    /\ hand[s] # NoBlock
    /\ heap' = heap \ {hand[s]} /\ hand' = [hand EXCEPT ![s] = NoBlock]
    /\ UNCHANGED <<queue, open, tickets, generation, exhausted, identity, stamp, async, current, handled>>

\* submit(): lv_async_call() fails, the block leaves the queue and the ticket is released.
Rollback(s) ==
    /\ hand[s] # NoBlock /\ open /\ ~exhausted /\ TicketFree /\ Cardinality(queue) < Capacity
    /\ stamp' = [stamp EXCEPT ![hand[s]] = generation]
    /\ identity' = identity + 1
    /\ heap' = heap \ {hand[s]} /\ hand' = [hand EXCEPT ![s] = NoBlock]
    /\ UNCHANGED <<queue, open, tickets, generation, exhausted, async, current, handled>>

-----------------------------------------------------------------------------
(* In the context of LVGL *)

\* Slip: whatever is in the queue is taken for current.
IsAlways(i) == open /\ ~exhausted /\ i \in Waiting

\* The key of ticket i may still be handled.
IsCurrent(i) ==
    /\ i \in Waiting /\ open /\ ~exhausted
    /\ tickets[i].generation = generation /\ stamp[tickets[i].block] = generation

\* process_async(): the ticket is found by its identity and released, its block taken.
Begin(i) ==
    /\ Idle /\ i \in async
    /\ async' = async \ {i}
    /\ IF i \notin InUse THEN UNCHANGED <<queue, tickets, current>>
       ELSE /\ queue' = queue \ {tickets[i].block}
            /\ Release(i)
            /\ current' = [key |-> IF IsCurrent(i) THEN i ELSE 0, block |-> tickets[i].block]
    /\ UNCHANGED <<open, generation, exhausted, identity, stamp, heap, hand, handled>>

\* The handler, then free().
End ==
    /\ ~Idle
    /\ handled' = handled \cup ({current.key} \ {0})
    /\ heap' = heap \ {current.block}
    /\ current' = NoCall
    /\ UNCHANGED <<queue, open, tickets, generation, exhausted, identity, stamp, hand, async>>

NextGeneration ==
    IF generation = MaxGeneration THEN exhausted' = TRUE /\ UNCHANGED generation
    ELSE generation' = generation + 1 /\ UNCHANGED exhausted

Invalidate ==
    /\ Idle /\ NextGeneration
    /\ UNCHANGED <<queue, open, tickets, identity, stamp, heap, hand, async, current, handled>>

\* stop(): the tickets stay in use until their calls come.
Stop ==
    /\ Idle
    /\ open' = FALSE /\ queue' = {} /\ heap' = heap \ queue
    /\ tickets' = [i \in InUse |-> IF tickets[i].block \in queue THEN [tickets[i] EXCEPT !.block = NoBlock]
                                   ELSE tickets[i]]
    /\ NextGeneration
    /\ UNCHANGED <<identity, stamp, hand, async, current, handled>>

\* start(), after the stop() it begins with.
Start ==
    /\ Idle /\ ~open /\ generation # MaxGeneration
    /\ open' = TRUE /\ generation' = generation + 1 /\ exhausted' = FALSE
    /\ UNCHANGED <<queue, tickets, identity, stamp, heap, hand, async, current, handled>>

\* start() when the generations are used up.
StartExhausted ==
    /\ Idle /\ ~open /\ generation = MaxGeneration
    /\ exhausted' = TRUE
    /\ UNCHANGED <<queue, open, tickets, generation, identity, stamp, heap, hand, async, current, handled>>

Next ==
    \/ \E s \in Submitters : Accept(s) \/ Drop(s) \/ Rollback(s) \/ \E b \in Blocks : Allocate(s, b)
    \/ \E i \in Identities : Begin(i)
    \/ End \/ Invalidate \/ Stop \/ Start \/ StartExhausted

\* LVGL runs every asynchronous call, and a handler returns.
Fairness == WF_vars(End) /\ \A i \in Identities : WF_vars(Begin(i))

Spec == Init /\ [][Next]_vars /\ Fairness

-----------------------------------------------------------------------------
\* Every block is allocated and owned by exactly one of a submitter, a queued
\* ticket and the running call: none leaks, none is freed twice or used after
\* free, although calls come after stop() and start() (keyboard_dispatch.cpp:213).
Held == {hand[s] : s \in Submitters} \ {NoBlock}
Running == {current.block} \ {NoBlock}
BlocksAreOwned ==
    /\ heap = queue \cup Held \cup Running
    /\ queue \cap Held = {} /\ queue \cap Running = {} /\ Held \cap Running = {}
    /\ \A s, t \in Submitters : hand[s] = hand[t] => s = t \/ hand[s] = NoBlock
    /\ queue = {tickets[i].block : i \in Waiting}
    /\ \A i, j \in Waiting : tickets[i].block = tickets[j].block => i = j

\* A ticket in use has its call in LVGL's list, and a free ticket means room in
\* the queue: neither is used up for good by any order of calls (keyboard_dispatch.cpp:258).
TicketsComeBack ==
    /\ InUse \subseteq async /\ Cardinality(InUse) <= Capacity
    /\ Cardinality(queue) <= Cardinality(InUse)

Current == {i \in InUse : IsCurrent(i)}
Undelivered == Current \cup ({current.key} \ {0})

\* No key that was taken stays undelivered (keyboard_dispatch.cpp:112).
KeysGetThrough == \A i \in Identities : i \in Undelivered ~> i \notin Undelivered

\* A key that was taken is handled once, or dismissed by a new generation, and
\* never handled after that (keyboard_dispatch.cpp:107).
Delivery == INSTANCE KeyDelivery
    WITH Keys <- Identities, pending <- Undelivered, handled <- handled, epoch <- <<generation, exhausted>>
RefinesKeyDelivery == Delivery!Spec
=============================================================================
