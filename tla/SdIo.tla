-------------------------------- MODULE SdIo --------------------------------
(***************************************************************************)
(* The SD admission gate: class coordinator and its move-only lease        *)
(* (platform/storage/cyberdeck_sd_io_coordinator).  Users are the lease    *)
(* objects of the tasks that touch the SD card, Closers the callers of     *)
(* begin_close / drain / reopen.  Every member function runs under mutex_, *)
(* so each is one action, except drain, which gives the mutex up while it  *)
(* waits on drained_ and is therefore an entry and two possible ends.      *)
(***************************************************************************)
EXTENDS Integers, FiniteSets

CONSTANTS
    Users,      \* lease objects, one per task that uses the card
    Closers,    \* callers that may fence the card
    IdSpace     \* number of values of next_id_ (2^64 in the firmware)

ASSUME UsersAssumption == IsFiniteSet(Users)
ASSUME IdSpaceAssumption == IdSpace \in Nat /\ IdSpace > 1

VARIABLES
    gate,           \* state_
    nextId,         \* next_id_, 0 once the counter has wrapped
    closeOwner,     \* close_owner_
    active,         \* active_
    persistFailed,  \* persistence_failed_
    lease,          \* id_ of each user's lease object, 0 when it is empty
    token,          \* the value begin_close last returned to each closer
    fencing,        \* closers that begin_close admitted and that did not reopen
    waiting         \* closers blocked in drain

sdVars == <<gate, nextId, closeOwner, active, persistFailed, lease, token, fencing, waiting>>

Ids == 0 .. IdSpace - 1
Gates == {"open", "closing", "closed"}

Holders == {u \in Users : lease[u] # 0}

SdTypeOK ==
    /\ gate \in Gates
    /\ nextId \in Ids
    /\ closeOwner \in Ids
    /\ active \in Nat
    /\ persistFailed \in BOOLEAN
    /\ lease \in [Users -> Ids]
    /\ token \in [Closers -> Ids]
    /\ fencing \in SUBSET Closers
    /\ waiting \in SUBSET Closers

SdInit ==
    /\ gate = "open"
    /\ nextId = 1
    /\ closeOwner = 0
    /\ active = 0
    /\ persistFailed = FALSE
    /\ lease = [u \in Users |-> 0]
    /\ token = [c \in Closers |-> 0]
    /\ fencing = {}
    /\ waiting = {}

-----------------------------------------------------------------------------
(* Operations of the users *)

AdmitsUngated == nextId # 0             \* mutant: the gate is not consulted
Admits == gate = "open" /\ nextId # 0

BumpId == nextId' = (nextId + 1) % IdSpace

\* acquire(): a refused caller gets an empty lease and nothing changes.
Acquire(u) ==
    /\ lease[u] = 0
    /\ Admits
    /\ lease' = [lease EXCEPT ![u] = nextId]
    /\ BumpId
    /\ active' = active + 1
    /\ UNCHANGED <<gate, closeOwner, persistFailed, token, fencing, waiting>>

\* Mutant: a release during the drain is not counted.
ReleaseUncounted(u) ==
    /\ lease[u] # 0
    /\ lease' = [lease EXCEPT ![u] = 0]
    /\ active' = IF gate = "closing" THEN active ELSE active - 1
    /\ UNCHANGED <<gate, nextId, closeOwner, persistFailed, token, fencing, waiting>>

\* lease::release() empties the lease, coordinator::release() counts it out.
Release(u) ==
    /\ lease[u] # 0
    /\ lease' = [lease EXCEPT ![u] = 0]
    /\ active' = IF active = 0 THEN 0 ELSE active - 1
    /\ UNCHANGED <<gate, nextId, closeOwner, persistFailed, token, fencing, waiting>>

\* A disk write or sync of a lease holder reports an error.
RecordPersistenceFailure(u) ==
    /\ lease[u] # 0
    /\ persistFailed' = TRUE
    /\ UNCHANGED <<gate, nextId, closeOwner, active, lease, token, fencing, waiting>>

-----------------------------------------------------------------------------
(* Operations of the closers *)

BeginClose(c) ==
    /\ c \notin waiting
    /\ \/ /\ Admits
          /\ gate' = "closing"
          /\ closeOwner' = nextId
          /\ token' = [token EXCEPT ![c] = nextId]
          /\ fencing' = fencing \cup {c}
          /\ BumpId
       \/ /\ ~Admits
          /\ c \notin fencing
          /\ token' = [token EXCEPT ![c] = 0]
          /\ UNCHANGED <<gate, closeOwner, nextId, fencing>>
    /\ UNCHANGED <<active, persistFailed, lease, waiting>>

OwnsClosingAny(c) == token[c] # 0 /\ gate = "closing"   \* mutant: any token will do
OwnsClosing(c) == token[c] # 0 /\ gate = "closing" /\ closeOwner = token[c]

\* drain() returns not_owner at once unless its entry check passes.
DrainEnter(c) ==
    /\ c \notin waiting
    /\ OwnsClosing(c)
    /\ waiting' = waiting \cup {c}
    /\ UNCHANGED <<gate, nextId, closeOwner, active, persistFailed, lease, token, fencing>>

\* The predicate holds under the mutex: the gate closes whatever state_ is now.
DrainDone(c) ==
    /\ c \in waiting
    /\ active = 0
    /\ gate' = "closed"
    /\ waiting' = waiting \ {c}
    /\ UNCHANGED <<nextId, closeOwner, active, persistFailed, lease, token, fencing>>

\* wait_until evaluates the predicate a last time when the deadline passes.
DrainTimedOut(c) ==
    /\ c \in waiting
    /\ active # 0
    /\ waiting' = waiting \ {c}
    /\ UNCHANGED <<gate, nextId, closeOwner, active, persistFailed, lease, token, fencing>>

\* reopen() with whatever token the closer still remembers; the refusal changes nothing.
Reopen(c) ==
    /\ c \notin waiting
    /\ OwnsClosing(c)
    /\ gate' = "open"
    /\ closeOwner' = 0
    /\ fencing' = fencing \ {c}
    /\ UNCHANGED <<nextId, active, persistFailed, lease, token, waiting>>

SdUserStep(u) == Acquire(u) \/ Release(u) \/ RecordPersistenceFailure(u)

SdNext ==
    \/ \E u \in Users : SdUserStep(u)
    \/ \E c \in Closers :
          \/ BeginClose(c)
          \/ DrainEnter(c)
          \/ DrainDone(c)
          \/ DrainTimedOut(c)
          \/ Reopen(c)

SdSpec == SdInit /\ [][SdNext]_sdVars

-----------------------------------------------------------------------------
(* Properties *)

(* active_ counts exactly the live leases: the counter that drain() waits  *)
(* on can neither miss a holder nor keep one that released.                *)
LeaseAccounting == active = Cardinality(Holders)

(* Once drain() has closed the gate no lease exists (release and acquire   *)
(* interleave with the wait; acquire is refused while closing).            *)
ClosedIsDrained == gate = "closed" => Holders = {}

(* An id of next_id_ names one lease or one closing generation for ever:   *)
(* the wrap of the counter ends admission instead of reusing ids, and so   *)
(* a token a closer kept from an earlier fence never matches a later one.  *)
IdsNeverReused ==
    /\ \A u, v \in Holders : lease[u] = lease[v] => u = v
    /\ \A c, d \in Closers : token[c] = token[d] /\ token[c] # 0 => c = d
    /\ \A u \in Holders, c \in Closers : lease[u] # token[c]

(* The card is fenced for exactly one closer at a time: a stale token      *)
(* neither reopens nor drains the fence somebody else raised later.        *)
FenceIsExclusive ==
    /\ gate = "open" <=> fencing = {}
    /\ \A c, d \in fencing : c = d
    /\ \A c \in fencing : token[c] = closeOwner
=============================================================================
