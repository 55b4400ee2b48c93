----------------------------- MODULE KeyDelivery -----------------------------
(***************************************************************************)
(* What the keyboard dispatch promises to the user interface, without its  *)
(* tickets, its queue and its heap: a key that was taken is handled at     *)
(* most once, and never after the keys before some point were dismissed.   *)
(***************************************************************************)
CONSTANT Keys

VARIABLES
    pending,  \* keys taken and not handled yet
    handled,
    epoch     \* changes when keys are dismissed

Take(k) == k \notin pending \cup handled /\ pending' = pending \cup {k} /\ UNCHANGED <<handled, epoch>>
Handle(k) == k \in pending /\ pending' = pending \ {k} /\ handled' = handled \cup {k} /\ UNCHANGED epoch
Dismiss == pending' = {} /\ epoch' # epoch /\ UNCHANGED handled

Init == pending = {} /\ handled = {}
Next == Dismiss \/ \E k \in Keys : Take(k) \/ Handle(k)
Spec == Init /\ [][Next]_<<pending, handled, epoch>>
=============================================================================
