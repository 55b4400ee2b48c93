------------------------------ MODULE PowerCut ------------------------------
(***************************************************************************)
(* What a shutdown promises, without tasks, locks, stages or time: clients *)
(* of a volume are barred from starting new operations, the volume is      *)
(* unmounted when all are barred and none is inside, and only then may the *)
(* power signal move, until a single verdict is given.                     *)
(***************************************************************************)
EXTENDS Integers

CONSTANTS
    Clients,    \* whoever can have an operation on the volume
    Train       \* level changes of the complete signal

VARIABLES verdict, using, barred, mounted, edges

vars == <<verdict, using, barred, mounted, edges>>

Init ==
    /\ verdict = "none"
    /\ using = {} /\ barred = {}
    /\ mounted = TRUE
    /\ edges = 0

GivesUp == verdict = "pending" /\ verdict' = "failed"
MayGiveUp == GivesUp \/ UNCHANGED verdict

Ask ==
    /\ verdict = "none"
    /\ verdict' = "pending"
    /\ UNCHANGED <<using, barred, mounted, edges>>

Start(c) ==
    /\ c \notin barred
    /\ using' = using \cup {c}
    /\ UNCHANGED <<verdict, barred, mounted, edges>>

Finish(c) ==
    /\ using' = using \ {c}
    /\ UNCHANGED <<verdict, barred, mounted, edges>>

Bar ==
    /\ verdict # "none"
    /\ barred' \in SUBSET Clients
    /\ barred \subseteq barred'
    /\ MayGiveUp
    /\ UNCHANGED <<using, mounted, edges>>

Unmount ==
    /\ verdict # "none"
    /\ barred = Clients /\ using = {}
    /\ mounted' = FALSE
    /\ MayGiveUp
    /\ UNCHANGED <<using, barred, edges>>

Drive ==
    /\ verdict = "pending"
    /\ ~mounted
    /\ edges < Train
    /\ edges' = edges + 1
    /\ UNCHANGED <<verdict, using, barred, mounted>>

Report ==
    /\ \/ GivesUp
       \/ verdict = "pending" /\ edges = Train /\ verdict' = "sent"
    /\ UNCHANGED <<using, barred, mounted, edges>>

Next ==
    \/ Ask \/ Bar \/ Unmount \/ Drive \/ Report
    \/ \E c \in Clients : Start(c) \/ Finish(c)

Spec == Init /\ [][Next]_vars
=============================================================================
