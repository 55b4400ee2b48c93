----------------------------- MODULE MCBleScan ------------------------------
(***************************************************************************)
(* The searches over Bluetooth with the pointers of the target, which cut  *)
(* the tokens of the windows, and with pointers that hold every token: the *)
(* width is chosen at the start and never changes.  Only where it is wide  *)
(* do the reports of a window come to the scheduler; there one search is   *)
(* enough, because what is left of an earlier one is met with the others.  *)
(***************************************************************************)
EXTENDS BleScan

CONSTANT WidePtrMod     \* greater than every token

VARIABLE pointers

Wide == INSTANCE BleScan WITH PtrMod <- WidePtrMod, Searches <- 1

WidthsInit == pointers \in {"narrow", "wide"} /\ BleInit

WidthsNext ==
    /\ UNCHANGED pointers
    /\ \/ pointers = "narrow" /\ BleNext
       \/ pointers = "wide" /\ Wide!BleNext

\* BleFairness: the width matters to the host alone.
Calls == (pointers = "narrow" /\ Complete) \/ (pointers = "wide" /\ Wide!Complete)
WidthsFairness ==
    /\ WF_bleVars(Pump) /\ WF_bleVars(Manage) /\ WF_bleVars(DiscoveryEnds) /\ WF_bleVars(Calls)

WidthsSpec == WidthsInit /\ [][WidthsNext]_<<pointers, bleVars>> /\ WidthsFairness
=============================================================================
