--------------------------- MODULE MCNetworkTasks ---------------------------
(***************************************************************************)
(* The tasks that use the network for somebody who waits for them: the     *)
(* scans of the Wi-Fi manager, the worker of the diagnostics and that of   *)
(* the clock.  As modelled they share nothing, so a behaviour moves one of *)
(* them and the others stay in their initial states, where the fairness of *)
(* the scans asks for nothing.                                             *)
(***************************************************************************)
EXTENDS WifiScan, NetDiag, TimeSync

VARIABLE subject

TasksInit == subject \in {"scan", "diagnostics", "clock"} /\ ScanInit /\ DiagInit /\ SyncInit

TasksNext ==
    /\ UNCHANGED subject
    /\ \/ subject = "scan" /\ ScanNext /\ UNCHANGED <<diagVars, syncVars>>
       \/ subject = "diagnostics" /\ DiagNext /\ UNCHANGED <<scanVars, syncVars>>
       \/ subject = "clock" /\ SyncNext /\ UNCHANGED <<scanVars, diagVars>>

TasksSpec == TasksInit /\ [][TasksNext]_<<subject, scanVars, diagVars, syncVars>> /\ ScanFairness
=============================================================================
