----------------------------- MODULE MCPoweroff -----------------------------
(***************************************************************************)
(* The two parts that promise to come back although what they wait for may *)
(* hang: the power-off controller, which has a watchdog, and the dispatch  *)
(* to the LVGL task, which has a budget.  As modelled they share nothing,  *)
(* so a behaviour moves one of them and the other stays in its initial     *)
(* state, where its fairness asks for nothing.                             *)
(***************************************************************************)
EXTENDS Poweroff, LvglDispatch

VARIABLE subject

BoundedInit == subject \in {"poweroff", "dispatch"} /\ Init /\ DispatchInit

BoundedNext ==
    /\ UNCHANGED subject
    /\ \/ subject = "poweroff" /\ Next /\ UNCHANGED dispatchVars
       \/ subject = "dispatch" /\ DispatchNext /\ UNCHANGED vars

BoundedSpec ==
    /\ BoundedInit /\ [][BoundedNext]_<<subject, vars, dispatchVars>>
    /\ Fairness /\ CallersRun
=============================================================================
