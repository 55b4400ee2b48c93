---------------------------- MODULE MCAsyncCalls ----------------------------
(***************************************************************************)
(* The two components that hand work to LVGL's list of asynchronous calls. *)
(* They share nothing, so a behaviour moves one of them and the other      *)
(* stays in its initial state, where its fairness asks for nothing.        *)
(***************************************************************************)
EXTENDS KeyboardDispatch, CatWorker

VARIABLE subject

AsyncInit == subject \in {"keyboard", "cat"} /\ Init /\ CatInit

AsyncNext ==
    /\ UNCHANGED subject
    /\ \/ subject = "keyboard" /\ Next /\ UNCHANGED catVars
       \/ subject = "cat" /\ CatNext /\ UNCHANGED vars

AsyncSpec == AsyncInit /\ [][AsyncNext]_<<subject, vars, catVars>> /\ Fairness /\ CatFairness
=============================================================================
