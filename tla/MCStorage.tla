----------------------------- MODULE MCStorage ------------------------------
(***************************************************************************)
(* The ways to what outlives an interruption: a file that is saved across  *)
(* resets, the credentials of a network on their way to wifi.cfg, and the  *)
(* time-out of the screen on its way to the flash.  They write different   *)
(* things, so a behaviour moves one of them and the others stay in their   *)
(* initial states.                                                         *)
(***************************************************************************)
EXTENDS SafeSave, WifiPersistence, ScreenTimeout

VARIABLE subject

StorageInit ==
    /\ subject \in {"files", "credentials", "screen"} /\ Init /\ CredInit /\ ScreenInit
    /\ subject # "credentials" => saved = {}

StorageNext ==
    /\ UNCHANGED subject
    /\ \/ subject = "files" /\ Next /\ UNCHANGED <<credVars, screenVars>>
       \/ subject = "credentials" /\ CredNext /\ UNCHANGED <<vars, screenVars>>
       \/ subject = "screen" /\ ScreenNext /\ UNCHANGED <<vars, credVars>>

StorageSpec ==
    /\ StorageInit /\ [][StorageNext]_<<subject, vars, credVars, screenVars>>
    /\ subject = "credentials" => CredFairness
=============================================================================
