--------------------------- MODULE MCApplications ---------------------------
(***************************************************************************)
(* The supervisor of the applications, and the music application, which it *)
(* starts and stops like any other (Start and CancelScan of Music).  The   *)
(* two share nothing else, so a behaviour moves one of them and the other  *)
(* stays in its initial state.                                             *)
(***************************************************************************)
EXTENDS MCAppRuntime, Music

VARIABLE subject

ApplicationsInit == subject \in {"runtime", "music"} /\ Init /\ MusicInit

ApplicationsNext ==
    /\ UNCHANGED subject
    /\ \/ subject = "runtime" /\ Next /\ UNCHANGED musicVars
       \/ subject = "music" /\ MusicNext /\ UNCHANGED vars

ApplicationsSpec ==
    ApplicationsInit /\ [][ApplicationsNext]_<<subject, vars, musicVars>> /\ MusicFairness
=============================================================================
