---------------------------- MODULE MCAppRuntime ----------------------------
(* The event log, the shell that owns the console, the Wi-Fi manager, the   *)
(* network diagnostics in front of it, and two services that need each      *)
(* other; in the second instance the music player and a service apart.      *)
EXTENDS AppRuntime

MCDeps == <<{}, {1}, {1}, {1, 3}, {6}, {5}>>
MCFrontDeps == <<{}, {1}, {1}, {1, 3}, {1}>>
=============================================================================
