-------------------------- MODULE MCShutdownParts ---------------------------
(***************************************************************************)
(* The four parts a shutdown closes or waits for, each by itself: the gate *)
(* of the card, the coordinator of the network, the event log and the      *)
(* client of SSH.  They share nothing (what orders them is in Poweroff),   *)
(* so a behaviour moves one of them and the others stay in their initial   *)
(* states; the fairness of the log and of the client is asked for only     *)
(* where it is the one that moves.                                         *)
(***************************************************************************)
EXTENDS SdIo, NetCoordinator, EventLog, SshClient

VARIABLE subject

PartsInit ==
    /\ subject \in {"card", "network", "log", "ssh"}
    /\ SdInit /\ Init /\ EventLogInit /\ SshInit

PartsNext ==
    /\ UNCHANGED subject
    /\ \/ subject = "card" /\ SdNext /\ UNCHANGED <<vars, logVars, sshVars>>
       \/ subject = "network" /\ Next /\ UNCHANGED <<sdVars, logVars, sshVars>>
       \/ subject = "log" /\ EventLogNext /\ UNCHANGED <<sdVars, vars, sshVars>>
       \/ subject = "ssh" /\ SshNext /\ UNCHANGED <<sdVars, vars, logVars>>

\* LogFairness and SshFairness, where the component moves.
Log == subject = "log"
LogRuns ==
    /\ \A c \in Calls : WF_logVars(Log /\ c \in Made /\ CallerStep(c))
    /\ WF_logVars(Log /\ LogStep) /\ WF_logVars(Log /\ TextStep) /\ WF_logVars(Log /\ QuiesceStep)

Ssh == subject = "ssh"
SshRuns == WF_sshVars(Ssh /\ ~Draining /\ SessionStep)

PartsSpec ==
    /\ PartsInit /\ [][PartsNext]_<<subject, sdVars, vars, logVars, sshVars>>
    /\ LogRuns /\ SshRuns
=============================================================================
