------------------------------ MODULE SafeSave ------------------------------
(***************************************************************************)
(* One file under /sdcard/data: how the editor saves it                    *)
(* (apps/editor/cyberdeck_editor_app.cpp, the storage transaction of       *)
(* apps/shell/cyberdeck_local_shell.cpp), how the serial bridge creates    *)
(* it, how the shell removes it, and what the boot sequence does with the  *)
(* sidecar a reset left behind.  Every call of the file system is a step   *)
(* that may fail; WRITE leases are shared, so the three interleave; the    *)
(* device may reset between any two steps.                                 *)
(***************************************************************************)
EXTENDS Recovery

CONSTANTS
    Absent, Torn,  \* no such name; a file that is not completely written
    MaxVersions    \* model bound: contents written in one behaviour

ASSUME ContentAssumption == Absent \notin Nat /\ Torn \notin Nat /\ Absent # Torn
ASSUME VersionsAssumption == MaxVersions \in Nat

VARIABLES
    file,       \* the target, its ".tmp" and its ".rollback"
    pc,         \* the next call of the editor's save
    backed,     \* backed_up
    version,    \* what the editor saves
    bridge,     \* what the serial bridge holds in its own temporary, 0 if none
    written,    \* contents numbered so far
    committed,  \* history: the last content whose writer will report success
    removed     \* history: removed by hand since, or while the editor was saving

fileVars == <<file, pc, backed, version, bridge, written, committed, removed>>
vars == <<recoveryVars, fileVars>>

Names == {"dest", "tmp", "side"}
Contents == Nat \cup {Absent, Torn}
Steps == {"idle", "flush", "access", "backup", "unlink", "undo", "link", "drop_tmp",
          "drop_dest", "rollback", "drop_side"}

TypeOK ==
    /\ RecoveryTypeOK
    /\ file \in [Names -> Contents]
    /\ pc \in Steps
    /\ backed \in BOOLEAN /\ removed \in BOOLEAN
    /\ version \in Nat /\ bridge \in Nat /\ written \in Nat /\ committed \in Nat

Init ==
    /\ RecoveryInit
    /\ file = [n \in Names |-> Absent]
    /\ pc = "idle" /\ backed = FALSE /\ removed = FALSE
    /\ version = 0 /\ bridge = 0 /\ written = 0 /\ committed = 0

-----------------------------------------------------------------------------
(* Calls of the file system.  FAT has no hard links: link() copies, never  *)
(* replaces, and may stop half way.                                        *)

Exists(n) == file[n] # Absent
Put(n, c) == file' = [file EXCEPT ![n] = c]
LinkDone(from, to) == Exists(from) /\ ~Exists(to) /\ Put(to, file[from])
LinkFails(from, to) ==
    \/ UNCHANGED file
    \/ Exists(from) /\ ~Exists(to) /\ Put(to, Torn)

Saving(p) == pc = p /\ UNCHANGED recoveryVars
GoTo(p) == pc' = p
AfterFailure == GoTo(IF backed THEN "rollback" ELSE "idle")

-----------------------------------------------------------------------------
(* The editor: save_current(), the "save as" of execute() *)

WriteTemp ==
    /\ Saving("idle") /\ stage = "ready" /\ mode = "normal" /\ written < MaxVersions
    /\ written' = written + 1 /\ version' = written + 1
    /\ \/ Put("tmp", written + 1) /\ GoTo("flush")
       \/ (Put("tmp", Torn) \/ UNCHANGED file) /\ GoTo("idle")
    /\ UNCHANGED <<backed, bridge, committed, removed>>

Flush ==
    /\ Saving("flush")
    /\ GoTo("access") \/ GoTo("idle")
    /\ UNCHANGED <<file, backed, version, bridge, written, committed, removed>>

\* access(): is there a version to keep?
LookUp ==
    /\ Saving("access")
    /\ backed' = FALSE
    /\ GoTo(IF Exists("dest") THEN "backup" ELSE "link") \/ GoTo("idle")
    /\ UNCHANGED <<file, version, bridge, written, committed, removed>>

\* Slip: the old version is unlinked although it could not be copied.
BackupIgnoringFailure ==
    /\ Saving("backup")
    /\ \/ LinkDone("dest", "side") /\ backed' = TRUE
       \/ LinkFails("dest", "side") /\ UNCHANGED backed
    /\ GoTo("unlink")
    /\ UNCHANGED <<version, bridge, written, committed, removed>>

Backup ==
    /\ Saving("backup")
    /\ \/ LinkDone("dest", "side") /\ backed' = TRUE /\ GoTo("unlink")
       \/ LinkFails("dest", "side") /\ GoTo("idle") /\ UNCHANGED backed
    /\ UNCHANGED <<version, bridge, written, committed, removed>>

UnlinkOld ==
    /\ Saving("unlink")
    /\ \/ Exists("dest") /\ Put("dest", Absent) /\ GoTo("link")
       \/ UNCHANGED file /\ GoTo("undo")
    /\ UNCHANGED <<backed, version, bridge, written, committed, removed>>

UndoBackup ==
    /\ Saving("undo") /\ GoTo("idle")
    /\ Put("side", Absent) \/ UNCHANGED file
    /\ UNCHANGED <<backed, version, bridge, written, committed, removed>>

LinkNew ==
    /\ Saving("link")
    /\ \/ LinkDone("tmp", "dest") /\ GoTo("drop_tmp")
       \/ LinkFails("tmp", "dest") /\ AfterFailure
    /\ UNCHANGED <<backed, version, bridge, written, committed, removed>>

\* Once the temporary is gone the save will report success.
DropTemp ==
    /\ Saving("drop_tmp")
    /\ \/ /\ Put("tmp", Absent)
          /\ GoTo(IF backed THEN "drop_side" ELSE "idle")
          /\ committed' = version /\ removed' = (file["dest"] # version)
       \/ UNCHANGED <<file, committed, removed>> /\ GoTo("drop_dest")
    /\ UNCHANGED <<backed, version, bridge, written>>

DropDest ==
    /\ Saving("drop_dest") /\ AfterFailure
    /\ Put("dest", Absent) \/ UNCHANGED file
    /\ UNCHANGED <<backed, version, bridge, written, committed, removed>>

\* Slip: the sidecar is dropped whether or not it could be put back.
RollbackAnyway ==
    /\ Saving("rollback") /\ GoTo("drop_side")
    /\ LinkDone("side", "dest") \/ LinkFails("side", "dest")
    /\ UNCHANGED <<backed, version, bridge, written, committed, removed>>

Rollback ==
    /\ Saving("rollback")
    /\ \/ LinkDone("side", "dest") /\ GoTo("drop_side")
       \/ LinkFails("side", "dest") /\ GoTo("idle")
    /\ UNCHANGED <<backed, version, bridge, written, committed, removed>>

\* unlink() of the sidecar, after success and after a rollback; its result changes nothing.
DropSide ==
    /\ Saving("drop_side") /\ GoTo("idle")
    /\ Put("side", Absent) \/ UNCHANGED file
    /\ UNCHANGED <<backed, version, bridge, written, committed, removed>>

-----------------------------------------------------------------------------
(* Other writers *)

Serving == stage \in {"starting", "ready"} /\ UNCHANGED recoveryVars

\* exec_fs_write(): the target was seen absent, the temporary is written and synced.
BridgeTemp ==
    /\ Serving /\ bridge = 0 /\ ~Exists("dest") /\ written < MaxVersions
    /\ written' = written + 1 /\ bridge' = written + 1
    /\ UNCHANGED <<file, pc, backed, version, committed, removed>>

\* rename() of FAT refuses a name that exists.
BridgePublish ==
    /\ Serving /\ bridge # 0 /\ bridge' = 0
    /\ \/ /\ ~Exists("dest") /\ Put("dest", bridge)
          /\ committed' = bridge /\ removed' = (removed /\ pc # "idle")
       \/ UNCHANGED <<file, committed, removed>>
    /\ UNCHANGED <<pc, backed, version, written>>

\* "rm" of the shell.
Remove ==
    /\ Serving /\ Exists("dest")
    /\ Put("dest", Absent) /\ removed' = TRUE
    /\ UNCHANGED <<pc, backed, version, bridge, written, committed>>

-----------------------------------------------------------------------------
(* Boot: recover_save_sidecars() under a WRITE lease *)

Restore ==
    /\ RecoverStorage
    /\ IF Exists("side") /\ ~Exists("dest")
       THEN file' = [file EXCEPT !["dest"] = file["side"], !["side"] = Absent]
       ELSE UNCHANGED file
    /\ UNCHANGED <<pc, backed, version, bridge, written, committed, removed>>

\* The lease is refused, the directory cannot be read or the rename fails.
RestoreFails == RecoverStorage /\ UNCHANGED fileVars

Crash ==
    /\ Reset
    /\ pc' = "idle" /\ bridge' = 0 /\ backed' = FALSE
    /\ UNCHANGED <<file, version, written, committed, removed>>

EditorStep ==
    \/ WriteTemp \/ Flush \/ LookUp \/ Backup \/ UnlinkOld \/ UndoBackup \/ LinkNew
    \/ DropTemp \/ DropDest \/ Rollback \/ DropSide

Next ==
    \/ EditorStep
    \/ BridgeTemp \/ BridgePublish \/ Remove
    \/ Restore \/ RestoreFails \/ Crash
    \/ RecoveryStep /\ UNCHANGED fileVars

Spec == Init /\ [][Next]_vars

-----------------------------------------------------------------------------
Kept == committed # 0 /\ ~removed

\* The content last reported as saved is complete under the name or in the
\* sidecar, at every reset between two calls, for every failing call and every
\* order of the editor and the bridge, unless someone removed it
\* (cyberdeck_local_shell.cpp:737).
NothingLost == Kept => committed \in {file["dest"], file["side"]}

\* When a reset left the name missing, what the recovery puts there is the
\* last reported content, never a partial copy (cyberdeck_local_shell.cpp:872).
VanishedComesBack ==
    [][Kept /\ ~Exists("dest") /\ Restore => file'["dest"] = committed]_vars
=============================================================================
