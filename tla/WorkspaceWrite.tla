--------------------------- MODULE WorkspaceWrite ---------------------------
(***************************************************************************)
(* write_regular_bytes_anchored_atomic of pony/security/workspace_files.py *)
(* as the write and patch tools use it: the file in the workspace is the   *)
(* user's, who may save it in an editor at any time, in place or by        *)
(* renaming.  A patch names the contents it was computed from.             *)
(***************************************************************************)
EXTENDS Files

VARIABLES t,       \* the local variables of the writer
          saves,   \* saves in place so far, the time stamp of the file
          edited   \* the last step before which the user changed the file

editVars == <<saves, edited>>
workspaceVars == <<entry, content, before, limit, budget, t, saves, edited>>

WorkspaceSteps == {"inspect", "temp", "fill", "revalidate", "install", "verify",
                   "sync", "cleanup"}
WorkspaceEnds == {"returned", "raised", "died"}

\* A patch expects the digest of the contents it read.
WorkspaceInit ==
    /\ \E patch \in BOOLEAN :
        t = [pc |-> "inspect", patch |-> patch, found |-> NoFile, saw |-> 0,
             owned |-> FALSE, error |-> FALSE]
    /\ saves = 0 /\ edited = "never"

Proceed(step) == t' = [t EXCEPT !.pc = step]
Refuse == t' = [t EXCEPT !.pc = "cleanup", !.error = TRUE]

TryWrite(step, requirement, Effect) ==
    /\ t.pc = step
    /\ \/ requirement /\ Effect /\ NoFault
       \/ ~requirement /\ Refuse /\ NoFault /\ UNCHANGED files
       \/ Fault /\ Refuse /\ UNCHANGED files
    /\ UNCHANGED editVars

\* _inspect_workspace_target, with the comparison of a patch
InspectFile ==
    TryWrite("inspect", t.patch => Held("path") = "old",
             /\ t' = [t EXCEPT !.pc = "temp", !.found = entry["path"], !.saw = saves]
             /\ UNCHANGED files)

OpenWorkspaceTemp ==
    TryWrite("temp", TRUE,
             /\ entry' = Bound("temp", "written")
             /\ content' = [content EXCEPT !["written"] = "part"]
             /\ t' = [t EXCEPT !.pc = "fill", !.owned = TRUE])

FillWorkspaceTemp ==
    TryWrite("fill", TRUE,
             /\ content' = [content EXCEPT !["written"] = "new"]
             /\ Proceed("revalidate")
             /\ UNCHANGED entry)

\* Mutant of RevalidateFile: the identity of the file is compared, its times are not.
RevalidateIdentity ==
    TryWrite("revalidate", entry["path"] = t.found,
             Proceed("install") /\ UNCHANGED files)

\* _revalidate_workspace_target compares the signature: inode, size and times
\* (and the digest of a patched file, which says no more than the times).
RevalidateFile ==
    TryWrite("revalidate", entry["path"] = t.found /\ saves = t.saw,
             Proceed("install") /\ UNCHANGED files)

InstallFile ==
    TryWrite("install", TRUE,
             entry' = Renamed("temp", "path") /\ Proceed("verify") /\ UNCHANGED content)

VerifyFile ==
    TryWrite("verify", entry["path"] = "written", Proceed("sync") /\ UNCHANGED files)

\* A failure from here on is reported although the new file is in place.
SyncFile == TryWrite("sync", TRUE, Proceed("cleanup") /\ UNCHANGED files)

CleanupFile ==
    /\ t.pc = "cleanup"
    /\ Proceed(IF t.error THEN "raised" ELSE "returned")
    /\ IF t.owned /\ t.error
       THEN \/ entry' = Removed("temp", "written") /\ NoFault
            \/ entry' = entry /\ Fault
       ELSE UNCHANGED entry /\ NoFault
    /\ UNCHANGED <<content, editVars>>

WriterKilled ==
    /\ t.pc \in WorkspaceSteps
    /\ Proceed("died") /\ NoFault /\ UNCHANGED <<files, editVars>>

\* The user saves the file, in place or as a new file, or removes it.
UserEdits ==
    /\ t.pc \in WorkspaceSteps
    /\ \/ Interfere /\ entry'["path"] # entry["path"] /\ UNCHANGED saves
       \/ /\ budget.foreign > 0 /\ entry["path"] # NoFile
          /\ budget' = [budget EXCEPT !.foreign = @ - 1]
          /\ content' = [content EXCEPT ![entry["path"]] = "other"]
          /\ saves' = saves + 1
          /\ UNCHANGED <<entry, before, limit>>
    /\ edited' = t.pc
    /\ UNCHANGED t

WorkspaceNext ==
    \/ InspectFile \/ OpenWorkspaceTemp \/ FillWorkspaceTemp \/ RevalidateFile
    \/ InstallFile \/ VerifyFile \/ SyncFile \/ CleanupFile \/ WriterKilled \/ UserEdits

WorkspaceSpec == FilesInit /\ WorkspaceInit /\ [][WorkspaceNext]_workspaceVars

-----------------------------------------------------------------------------
(* Properties. *)

WorkspaceTypeOK ==
    /\ FilesTypeOK
    /\ t \in [pc : WorkspaceSteps \cup WorkspaceEnds, patch : BOOLEAN,
              found : Inodes \cup {NoFile}, saw : 0..MaxForeign,
              owned : BOOLEAN, error : BOOLEAN]
    /\ saves \in 0..MaxForeign
    /\ edited \in WorkspaceSteps \cup {"never"}

\* A user who saves the file while the writer prepares its own, or saves it
\* before a patch looks, finds the edit in place: the writer installs nothing
\* over it.  (Between its last look and the rename there is one call.)
UserEditsKept ==
    /\ edited \in {"temp", "fill", "revalidate"} => Held("path") # "new"
    /\ edited = "inspect" /\ t.patch => Held("path") # "new"

\* Only whole contents are ever in place, and nothing of the writer's is left
\* behind by a write that ends after one failure.
WorkspaceFileWhole ==
    /\ Held("path") \notin {"part", "empty"}
    /\ t.pc \in {"returned", "raised"} /\ Calm /\ limit.faults < 2 => entry["temp"] = NoFile

=============================================================================
