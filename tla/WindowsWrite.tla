---------------------------- MODULE WindowsWrite ----------------------------
(***************************************************************************)
(* The atomic writers of the Windows port: private files and promotions    *)
(* (pony/security/windows_private_files.py) and workspace files            *)
(* (windows_workspace_files.py).  They rename through open handles, and a  *)
(* rename that is reported as failed may have happened.                    *)
(***************************************************************************)
EXTENDS Files

VARIABLE v   \* the local variables of the writer

windowsVars == <<entry, content, before, limit, budget, v>>

WindowsSteps == {"inspect", "temp", "fill", "keepOld", "check", "rename", "verify",
                 "sync", "dropOld", "undo", "undoOld", "cleanup"}
WindowsEnds == {"returned", "raised", "ambiguous", "died"}
Kinds == {"private", "workspace", "promote"}

\* A promotion renames a file that exists already, a migrated Session.
WindowsInit ==
    \E kind \in Kinds :
        /\ v = [pc |-> "inspect", kind |-> kind, found |-> NoFile, open |-> FALSE,
                saved |-> FALSE, installed |-> FALSE, committed |-> FALSE,
                restored |-> FALSE, keep |-> FALSE, again |-> FALSE, error |-> "none"]
        /\ before \in {"absent", "old"}
        /\ entry = [n \in Names |->
                      CASE n = "path" /\ before = "old" -> "original"
                        [] n = "temp" /\ kind = "promote" -> "written"
                        [] OTHER -> NoFile]
        /\ content = [i \in Inodes |-> CASE i = "original" -> "old"
                                         [] i = "foreign" -> "other"
                                         [] i = "written" /\ kind = "promote" -> "new"
                                         [] OTHER -> "empty"]
        /\ limit \in Trouble /\ budget = limit

To(step) == v' = [v EXCEPT !.pc = step]

\* Mutant of RaiseError: an error after the rename is only cleaned up.
RaiseUncaught == v' = [v EXCEPT !.pc = "cleanup", !.error = "raised"]

\* The exception handler undoes an installed file, then everything is cleaned up.
RaiseError == v' = [v EXCEPT !.pc = IF v.installed THEN "undo" ELSE "cleanup",
                             !.error = "raised"]

TryStep(step, requirement, Effect) ==
    /\ v.pc = step
    /\ \/ requirement /\ Effect /\ NoFault
       \/ ~requirement /\ RaiseError /\ NoFault /\ UNCHANGED files
       \/ Fault /\ RaiseError /\ UNCHANGED files

InspectTarget ==
    TryStep("inspect", entry["path"] \in {NoFile, "original"},
            /\ v' = [v EXCEPT !.found = entry["path"],
                              !.pc = IF v.kind = "promote" THEN "keepOld" ELSE "temp"]
            /\ UNCHANGED files)

CreateTemp ==
    TryStep("temp", TRUE,
            /\ entry' = Bound("temp", "written")
            /\ content' = [content EXCEPT !["written"] = "part"]
            /\ To("fill"))

\* A private temporary file that cannot be written stays behind; the
\* workspace writer deletes its own.
WriteTemp ==
    /\ v.pc = "fill"
    /\ \/ /\ NoFault
          /\ content' = [content EXCEPT !["written"] = "new"]
          /\ v' = [v EXCEPT !.pc = "keepOld", !.open = TRUE]
          /\ UNCHANGED entry
       \/ /\ Fault /\ RaiseError
          /\ entry' = IF v.kind = "workspace" THEN Bound("temp", NoFile) ELSE entry
          /\ UNCHANGED content

\* _copy_restore
CopyRestore ==
    TryStep("keepOld", TRUE,
            IF v.found = NoFile
            THEN To("check") /\ UNCHANGED files
            ELSE /\ entry' = Bound("backup", "copy")
                 /\ content' = [content EXCEPT !["copy"] = content[v.found]]
                 /\ v' = [v EXCEPT !.pc = "check", !.saved = TRUE])

Revalidate ==
    TryStep("check",
            /\ entry["path"] = v.found /\ entry["temp"] = "written"
            /\ v.kind # "private" /\ v.saved => entry["backup"] = "copy",
            To("rename") /\ UNCHANGED files)

\* A rename that is reported as failed: what the name binds now tells whether
\* it happened.
RenameFailed(at) ==
    IF at = "written"
    THEN [v EXCEPT !.pc = "undo", !.installed = TRUE, !.error = "raised"]
    ELSE [v EXCEPT !.pc = "cleanup", !.error = "raised",
                   !.keep = at # v.found /\ (v.kind = "private" \/ v.saved)
                             /\ v.kind # "promote"]

RenameTemp ==
    /\ v.pc = "rename"
    /\ LET refused == v.found = NoFile /\ entry["path"] # NoFile
       IN  \/ /\ ~refused /\ NoFault
              /\ entry' = Renamed("temp", "path")
              /\ v' = [v EXCEPT !.pc = "verify", !.installed = TRUE]
           \/ /\ \/ ~refused /\ Fault /\ entry' \in {entry, Renamed("temp", "path")}
                 \/ refused /\ NoFault /\ UNCHANGED entry
              /\ v' = RenameFailed(entry'["path"])
    /\ UNCHANGED content

VerifyRenamed ==
    TryStep("verify", entry["path"] = "written" /\ entry["temp"] = NoFile,
            To("sync") /\ UNCHANGED files)

\* fsync_parent, the caller's validate_commit, the last look at the parent.
SyncRenamed ==
    TryStep("sync", v.kind # "private" /\ v.saved => entry["backup"] = "copy",
            To("dropOld") /\ UNCHANGED files)

DropRestore ==
    /\ v.pc = "dropOld"
    /\ \/ /\ NoFault
          /\ entry' = IF v.saved THEN Removed("backup", "copy") ELSE entry
          /\ v' = [v EXCEPT !.pc = "cleanup", !.committed = TRUE, !.saved = FALSE]
       \/ /\ v.saved /\ Fault /\ UNCHANGED entry
          /\ v' = [v EXCEPT !.pc = "undo", !.error = "raised", !.again = v.kind = "private"]
    /\ UNCHANGED content

-----------------------------------------------------------------------------
(* _rollback, _rollback_promotion and _rollback_atomic. *)

\* A rollback that fails leaves the copy of the old file, except a promotion,
\* whose cleanup deletes it.  A private write whose copy could not be removed
\* tries its rollback a second time.
UndoFails ==
    v' = [v EXCEPT !.pc = IF v.again THEN "undo" ELSE "cleanup", !.again = FALSE,
                   !.keep = v.kind # "promote",
                   !.error = IF v.kind = "workspace" THEN "raised" ELSE "ambiguous"]
Undone == [v EXCEPT !.pc = "cleanup", !.installed = FALSE, !.open = FALSE]

Undo ==
    /\ v.pc = "undo"
    /\ \/ /\ entry["path"] # "written" /\ NoFault /\ UndoFails /\ UNCHANGED files
       \/ /\ entry["path"] = "written"
          /\ \/ /\ v.found = NoFile /\ v.kind # "promote"
                /\ \/ entry' = Bound("path", NoFile) /\ NoFault /\ v' = Undone
                   \/ Fault /\ UNCHANGED entry /\ UndoFails
                /\ content' \in {content,
                     IF v.kind = "private" THEN [content EXCEPT !["written"] = "empty"]
                     ELSE content}
             \/ /\ v.kind = "promote"
                /\ \/ /\ NoFault /\ entry' = Renamed("path", "temp")
                      /\ v' = IF v.found = NoFile THEN Undone ELSE [v EXCEPT !.pc = "undoOld"]
                   \/ Fault /\ UNCHANGED entry /\ UndoFails
                /\ UNCHANGED content
             \/ /\ v.found # NoFile /\ v.kind # "promote"
                /\ \/ /\ entry["backup"] = "copy" /\ NoFault
                      /\ entry' = Renamed("backup", "path")
                      /\ v' = [Undone EXCEPT !.restored = TRUE]
                   \/ /\ (entry["backup"] # "copy" /\ NoFault) \/ Fault
                      /\ UNCHANGED entry /\ UndoFails
                /\ UNCHANGED content

\* The second half of undoing a promotion.
UndoOld ==
    /\ v.pc = "undoOld"
    /\ \/ /\ entry["path"] = NoFile /\ entry["backup"] = "copy" /\ NoFault
          /\ entry' = Renamed("backup", "path")
          /\ v' = [Undone EXCEPT !.restored = TRUE]
       \/ /\ (entry["path"] # NoFile \/ entry["backup"] # "copy") /\ NoFault
          /\ UNCHANGED entry /\ UndoFails
       \/ Fault /\ UNCHANGED entry /\ UndoFails
    /\ UNCHANGED content

-----------------------------------------------------------------------------
(* The finally blocks: files are deleted through their handles, whatever     *)
(* name they are bound to by then.                                           *)

Deleted(i, e) == [n \in Names |-> IF e[n] = i THEN NoFile ELSE e[n]]

Cleanup ==
    /\ v.pc = "cleanup"
    /\ LET dropTemp == v.open /\ ~v.committed /\ ~v.installed
           dropOld == v.saved /\ ~v.committed /\ ~v.restored /\ ~v.keep
                      /\ (v.kind = "workspace" => ~v.installed)
           less == IF dropTemp THEN Deleted("written", entry) ELSE entry
       IN  /\ \/ entry' = (IF dropOld THEN Deleted("copy", less) ELSE less) /\ NoFault
              \/ entry' \in {entry, less} /\ Fault
           /\ content' = [i \in Inodes |->
                IF v.kind # "workspace" /\ ((i = "copy" /\ dropOld) \/ (i = "written" /\ dropTemp))
                THEN "empty" ELSE content[i]]
    /\ To(IF v.error = "none" THEN "returned" ELSE v.error)

ProcessKilled == v.pc \in WindowsSteps /\ To("died") /\ NoFault /\ UNCHANGED files

\* While a private writer holds the old file open nobody can rename it.
InterfereBetween ==
    /\ v.pc \in WindowsSteps
    /\ Interfere
    /\ v.kind # "workspace" /\ v.found # NoFile /\ v.pc \in {"temp", "fill", "keepOld", "check"}
        => entry'["path"] = entry["path"]
    /\ UNCHANGED v

WindowsNext ==
    \/ InspectTarget \/ CreateTemp \/ WriteTemp \/ CopyRestore \/ Revalidate \/ RenameTemp
    \/ VerifyRenamed \/ SyncRenamed \/ DropRestore \/ Undo \/ UndoOld \/ Cleanup
    \/ ProcessKilled \/ InterfereBetween

WindowsSpec == WindowsInit /\ [][WindowsNext]_windowsVars

-----------------------------------------------------------------------------
(* Properties. *)

WindowsTypeOK ==
    /\ FilesTypeOK
    /\ v \in [pc : WindowsSteps \cup WindowsEnds, kind : Kinds,
              found : Inodes \cup {NoFile}, open : BOOLEAN, saved : BOOLEAN,
              installed : BOOLEAN, committed : BOOLEAN, restored : BOOLEAN,
              keep : BOOLEAN, again : BOOLEAN, error : {"none", "raised", "ambiguous"}]

\* As on POSIX, the old contents stay in the directory until the new file is
\* committed.  (A promotion whose rollback fails deletes its copy.)
WindowsOldContentsKept ==
    Calm /\ before = "old" /\ ~v.committed /\ (v.kind = "promote" => limit.faults < 2)
        => \E n \in Names : Held(n) = "old"

\* With one failing call, rename included, and nobody interfering each of the
\* writers is atomic; a promotion may be killed while its file is away.
WindowsJudged == Calm /\ limit.faults < 2 /\ v.kind # "promote"
WindowsStatus == IF v.pc \in WindowsEnds THEN v.pc ELSE "writing"

=============================================================================
