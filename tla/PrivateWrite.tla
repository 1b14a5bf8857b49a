---------------------------- MODULE PrivateWrite ----------------------------
(***************************************************************************)
(* write_private_bytes_atomic of pony/security/private_files.py: a file is *)
(* replaced through a temporary file, with a copy of the old one to return *)
(* to, and every failure is rolled back as far as it can be.               *)
(*                                                                         *)
(* The writer looks at a name and then replaces or removes it: these are   *)
(* two steps, and somebody else may rebind the name in between.            *)
(***************************************************************************)
EXTENDS Files

VARIABLE w   \* _PrivateAtomicWriteState and the place in the function

privateVars == <<entry, content, before, limit, budget, w>>

PrivateSteps == {"inspect", "temp", "fill", "backup", "copy", "validate", "check",
                 "install", "linked", "verify", "sync", "callback", "rollback",
                 "owned", "unlink", "restore", "look", "replace", "restored", "wipe",
                 "cleanTemp", "cleanBackup", "discard", "remove", "removeSync",
                 "rebuild", "swap", "rebuilt", "close"}
PrivateEnds == {"returned", "raised", "ambiguous", "died"}

PrivateInit ==
    \E create \in BOOLEAN :
        w = [pc |-> "inspect", create |-> create, found |-> NoFile,
             owned |-> FALSE, named |-> FALSE, started |-> FALSE, committed |-> FALSE,
             kept |-> FALSE, keepNew |-> FALSE, error |-> "none"]

Goto(step) == w' = [w EXCEPT !.pc = step]

\* An exception inside the try block runs the rollback and then the cleanup.
Raise == w' = [w EXCEPT !.pc = "rollback", !.error = "raised"]

\* A step of the try block: what it requires of the directory, and what it
\* does; it raises when the requirement or a system call fails.
Attempt(step, requirement, Effect) ==
    /\ w.pc = step
    /\ \/ requirement /\ Effect /\ NoFault
       \/ ~requirement /\ Raise /\ NoFault /\ UNCHANGED files
       \/ Fault /\ Raise /\ UNCHANGED files

Inspect ==
    Attempt("inspect",
            /\ entry["path"] # NoFile => Links(entry["path"]) = 1
            /\ w.create => entry["path"] = NoFile,
            /\ w' = [w EXCEPT !.pc = "temp", !.found = entry["path"]]
            /\ UNCHANGED files)

OpenTemp ==
    Attempt("temp", TRUE,
            /\ entry' = Bound("temp", "written")
            /\ content' = [content EXCEPT !["written"] = "part"]
            /\ w' = [w EXCEPT !.pc = "fill", !.owned = TRUE])

FillTemp ==
    Attempt("fill", TRUE,
            /\ content' = [content EXCEPT !["written"] = "new"]
            /\ Goto(IF w.found = NoFile THEN "check" ELSE "backup")
            /\ UNCHANGED entry)

OpenBackup ==
    Attempt("backup", entry["path"] = w.found,
            /\ entry' = Bound("backup", "copy")
            /\ content' = [content EXCEPT !["copy"] = "part"]
            /\ w' = [w EXCEPT !.pc = "copy", !.named = TRUE])

\* The source is read through its descriptor, whatever its name binds now.
CopyBackup ==
    Attempt("copy", TRUE,
            /\ content' = [content EXCEPT !["copy"] = content[w.found]]
            /\ Goto("validate")
            /\ UNCHANGED entry)

\* The copy is still the file that was written, under its name.
BackupIntact == entry["backup"] = "copy" /\ content["copy"] = content[w.found]

ValidateBackup ==
    Attempt("validate", entry["path"] = w.found /\ BackupIntact,
            Goto("check") /\ UNCHANGED files)

CheckTarget ==
    Attempt("check", entry["path"] = w.found,
            Goto("install") /\ UNCHANGED files)

\* The rename, or for a file that must be new the link that refuses to
\* replace anything; from here on a failure has something to roll back.
InstallTemp ==
    /\ w.pc = "install"
    /\ \/ /\ ~w.create
          /\ entry' = Renamed("temp", "path")
          /\ w' = [w EXCEPT !.pc = "verify", !.started = TRUE]
          /\ NoFault
       \/ /\ w.create /\ entry["path"] = NoFile
          /\ entry' = Bound("path", "written")
          /\ w' = [w EXCEPT !.pc = "linked", !.started = TRUE]
          /\ NoFault
       \/ /\ \/ w.create /\ entry["path"] # NoFile /\ NoFault
             \/ Fault
          /\ w' = [w EXCEPT !.pc = "rollback", !.started = TRUE, !.error = "raised"]
          /\ UNCHANGED entry
    /\ UNCHANGED content

UnlinkTemp ==
    Attempt("linked", entry["path"] = "written" /\ Links("written") = 2,
            entry' = Bound("temp", NoFile) /\ Goto("verify") /\ UNCHANGED content)

VerifyInstalled ==
    Attempt("verify", entry["path"] = "written" /\ Links("written") = 1,
            Goto("sync") /\ UNCHANGED files)

SyncParent ==
    Attempt("sync", TRUE,
            w' = [w EXCEPT !.pc = "callback", !.committed = TRUE] /\ UNCHANGED files)

\* The caller's validate_commit runs once more after the commit.
ValidateCommit == Attempt("callback", TRUE, Goto("cleanTemp") /\ UNCHANGED files)

-----------------------------------------------------------------------------
(* The rollback. *)

\* Mutant of CanonicalState: whatever is there and is not the old file is taken for the writer's.
CanonicalStateTrusting ==
    CASE entry["path"] = NoFile -> "missing"
      [] entry["path"] = w.found -> "original"
      [] OTHER -> "writer"

CanonicalState == CASE entry["path"] = NoFile -> "missing"
                    [] entry["path"] = "written" -> "writer"
                    [] entry["path"] = w.found -> "original"
                    [] OTHER -> "unknown"

\* The rollback itself fails: the copy of the old file is kept under its name.
GiveUp == w' = [w EXCEPT !.pc = "cleanTemp", !.kept = @ \/ w.named]

\* Mutant of GiveUpRestoring: a restoration that fails lets the cleanup discard the copy.
GiveUpRestoringBare == w' = [w EXCEPT !.pc = "cleanTemp"]

GiveUpRestoring ==
    w' = [w EXCEPT !.pc = "cleanTemp", !.kept = @ \/ w.named, !.keepNew = @ \/ w.named]

Rollback ==
    /\ w.pc = "rollback"
    /\ \/ ~w.started /\ Goto("cleanTemp") /\ NoFault
       \/ /\ w.started
          /\ \/ CanonicalState = "unknown" /\ GiveUp /\ NoFault
             \/ w.found = NoFile /\ CanonicalState = "writer" /\ Goto("owned") /\ NoFault
             \/ /\ CanonicalState = "original" \/ (w.found = NoFile /\ CanonicalState = "missing")
                /\ Goto("wipe") /\ NoFault
             \/ /\ w.found # NoFile /\ CanonicalState \in {"writer", "missing"}
                /\ Goto("restore") /\ NoFault
             \/ GiveUp /\ Fault
    /\ UNCHANGED files

\* _remove_owned_entry, for a file that was not there before: the last look,
RemoveInstalled ==
    /\ w.pc = "owned"
    /\ \/ entry["path"] = "written" /\ Goto("unlink") /\ NoFault
       \/ entry["path"] = NoFile /\ Goto("wipe") /\ NoFault
       \/ entry["path"] \notin {"written", NoFile} /\ GiveUp /\ NoFault
       \/ GiveUp /\ Fault
    /\ UNCHANGED files

\* and the removal of whatever the name binds by then.
UnlinkInstalled ==
    /\ w.pc = "unlink"
    /\ \/ entry["path"] # NoFile /\ entry' = Bound("path", NoFile) /\ Goto("wipe") /\ NoFault
       \/ entry["path"] = NoFile /\ UNCHANGED entry /\ GiveUp /\ NoFault
       \/ entry' \in {entry, Bound("path", NoFile)} /\ GiveUp /\ Fault
    /\ UNCHANGED content

\* The backup is validated, then the target is looked at a last time,
RestoreBackup ==
    /\ w.pc = "restore"
    /\ \/ BackupIntact /\ Goto("look") /\ NoFault
       \/ ~BackupIntact /\ GiveUpRestoring /\ NoFault
       \/ GiveUpRestoring /\ Fault
    /\ UNCHANGED files

LookBeforeRestore ==
    /\ w.pc = "look"
    /\ \/ CanonicalState = "original" /\ Goto("wipe") /\ NoFault
       \/ CanonicalState \in {"writer", "missing"} /\ Goto("replace") /\ NoFault
       \/ CanonicalState = "unknown" /\ GiveUpRestoring /\ NoFault
       \/ GiveUpRestoring /\ Fault
    /\ UNCHANGED files

\* and whatever it binds by then is replaced.
ReplaceByBackup ==
    /\ w.pc = "replace"
    /\ \/ /\ entry["backup"] # NoFile /\ NoFault
          /\ entry' = Renamed("backup", "path")
          /\ w' = [w EXCEPT !.pc = "restored", !.named = FALSE]
       \/ entry["backup"] = NoFile /\ GiveUpRestoring /\ NoFault /\ UNCHANGED entry
       \/ GiveUpRestoring /\ Fault /\ UNCHANGED entry
    /\ UNCHANGED content

VerifyRestored ==
    /\ w.pc = "restored"
    /\ \/ entry["path"] = "copy" /\ Goto("wipe") /\ NoFault
       \/ entry["path"] # "copy" /\ GiveUpRestoring /\ NoFault
       \/ Fault /\ GiveUpRestoring
    /\ UNCHANGED files

WipeWritten ==
    /\ w.pc = "wipe"
    /\ \/ /\ content' = IF w.owned THEN [content EXCEPT !["written"] = "empty"] ELSE content
          /\ Goto("cleanTemp") /\ NoFault
       \/ Fault /\ GiveUp /\ UNCHANGED content
    /\ UNCHANGED entry

-----------------------------------------------------------------------------
(* The cleanup, after success and after a rollback; it swallows what fails. *)

CleanupTemp ==
    /\ w.pc = "cleanTemp"
    /\ IF w.owned /\ ~w.committed /\ ~w.keepNew
       THEN \/ /\ content' = [content EXCEPT !["written"] = "empty"]
               /\ entry' = Removed("temp", "written") /\ NoFault
            \/ /\ content' \in {content, [content EXCEPT !["written"] = "empty"]}
               /\ entry' \in {entry, Removed("temp", "written")}
               /\ Fault
       ELSE UNCHANGED files /\ NoFault
    /\ Goto("cleanBackup")

\* What is left of the backup: nothing to do, discarded after a failure, or
\* removed after the commit.  A commit whose backup cannot be removed is undone.
CleanupBackup ==
    /\ w.pc = "cleanBackup"
    /\ \/ (~w.named \/ w.kept) /\ Goto("close") /\ NoFault /\ UNCHANGED content
       \/ /\ w.named /\ ~w.kept /\ ~w.committed
          /\ \/ /\ content' = [content EXCEPT !["copy"] = "empty"]
                /\ Goto(IF entry["backup"] = "copy" THEN "discard" ELSE "close") /\ NoFault
             \/ /\ content' \in {content, [content EXCEPT !["copy"] = "empty"]}
                /\ (entry["backup"] = "copy" /\ Goto("discard")) \/ Goto("close")
                /\ Fault
       \/ /\ w.named /\ ~w.kept /\ w.committed
          /\ \/ entry["backup"] = "copy" /\ Goto("remove") /\ NoFault
             \/ /\ (entry["backup"] # "copy" /\ NoFault) \/ Fault
                /\ w' = [w EXCEPT !.pc = "rebuild", !.error = "raised"]
          /\ UNCHANGED content
    /\ UNCHANGED entry

\* The two removals, of whatever the name binds by then.
DiscardBackup ==
    /\ w.pc = "discard"
    /\ \/ entry' = Bound("backup", NoFile) /\ NoFault
       \/ entry' \in {entry, Bound("backup", NoFile)} /\ Fault
    /\ Goto("close")
    /\ UNCHANGED content

RemoveBackup ==
    /\ w.pc = "remove"
    /\ \/ /\ entry["backup"] # NoFile /\ NoFault
          /\ entry' = Bound("backup", NoFile) /\ Goto("removeSync")
       \/ /\ (entry["backup"] = NoFile /\ NoFault) \/ Fault
          /\ w' = [w EXCEPT !.pc = "rebuild", !.error = "raised"]
          /\ UNCHANGED entry
    /\ UNCHANGED content

SyncRemoval ==
    /\ w.pc = "removeSync"
    /\ \/ /\ content' = [content EXCEPT !["copy"] = "empty"]
          /\ Goto("close") /\ NoFault
       \/ /\ Fault /\ UNCHANGED content
          /\ w' = [w EXCEPT !.pc = "rebuild", !.error = "raised"]
    /\ UNCHANGED entry

\* The old contents are rebuilt from the descriptor of the backup, the target
\* is looked at a last time,
Rebuild ==
    /\ w.pc = "rebuild"
    /\ \/ /\ CanonicalState \in {"writer", "missing"} /\ NoFault
          /\ content' = [content EXCEPT !["rebuilt"] = content["copy"]]
          /\ Goto("swap")
       \/ /\ (CanonicalState \notin {"writer", "missing"} /\ NoFault) \/ Fault
          /\ w' = [w EXCEPT !.pc = "close", !.error = "ambiguous"]
          /\ UNCHANGED content
    /\ UNCHANGED entry

\* and whatever it binds by then is replaced.
SwapRebuilt ==
    /\ w.pc = "swap"
    /\ \/ entry' = Bound("path", "rebuilt") /\ Goto("rebuilt") /\ NoFault
       \/ /\ w' = [w EXCEPT !.pc = "close", !.error = "ambiguous"]
          /\ Fault /\ UNCHANGED entry
    /\ UNCHANGED content

FinishRebuild ==
    /\ w.pc = "rebuilt"
    /\ \/ /\ entry["path"] = "rebuilt" /\ NoFault
          /\ content' = [content EXCEPT !["written"] = "empty"]
          /\ w' = [w EXCEPT !.pc = "close", !.committed = FALSE]
       \/ /\ (entry["path"] # "rebuilt" /\ NoFault) \/ Fault
          /\ w' = [w EXCEPT !.pc = "close", !.error = "ambiguous"]
          /\ UNCHANGED content
    /\ UNCHANGED entry

Close ==
    /\ w.pc = "close"
    /\ Goto(IF w.error = "none" THEN "returned" ELSE w.error)
    /\ NoFault /\ UNCHANGED files

\* The process is killed between two system calls.
Killed ==
    /\ w.pc \in PrivateSteps
    /\ Goto("died") /\ NoFault /\ UNCHANGED files

PrivateNext ==
    \/ Inspect \/ OpenTemp \/ FillTemp \/ OpenBackup \/ CopyBackup \/ ValidateBackup
    \/ CheckTarget \/ InstallTemp \/ UnlinkTemp \/ VerifyInstalled \/ SyncParent
    \/ ValidateCommit \/ Rollback \/ RemoveInstalled \/ UnlinkInstalled
    \/ RestoreBackup \/ LookBeforeRestore \/ ReplaceByBackup \/ VerifyRestored \/ WipeWritten
    \/ CleanupTemp \/ CleanupBackup \/ DiscardBackup \/ RemoveBackup \/ SyncRemoval
    \/ Rebuild \/ SwapRebuilt \/ FinishRebuild \/ Close
    \/ Killed
    \/ w.pc \in PrivateSteps /\ (Interfere \/ Appear) /\ UNCHANGED w

PrivateSpec == FilesInit /\ PrivateInit /\ [][PrivateNext]_privateVars

-----------------------------------------------------------------------------
(* Properties. *)

PrivateTypeOK ==
    /\ FilesTypeOK
    /\ w \in [pc : PrivateSteps \cup PrivateEnds, create : BOOLEAN,
              found : Inodes \cup {NoFile}, owned : BOOLEAN, named : BOOLEAN,
              started : BOOLEAN, committed : BOOLEAN, kept : BOOLEAN,
              keepNew : BOOLEAN, error : {"none", "raised", "ambiguous"}]

\* Wherever a write fails or is killed, and whatever then fails in its
\* rollback, the old contents are in the directory until the new file is
\* committed: write_private_bytes_atomic never drops its last copy of them.
OldContentsKept ==
    Calm /\ before = "old" /\ ~w.committed => \E n \in Names : Held(n) = "old"

\* Whoever opens the file finds whole contents, also after a failure or a
\* kill.  A second failing call may leave the new file empty under its name,
\* where the rollback could not even look at it; then the copy of the old one
\* stays beside it.
WholeContents ==
    Held("path") \in {"part", "empty"} =>
        /\ limit.faults >= 2
        /\ Calm /\ before = "old" => Held("backup") = "old"

\* The steps between the last look at a name and the call that replaces or
\* removes what it binds.
InWindow(name) ==
    w.pc \in IF name = "path" THEN {"install", "unlink", "replace", "swap"}
             ELSE {"look", "replace", "discard", "remove"}

\* What somebody else put in place of the file or of its backup is neither
\* replaced nor removed, nor does the writer go on to do so, unless it came in
\* such a window.
SparesUnknown ==
    \A name \in {"path", "backup"} :
        entry[name] = "foreign" /\ (name = "path" => w.found # "foreign") /\ ~InWindow(name)
            => /\ entry'[name] = "foreign" \/ budget'.foreign < budget.foreign
               /\ ~InWindow(name)'

\* With one failing call and nobody interfering the write is atomic.
Judged == Calm /\ limit.faults < 2
PrivateStatus == IF w.pc \in PrivateEnds THEN w.pc ELSE "writing"

=============================================================================
