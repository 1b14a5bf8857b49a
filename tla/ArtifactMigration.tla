------------------------- MODULE ArtifactMigration -------------------------
(***************************************************************************)
(* Migration of pony/state/migration.py, as pony/cli/migration.py uses it  *)
(* for the run artifacts: a candidate is built next to the live directory, *)
(* the old directory is moved away, the candidate is installed, validated  *)
(* and committed.  A journal tells how far that went; `apply`, `abort` and *)
(* `recover` hold the migration lock, and any of them may raise or be      *)
(* killed between two steps.                                               *)
(***************************************************************************)
EXTENDS Naturals

CONSTANTS MaxStops,    \* operations that raise or are killed
          MaxApplies   \* times the user applies the migration

ASSUME MigrationAssumption == MaxStops \in Nat /\ MaxApplies \in Nat

VARIABLES dir,       \* the live, the candidate and the rollback directory
          journal,   \* the journal on disk
          mig,       \* the operation that runs
          stray      \* when a runtime that was already running wrote a run

migrationVars == <<dir, journal, mig, stray>>

Directories == {"live", "candidate", "rollback"}
DirectoryKinds == {"none", "old", "new", "bad", "part", "fresh"}
JournalStates == {"none", "preparing", "candidate_ready", "old_moved", "new_installed",
                  "validated", "committed", "rollback_required", "rolled_back",
                  "rollback_failed"}
Absent == [kind |-> "none", run |-> FALSE]
Built(kind) == [kind |-> kind, run |-> FALSE]
There(d) == dir[d].kind # "none"

NoJournal == [state |-> "none", source |-> Absent, candidate |-> Absent]

MigrationInit ==
    /\ dir = [d \in Directories |-> IF d = "live" THEN Built("old") ELSE Absent]
    /\ journal = NoJournal
    /\ mig = [op |-> "none", pc |-> "none", applies |-> 0, stops |-> 0]
    /\ stray = "never"

-----------------------------------------------------------------------------
(* The steps of an operation.                                               *)

At(step) == mig.op # "none" /\ mig.pc = step
Next(step) == mig' = [mig EXCEPT !.pc = step]
Return == mig' = [mig EXCEPT !.op = "none", !.pc = "none"]

\* _write: the journal is replaced as a whole.
Record(state, step) ==
    /\ journal' = [journal EXCEPT !.state = state]
    /\ Next(step)
    /\ UNCHANGED <<dir, stray>>

\* _rename refuses to replace a directory.
Rename(source, destination) ==
    /\ There(source) /\ ~There(destination)
    /\ dir' = [dir EXCEPT ![destination] = dir[source], ![source] = Absent]

\* _remove_tree, which may be cut short.
RemoveTree(d) == dir' = [dir EXCEPT ![d] = IF @.kind \in {"part", "none"} THEN Absent
                                       ELSE Built("part")]
Removing(pc, d, step) ==
    /\ At(pc)
    /\ IF There(d) THEN RemoveTree(d) /\ UNCHANGED mig ELSE Next(step) /\ UNCHANGED dir
    /\ UNCHANGED <<journal, stray>>

Renaming(pc, source, destination, step) ==
    /\ At(pc)
    /\ Rename(source, destination)
    /\ Next(step)
    /\ UNCHANGED <<journal, stray>>

\* An exception or a kill: the operation ends where it is.
Stop ==
    /\ mig.op # "none" /\ mig.stops < MaxStops
    /\ mig' = [mig EXCEPT !.op = "none", !.pc = "none", !.stops = @ + 1]
    /\ UNCHANGED <<dir, journal, stray>>

\* What an operation refuses: the journal or a directory is not what the step
\* needs, so it raises.
Refused ==
    /\ \/ At("check") /\ (dir["live"] # journal.source \/ dir["candidate"] # journal.candidate)
       \/ At("copy") /\ (~There("live") \/ There("candidate"))
       \/ At("moveOld") /\ (~There("live") \/ There("rollback"))
       \/ At("install") /\ (~There("candidate") \/ There("live"))
       \/ At("dropOld") /\ ~There("rollback")
       \/ At("undoHalf") /\ There("live")
    /\ Return
    /\ UNCHANGED <<dir, journal, stray>>

-----------------------------------------------------------------------------
(* apply *)

\* Where _advance takes up the journal; it has nothing to do for the others.
Advance(state) == CASE state = "candidate_ready" -> "check"
                    [] state = "old_moved" -> "install"
                    [] state = "new_installed" -> "validate"
                    [] state = "validated" -> "dropOld"
                    [] state = "committed" -> "dropJournal"
                    [] OTHER -> "return"

Apply ==
    /\ mig.op = "none" /\ mig.applies < MaxApplies
    /\ mig' = [mig EXCEPT !.op = "apply", !.applies = @ + 1,
                   !.pc = IF journal.state = "none" THEN "clear" ELSE Advance(journal.state)]
    /\ journal' = IF journal.state = "none"
                  THEN [NoJournal EXCEPT !.state = "preparing", !.source = dir["live"]]
                  ELSE journal
    /\ journal.state = "none" => There("live")
    /\ UNCHANGED <<dir, stray>>

ClearCandidate == Removing("clear", "candidate", "copy")

CopyLive ==
    /\ At("copy") /\ There("live") /\ ~There("candidate")
    /\ dir' = [dir EXCEPT !["candidate"] = [kind |-> "part", run |-> dir["live"].run]]
    /\ Next("build")
    /\ UNCHANGED <<journal, stray>>

\* Every run is converted and read once more; what the validation of the
\* installed directory will say is open.
BuildCandidate ==
    /\ At("build")
    /\ \E kind \in {"new", "bad"} : dir' = [dir EXCEPT !["candidate"].kind = kind]
    /\ Next("ready")
    /\ UNCHANGED <<journal, stray>>

RecordReady ==
    /\ At("ready")
    /\ journal' = [journal EXCEPT !.state = "candidate_ready", !.candidate = dir["candidate"]]
    /\ Next("check")
    /\ UNCHANGED <<dir, stray>>

\* Mutant of CheckIdentities: the live directory is not compared again before it is moved.
CheckCandidateOnly ==
    /\ At("check")
    /\ dir["candidate"] = journal.candidate
    /\ Next("moveOld")
    /\ UNCHANGED <<dir, journal, stray>>

\* _advance
CheckIdentities ==
    /\ At("check")
    /\ dir["live"] = journal.source /\ dir["candidate"] = journal.candidate
    /\ Next("moveOld")
    /\ UNCHANGED <<dir, journal, stray>>

MoveOld == Renaming("moveOld", "live", "rollback", "oldMoved")
RecordOldMoved == At("oldMoved") /\ Record("old_moved", "install")
InstallCandidate == Renaming("install", "candidate", "live", "installed")
RecordInstalled == At("installed") /\ Record("new_installed", "validate")

ValidateLive ==
    /\ At("validate")
    /\ IF dir["live"].kind = "new"
       THEN Record("validated", "dropOld")
       ELSE Record("rollback_required", "undoNew")

DropOld ==
    /\ At("dropOld") /\ There("rollback")
    /\ RemoveTree("rollback")
    /\ Next(IF dir["rollback"].kind = "part" THEN "commit" ELSE "dropOld")
    /\ UNCHANGED <<journal, stray>>

RecordCommitted == At("commit") /\ Record("committed", "dropJournal")

DropJournal ==
    /\ At("dropJournal")
    /\ journal' = NoJournal
    /\ Return
    /\ UNCHANGED <<dir, stray>>

\* Nothing to do for this journal.
ReturnState == At("return") /\ Return /\ UNCHANGED <<dir, journal, stray>>

-----------------------------------------------------------------------------
(* _rollback: the installed directory goes back to where the candidate was,  *)
(* the old one back to its place.  A failure is recorded for good.           *)

UndoNew ==
    /\ At("undoNew")
    /\ IF There("live") THEN Rename("live", "candidate") ELSE UNCHANGED dir
    /\ Next("undoOld")
    /\ UNCHANGED <<journal, stray>>

RestoreOld == Renaming("undoOld", "rollback", "live", "undone")
RecordRolledBack == At("undone") /\ Record("rolled_back", "return")

RollbackFails ==
    /\ mig.pc \in {"undoNew", "undoOld", "undone"} /\ mig.op # "none"
    /\ \/ mig.stops < MaxStops /\ mig' = [mig EXCEPT !.op = "none", !.pc = "none", !.stops = @ + 1]
       \/ /\ \/ At("undoNew") /\ There("live") /\ There("candidate")
             \/ At("undoOld") /\ (~There("rollback") \/ There("live"))
          /\ Return
    /\ journal' = [journal EXCEPT !.state = "rollback_failed"]
    /\ UNCHANGED <<dir, stray>>

-----------------------------------------------------------------------------
(* abort and recover *)

Abort ==
    /\ mig.op = "none" /\ journal.state \in {"preparing", "candidate_ready"}
    /\ mig' = [mig EXCEPT !.op = "abort", !.pc = "discard"]
    /\ UNCHANGED <<dir, journal, stray>>

DiscardCandidate == Removing("discard", "candidate", "dropJournal")

\* Mutant of Reconciled: a candidate that was installed without a record is not noticed.
ReconciledMoveOnly ==
    CASE journal.state = "candidate_ready" /\ ~There("live") /\ There("candidate")
           /\ There("rollback") -> "old_moved"
      [] journal.state = "validated" /\ There("live") /\ ~There("rollback") -> "committed"
      [] OTHER -> journal.state

\* _reconcile: the renames that happened decide, not the journal.
Reconciled ==
    CASE journal.state = "candidate_ready" /\ ~There("live") /\ There("candidate")
           /\ There("rollback") -> "old_moved"
      [] journal.state = "old_moved" /\ There("live") /\ ~There("candidate")
           /\ There("rollback") -> "new_installed"
      [] journal.state = "validated" /\ There("live") /\ ~There("rollback") -> "committed"
      [] journal.state = "rollback_required" /\ There("live") /\ There("candidate")
           /\ ~There("rollback") -> "rolled_back"
      [] OTHER -> journal.state

HalfUndone == /\ journal.state = "rollback_required" /\ ~There("live")
              /\ There("candidate") /\ There("rollback")

Recover ==
    /\ mig.op = "none" /\ journal.state # "none"
    /\ journal' = [journal EXCEPT !.state = Reconciled]
    /\ LET state == Reconciled
           aborted == state = "candidate_ready" /\ There("live") /\ ~There("candidate")
                      /\ ~There("rollback")
       IN  mig' = [mig EXCEPT !.op = "recover",
                       !.pc = CASE HalfUndone -> "undoHalf"
                                [] state \in {"preparing", "rolled_back"} -> "discard"
                                [] aborted -> "dropJournal"
                                [] state = "rollback_required" /\ ~HalfUndone -> "undoNew"
                                [] OTHER -> Advance(state)]
    /\ UNCHANGED <<dir, stray>>

\* A rollback that was cut between its two renames, outside the handler that
\* records a failure for good.
UndoHalf == Renaming("undoHalf", "rollback", "live", "undoneHalf")
RecordUndoneHalf == At("undoneHalf") /\ Record("rolled_back", "discard")

\* A runtime that was started before the migration stores a run.
StoreRun ==
    /\ stray = "never"
    /\ dir' = [dir EXCEPT !["live"] = [kind |-> IF There("live") THEN @.kind ELSE "fresh",
                                       run |-> TRUE]]
    /\ stray' = IF mig.pc = "moveOld" THEN "moveOld" ELSE journal.state
    /\ UNCHANGED <<journal, mig>>

OperationStep ==
    \/ ClearCandidate \/ CopyLive \/ BuildCandidate \/ RecordReady \/ CheckIdentities
    \/ MoveOld \/ RecordOldMoved \/ InstallCandidate \/ RecordInstalled \/ ValidateLive
    \/ DropOld \/ RecordCommitted \/ DropJournal \/ ReturnState \/ Refused
    \/ UndoNew \/ RestoreOld \/ RecordRolledBack \/ DiscardCandidate
    \/ UndoHalf \/ RecordUndoneHalf

MigrationNext == Apply \/ Abort \/ Recover \/ OperationStep \/ Stop \/ RollbackFails \/ StoreRun

\* An operation runs on, and a user who finds a journal keeps trying to recover
\* and to abort.
MigrationFairness ==
    /\ WF_migrationVars(OperationStep)
    /\ SF_migrationVars(Recover)
    /\ SF_migrationVars(Abort)

MigrationSpec == MigrationInit /\ [][MigrationNext]_migrationVars /\ MigrationFairness

-----------------------------------------------------------------------------
(* Properties. *)

MigrationTypeOK ==
    /\ dir \in [Directories -> [kind : DirectoryKinds, run : BOOLEAN]]
    /\ journal.state \in JournalStates
    /\ mig.op \in {"none", "apply", "abort", "recover"}
    /\ mig.applies \in 0..MaxApplies /\ mig.stops \in 0..MaxStops

\* migration_preflight lets a runtime start when there is no journal.
RuntimeMayStart == journal.state = "none"

\* Wherever the operations stop, the runs are whole in one directory: the old
\* ones until the new ones have been validated.
OldRunsKept == \E d \in {"live", "rollback"} : dir[d].kind \in {"old", "new"}

\* A runtime that may start finds no half of a directory as its runs.
LiveRunsWhole ==
    RuntimeMayStart /\ There("live") => dir["live"].kind \in {"old", "new", "fresh"}

\* A run that is stored until the directories are compared for the last time
\* survives, whatever the operations do afterwards.
StoredRunKept ==
    stray \in {"preparing", "candidate_ready"} => \E d \in Directories : dir[d].run

RunsKept == OldRunsKept /\ LiveRunsWhole /\ StoredRunKept

\* A journal is got rid of, unless a rollback itself failed or a runtime has
\* put a directory where the migration needs none.
MigrationOpen == journal.state # "none"
MigrationSettled == journal.state \in {"none", "rollback_failed"} \/ stray # "never"

=============================================================================
