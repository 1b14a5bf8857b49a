-------------------------- MODULE SessionMigration --------------------------
(***************************************************************************)
(* The migration of an old Session to the current format, as               *)
(* SessionStore.load_for_resume runs it (pony/state/session_store.py):     *)
(* a version 1 Session is one .json file, versions 2 to 4 are a .jsonl     *)
(* file that is replaced in place.  The source is backed up, a candidate   *)
(* is written next to it, and the candidate is promoted only while source  *)
(* and candidate are what they were.  The Session lock is held throughout, *)
(* but an older Pony or an editor does not take it: the source may change  *)
(* between any two steps.  The process may raise or be killed between any  *)
(* two steps, and resuming starts over.                                    *)
(*                                                                         *)
(* A text is its format, the turns it holds and the mode it records.  A    *)
(* signature (device, inode, size, times) changes with every write, and    *)
(* every edit adds a turn, so a file stands for its own signature.         *)
(***************************************************************************)
EXTENDS Naturals, FiniteSets

CONSTANTS MaxLegacyEdits,      \* turns another program adds to an old file
          MaxFailures    \* resumptions that raise or are killed

ASSUME SessionMigrationAssumption == MaxLegacyEdits \in Nat /\ MaxFailures \in Nat

VARIABLES session,    \* the files of one Session
          backups,    \* legacy-backups, named by digest: the texts in it
          move,       \* the resumption that runs and what it read
          edits       \* turns written so far, and those nothing could notice

sessionMigrationVars == <<session, backups, move, edits>>

OldFormats == {"v1", "v2", "v3", "v4"}
LegacyModes == {"act", "plan", "review"}
PermissionModes == {"default", "auto", "plan"}
ModesOf(format) ==
    CASE format = "v3" -> LegacyModes [] format \in {"v4", "v5"} -> PermissionModes
      [] OTHER -> {"none"}

LegacyTurns == 0..MaxLegacyEdits
\* goal: where the text keeps the current task, the mutable working memory of v1
\* or a task checkpoint.  switched: a v2 text records a model change, which no
\* later format has.
Texts(format) ==
    [format : {format}, mode : ModesOf(format), turns : SUBSET LegacyTurns,
     goal : IF format = "v1" THEN {"none", "working"} ELSE {"none", "checkpoint"},
     torn : BOOLEAN, switched : BOOLEAN]
AllTexts == UNION {Texts(format) : format \in OldFormats \cup {"v5"}}
NoSessionFile == [format |-> "none"]
Exists(f) == session[f] # NoSessionFile

\* The file a format lives in.
FileOf(format) == IF format = "v1" THEN "json" ELSE "jsonl"

SessionMigrationInit ==
    /\ \E format \in OldFormats :
        \E text \in {x \in Texts(format) : x.turns = {0} /\ ~x.torn
                                           /\ (x.switched => format = "v2")} :
            session = [f \in {"json", "jsonl", "candidate"} |->
                         IF f = FileOf(format) THEN text ELSE NoSessionFile]
    /\ backups = {}
    /\ move = [pc |-> "idle", source |-> NoSessionFile, failures |-> 0]
    /\ edits = [count |-> 0, unseen |-> {}]

\* The task of a v1 Session becomes its one task checkpoint.
PromotedWorkingState(text) == IF text.goal = "working" THEN "checkpoint" ELSE text.goal

\* A v1 text becomes a chain of entries in the default mode.
ConvertedLegacy(text) ==
    [text EXCEPT !.format = "v5", !.mode = "default", !.goal = PromotedWorkingState(text)]

\* Every line of a .jsonl text is converted: the turns stay, and the mode is the
\* one the current format has for it.  v4 keeps its own, v3 acted or planned.
ConvertedLines(text) ==
    [text EXCEPT !.format = "v5",
                 !.mode = CASE text.format = "v4" -> text.mode
                            [] text.format = "v3" /\ text.mode # "act" -> "plan"
                            [] OTHER -> "default"]

Converted(text) == IF text.format = "v1" THEN ConvertedLegacy(text) ELSE ConvertedLines(text)

-----------------------------------------------------------------------------
(* The steps of a resumption                                                *)

GoOn(step) == move' = [move EXCEPT !.pc = step]
Over == move' = [move EXCEPT !.pc = "idle", !.source = NoSessionFile]
Source == FileOf(move.source.format)

\* A check fails and load_for_resume raises: nothing is undone.
RaiseMoving ==
    /\ Over
    /\ UNCHANGED <<session, backups, edits>>

\* load_for_resume: the .jsonl file decides when there is one.
Resume ==
    /\ move.pc = "idle"
    /\ IF Exists("jsonl") THEN session["jsonl"].format \in {"v2", "v3", "v4"} ELSE Exists("json")
    /\ move' = [move EXCEPT !.pc = "read",
                            !.source = session[IF Exists("jsonl") THEN "jsonl" ELSE "json"]]
    /\ UNCHANGED <<session, backups, edits>>

\* The stable read and the parse.  A .jsonl file was already read once to learn
\* its version, and must not have changed; of a .json file this read is the first.
ReadSource ==
    /\ move.pc = "read"
    /\ LET text == session[Source]
       IN  IF \/ Source = "jsonl" /\ text # move.source
              \/ text.torn
              \/ text.switched
           THEN RaiseMoving
           ELSE /\ move' = [move EXCEPT !.pc = "backup", !.source = text]
                /\ UNCHANGED <<session, backups, edits>>

\* Mutant of WriteBackup: a backup of an earlier attempt is taken for this one's.
WriteBackupOnce ==
    /\ move.pc = "backup"
    /\ backups' = IF backups = {} THEN {move.source} ELSE backups
    /\ GoOn("candidate")
    /\ UNCHANGED <<session, edits>>

\* _write_or_verify_backup: its name is the digest of what it holds.
WriteBackup ==
    /\ move.pc = "backup"
    /\ backups' = backups \cup {move.source}
    /\ GoOn("candidate")
    /\ UNCHANGED <<session, edits>>

\* Whatever an earlier attempt left behind is replaced.
WriteCandidate ==
    /\ move.pc = "candidate"
    /\ session' = [session EXCEPT !["candidate"] = Converted(move.source)]
    /\ GoOn("recheck")
    /\ UNCHANGED <<backups, edits>>

SourceAsRead == session[Source] = move.source

\* The source is read again and its signature and digest compared.
Recheck ==
    /\ move.pc = "recheck"
    /\ IF SourceAsRead
       THEN GoOn("promote") /\ UNCHANGED <<session, backups, edits>>
       ELSE RaiseMoving

\* Mutant of DestinationAsExpected: only that the file is there is looked at.
DestinationThere == Exists("jsonl") <=> Source = "jsonl"

\* _promote_session_candidate: the file to replace is the one that was read, or
\* there is still none.
DestinationAsExpected ==
    IF Source = "jsonl" THEN SourceAsRead ELSE ~Exists("jsonl")

LookBeforePromoting ==
    /\ move.pc = "promote"
    /\ IF DestinationAsExpected
       THEN GoOn("replace") /\ UNCHANGED <<session, backups, edits>>
       ELSE RaiseMoving

Promote ==
    /\ move.pc = "replace"
    /\ session' = [session EXCEPT !["jsonl"] = session["candidate"], !["candidate"] = NoSessionFile]
    /\ IF Source = "json" THEN GoOn("remove") ELSE Over
    /\ UNCHANGED <<backups, edits>>

\* Mutant of LookBeforeRemoving: the legacy file is removed as it is found.
RemoveUnread ==
    /\ move.pc = "remove"
    /\ GoOn("unlink")
    /\ UNCHANGED <<session, backups, edits>>

\* _remove_migrated_session removes only the file that was migrated.
LookBeforeRemoving ==
    /\ move.pc = "remove"
    /\ IF SourceAsRead
       THEN GoOn("unlink") /\ UNCHANGED <<session, backups, edits>>
       ELSE RaiseMoving

RemoveLegacy ==
    /\ move.pc = "unlink"
    /\ session' = [session EXCEPT !["json"] = NoSessionFile]
    /\ Over
    /\ UNCHANGED <<backups, edits>>

\* The operation raises or its process is killed.
FailMoving ==
    /\ move.pc # "idle"
    /\ move.failures < MaxFailures
    /\ move' = [pc |-> "idle", source |-> NoSessionFile, failures |-> move.failures + 1]
    /\ UNCHANGED <<session, backups, edits>>

MoveStep == ReadSource \/ WriteBackup \/ WriteCandidate \/ Recheck \/ LookBeforePromoting
            \/ Promote \/ LookBeforeRemoving \/ RemoveLegacy

\* Another program adds a turn to a file in its old format.  After the last look
\* at that file nothing can notice it.
EditSource(f) ==
    /\ Exists(f) /\ session[f].format \in OldFormats
    /\ ~session[f].torn
    /\ edits.count < MaxLegacyEdits
    /\ \E torn \in IF f = "json" THEN {FALSE} ELSE BOOLEAN :
        session' = [session EXCEPT ![f].turns = @ \cup {edits.count + 1}, ![f].torn = torn]
    /\ edits' = [count |-> edits.count + 1,
                 unseen |-> IF move.pc = (IF f = "json" THEN "unlink" ELSE "replace")
                            THEN edits.unseen \cup {edits.count + 1} ELSE edits.unseen]
    /\ UNCHANGED <<backups, move>>

\* Another program restores the Session with a .jsonl file of its own.
CreateSession ==
    /\ ~Exists("jsonl")
    /\ edits.count < MaxLegacyEdits
    /\ session' = [session EXCEPT !["jsonl"] =
                     [format |-> "v4", mode |-> "plan", turns |-> {edits.count + 1},
                      goal |-> "none", torn |-> FALSE, switched |-> FALSE]]
    /\ edits' = [count |-> edits.count + 1,
                 unseen |-> IF move.pc = "replace"
                            THEN edits.unseen \cup {edits.count + 1} ELSE edits.unseen]
    /\ UNCHANGED <<backups, move>>

SessionMigrationNext ==
    \/ Resume \/ MoveStep \/ FailMoving \/ CreateSession
    \/ EditSource("json") \/ EditSource("jsonl")

SessionMigrationSpec == SessionMigrationInit /\ [][SessionMigrationNext]_sessionMigrationVars

-----------------------------------------------------------------------------
(* Properties *)

SessionMigrationTypeOK ==
    /\ \A f \in DOMAIN session : Exists(f) => session[f] \in AllTexts
    /\ backups \subseteq AllTexts
    /\ move.source \in AllTexts \cup {NoSessionFile}

\* Wherever a migration is cut short, and whoever edits the source meanwhile,
\* every turn is in the Session, in its legacy file or in a backup; the only
\* exception is a turn written between the last look at a file and its
\* replacement or removal (_promote_session_candidate, _remove_migrated_session).
TurnsKept ==
    \A turn \in 0..edits.count :
        \/ turn \in edits.unseen
        \/ \E text \in {session["json"], session["jsonl"]} \cup backups :
              text # NoSessionFile /\ turn \in text.turns

\* A Session in the current format came from a text that is in a backup, whole and
\* with its turns and its task; a Session that planned still plans, so nothing it may not do
\* becomes allowed by the new format (_migrate_jsonl_unlocked).
MigratedFromBackup ==
    Exists("jsonl") /\ session["jsonl"].format = "v5" =>
        \E old \in backups :
            /\ old.turns = session["jsonl"].turns
            /\ ~old.torn /\ ~session["jsonl"].torn
            /\ old.goal # "none" => session["jsonl"].goal = "checkpoint"
            /\ old.mode \in {"plan", "review"} => session["jsonl"].mode = "plan"

=============================================================================
