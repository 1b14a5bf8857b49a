----------------------------- MODULE Components -----------------------------
(***************************************************************************)
(* The components that share no state with each other, side by side: a     *)
(* behaviour is a behaviour of one of them, the others rest.  The three    *)
(* writers take turns at one directory.                                    *)
(***************************************************************************)
EXTENDS PrivateWrite, WindowsWrite, WorkspaceWrite, FileLock, Commands, GitCommand,
        ToolExecution, WorktreeAgents, ArtifactMigration, CommandPolicy, ProviderStream,
        SessionMigration, MemoryNotes, Recall, InputQueue, PreviewCoalescer, RunRecord,
        ResultPages

VARIABLE part   \* the component that runs

writtenVars == <<entry, content, before, limit, budget>>
Writers == {"private", "windows", "workspace"}
Components ==
    Writers \cup {"lock", "command", "git", "tool", "agents", "migration", "policy",
                  "provider", "session", "memory", "recall", "input", "preview", "record",
                  "pages"}

\* A component that rests has no state.
Resting == "resting"

ComponentsInit ==
    /\ part \in Components
    /\ IF part \in Writers
       THEN part # "windows" => FilesInit
       ELSE /\ entry = Resting /\ content = Resting /\ before = Resting
            /\ limit = Resting /\ budget = Resting
    /\ IF part = "private" THEN PrivateInit ELSE w = Resting
    /\ IF part = "windows" THEN WindowsInit ELSE v = Resting
    /\ IF part = "workspace" THEN WorkspaceInit ELSE t = Resting /\ saves = Resting /\ edited = Resting
    /\ IF part = "lock" THEN LockInit
       ELSE /\ platform = Resting /\ replaced = Resting /\ bound = Resting
            /\ owner = Resting /\ refs = Resting /\ party = Resting
    /\ IF part = "command" THEN CommandInit
       ELSE call = Resting /\ proc = Resting /\ stream = Resting
    /\ IF part = "git" THEN GitInit ELSE repo = Resting /\ git = Resting
    /\ IF part = "tool" THEN ToolInit
       ELSE workspace = Resting /\ mutator = Resting /\ tool = Resting
    /\ IF part = "agents" THEN AgentsInit
       ELSE /\ parent = Resting /\ tree = Resting /\ manifest = Resting
            /\ batch = Resting /\ runner = Resting /\ op = Resting
    /\ IF part = "migration" THEN MigrationInit
       ELSE dir = Resting /\ journal = Resting /\ mig = Resting /\ stray = Resting
    /\ IF part = "policy" THEN PolicyInit ELSE shell = Resting /\ verdict = Resting
    /\ IF part = "provider" THEN ProviderInit
       ELSE /\ exchange = Resting /\ request = Resting /\ reader = Resting
            /\ heard = Resting /\ preview = Resting /\ answer = Resting
    /\ IF part = "session" THEN SessionMigrationInit
       ELSE session = Resting /\ backups = Resting /\ move = Resting /\ edits = Resting
    /\ IF part = "memory" THEN MemoryInit
       ELSE /\ doc = Resting /\ clock = Resting /\ saver = Resting
            /\ saved = Resting /\ query = Resting /\ cache = Resting
    /\ IF part = "recall" THEN RecallInit
       ELSE recent = Resting /\ turn = Resting /\ given = Resting /\ past = Resting
    /\ IF part = "input" THEN InputInit
       ELSE inputs = Resting /\ worker = Resting /\ terminal = Resting /\ told = Resting
    /\ IF part = "preview" THEN PreviewInit
       ELSE /\ slot = Resting /\ streamer = Resting /\ flush = Resting
            /\ timers = Resting /\ screen = Resting
    /\ IF part = "record" THEN RecordInit
       ELSE run = Resting /\ record = Resting /\ history = Resting
    /\ IF part = "pages" THEN PagesInit ELSE text = Resting /\ reading = Resting

\* A step of one component leaves the others alone.
Runs(name, Step_, itsVars) == IF part = name THEN Step_ ELSE UNCHANGED itsVars

ComponentsNext ==
    /\ UNCHANGED part
    /\ part \notin Writers => UNCHANGED writtenVars
    /\ Runs("private", PrivateNext, w)
    /\ Runs("windows", WindowsNext, v)
    /\ Runs("workspace", WorkspaceNext, <<t, editVars>>)
    /\ Runs("lock", LockNext, lockVars)
    /\ Runs("command", CommandNext, commandVars)
    /\ Runs("git", GitNext, gitVars)
    /\ Runs("tool", ToolNext, toolVars)
    /\ Runs("agents", AgentsNext, agentsVars)
    /\ Runs("migration", MigrationNext, migrationVars)
    /\ Runs("policy", PolicyNext, policyVars)
    /\ Runs("provider", ProviderNext, providerVars)
    /\ Runs("session", SessionMigrationNext, sessionMigrationVars)
    /\ Runs("memory", MemoryNext, memoryVars)
    /\ Runs("recall", RecallNext, recallVars)
    /\ Runs("input", InputNext, inputVars)
    /\ Runs("preview", PreviewNext, previewVars)
    /\ Runs("record", RecordNext, recordVars)
    /\ Runs("pages", PagesNext, pagesVars)

componentVars ==
    <<part, writtenVars, w, v, t, editVars, lockVars, commandVars, gitVars, toolVars,
      agentsVars, migrationVars, policyVars, providerVars, sessionMigrationVars,
      memoryVars, recallVars, inputVars, previewVars, recordVars,
      pagesVars>>

\* A command is waited for: time passes, the scheduler runs the caller and its
\* reader threads.  An operation of the migration is carried through once it is
\* begun, and the operator who finds a journal starts recover and abort again
\* and again.
ComponentsFairness ==
    /\ WF_commandVars(part = "command" /\ Tick)
    /\ WF_commandVars(part = "command" /\ PosixStep)
    /\ WF_commandVars(part = "command" /\ WindowsStep)
    /\ \A s \in Streams : WF_commandVars(part = "command" /\ ReadStream(s))
    /\ WF_migrationVars(part = "migration" /\ OperationStep)
    /\ SF_migrationVars(part = "migration" /\ Recover)
    /\ SF_migrationVars(part = "migration" /\ Abort)

ComponentsSpec == ComponentsInit /\ [][ComponentsNext]_componentVars /\ ComponentsFairness

-----------------------------------------------------------------------------
(* Properties.  Each is a property of one component, explained where it is *)
(* defined, for the behaviours in which that component runs.               *)

\* Every component stays within its types: the steps, states and statuses the
\* code knows, the counters and queues within their bounds.
ComponentsTypeOK ==
    CASE part = "private" -> PrivateTypeOK
      [] part = "windows" -> WindowsTypeOK
      [] part = "workspace" -> WorkspaceTypeOK
      [] part = "lock" -> LockTypeOK
      [] part = "command" -> CommandTypeOK
      [] part = "git" -> GitTypeOK
      [] part = "tool" -> ToolTypeOK
      [] part = "agents" -> AgentsTypeOK
      [] part = "migration" -> MigrationTypeOK
      [] part = "policy" -> PolicyTypeOK
      [] part = "provider" -> ProviderTypeOK
      [] part = "session" -> SessionMigrationTypeOK
      [] part = "memory" -> MemoryTypeOK
      [] part = "recall" -> RecallTypeOK
      [] part = "input" -> InputTypeOK
      [] part = "preview" -> PreviewTypeOK
      [] part = "record" -> RecordTypeOK
      [] part = "pages" -> PagesTypeOK

\* The writers whose failures allow an atomic write, and the abstract file
\* they then implement.
Faithful ==
    CASE part = "private" -> Judged
      [] part = "windows" -> WindowsJudged
      [] OTHER -> FALSE
WrittenFile == INSTANCE AtomicFile WITH
    before <- IF part \in Writers THEN before ELSE "absent",
    value <- IF Faithful THEN Held("path")
             ELSE IF part \in Writers THEN before ELSE "absent",
    status <- IF ~Faithful THEN "writing"
              ELSE IF part = "private" THEN PrivateStatus ELSE WindowsStatus

\* The writers of private_files.py and windows_private_files.py implement an
\* atomic write: with one system call that fails, or a kill at any step, the
\* file is all old or all new, returned means new and raised means old.
AtomicWrites == WrittenFile!AtomicWrite

\* However many calls fail, the writers never drop the last copy of the old
\* contents before the new file is committed, and nobody who opens a private
\* file finds it cut short (write_private_bytes_atomic).
OldContentsSafe ==
    CASE part = "private" -> OldContentsKept /\ WholeContents
      [] part = "windows" -> WindowsOldContentsKept
      [] OTHER -> TRUE

\* A file that another program put in place of a private file or of its backup
\* is neither replaced nor removed, unless it came between the writer's last look
\* at the name and its call (write_private_bytes_atomic, _rollback_private_write).
UnknownSpared ==
    [][part = "private" => SparesUnknown]_<<writtenVars, w>>

\* A workspace file the user saves while a tool prepares its own version is
\* not overwritten, and no half of a file is ever seen (write_workspace_bytes_atomic).
WorkspaceEditsSafe == part = "workspace" => UserEditsKept /\ WorkspaceFileWhole

\* Threads, processes and forked children exclude each other while one of their
\* two lock files was never replaced, and nobody who left owns a flock
\* (locked_file).
LockSafe == part = "lock" => LockExcludes /\ NoLockLeaks

\* A command that finished in time is reported with all of its output; none of
\* its processes is left but a child that escaped from its group or ignored the
\* signal (run_process_group).
CommandsAccounted == part = "command" => WholeOutput /\ CommandStopped

\* Every command ends, whatever it and its descendants do with the streams,
\* the signals and the clock (run_process_group).
CommandsEnd == <>(part = "command" => CommandEnded)

\* Git is never run in a way in which the configuration of the repository
\* chooses a program to start (run_hardened_git).
GitSafe == part = "git" => GitStartsNothingForeign

\* What a tool call reports is what it did: no effect is left out, none of
\* another runtime is claimed, and a failure is told (execute_tool).
EffectsTold == part = "tool" => EffectsAreReported /\ EffectsAreOwn /\ FailureIsTold

\* Only what was sealed and is safe reaches the parent, a merge that was begun
\* does not conflict, and a batch is merged whole or not (merge_worktree_agent, merge_worktree_agent_batch).
AgentsMergedSafely ==
    part = "agents" => OnlySealedMerged /\ NoConflictingMerge /\ BatchMergedWhole

\* No command loses sealed work that is not merged, and a setup that is refused
\* undoes what it had set up (cleanup_worktree_agent,
\* run_worktree_agents).
AgentsWorkKept == part = "agents" => NoWorkLost /\ RefusedSetupLeavesNothing

\* Wherever the migration of the run records stops, the runs are kept whole in
\* one directory, with those stored until the directories are compared for the
\* last time, and a runtime that may start finds whole runs (migration.py).
MigratedRunsKept == part = "migration" => RunsKept

\* A migration that was begun is settled by recover and abort (migration.py).
MigrationSettles ==
    (part = "migration" /\ MigrationOpen) ~> (part = "migration" => MigrationSettled)

\* What the policy allows is a reader of the workspace and is run without a
\* shell; a sensitive name that the policy reads as the shell does is rejected in
\* every mode; and the modes let through what they name and nothing more
\* (assess_command, decide_permission).
PolicyFailsClosed ==
    part = "policy" => OnlyReadersUnasked /\ SensitiveRejected /\ PermissionsFailClosed

\* A Response is the whole of what the backend said, and a request tells every
\* result as the result of its call (the readers and writers of providers/).
ExchangesFaithful == part = "provider" => AnswerIsWhole /\ CallsKeepTheirResults

\* No migration of a Session loses a turn or leaves a Session in the current
\* format without the text it came from (SessionStore.load_tree).
SessionsMigratedWhole == part = "session" => TurnsKept /\ MigratedFromBackup

\* A note that was saved stays, and a turn is not shown a text the notes had
\* only before it began (BlockStore, Retrieval).
MemoryFaithful == part = "memory" => NotesKept /\ SnapshotFresh

\* The context chunks of a turn are the best that fit (allocate_context_chunks);
\* a text that does not fit one result is told page by page without a gap, and
\* a page can be followed as long as its text is there (page_text).
ContextFits ==
    /\ part = "recall" => TurnContextFits
    /\ part = "pages" => PagesTellTheText /\ PagesCanBeFollowed

\* No input is lost, repeated or left without a worker, closing never meets a
\* turn that waits for an answer, and what was granted was shown (InputQueue);
\* no preview of a response outlives it, and the latest one is drawn unless
\* its prompt ended (_PreviewCoalescer).
TerminalFaithful ==
    /\ part = "input" => InputsKept /\ NobodyWaitsClosed /\ GrantedAsShown
    /\ part = "preview" => NoStalePreview /\ LatestIsDrawn

\* The files of a run read back as what happened, or not at all, and what is
\* called recoverable is (observability.py, run_store.py).
RecordsTruthful ==
    part = "record" => ReadRecordIsTrue /\ OrderlyRecordReads /\ PreviewsRecoverable

=============================================================================
