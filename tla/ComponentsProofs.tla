-------------------------- MODULE ComponentsProofs --------------------------
(***************************************************************************)
(* What was proved of one component holds in Components: the others do not *)
(* touch its variables, and a behaviour stays with the component it began  *)
(* with.                                                                   *)
(***************************************************************************)
EXTENDS Components, FilesProofs, ToolsProofs, ConversationProofs, ProviderProofs

\* One component begins, as it begins alone.
LEMMA PartBegins ==
    ASSUME ComponentsInit
    PROVE  /\ part \in Components
           /\ part = "workspace" => FilesInit /\ WorkspaceInit
           /\ part = "lock" => LockInit
           /\ part = "command" => CommandInit
           /\ part = "git" => GitInit
           /\ part = "tool" => ToolInit
           /\ part = "agents" => AgentsInit
           /\ part = "migration" => MigrationInit
           /\ part = "policy" => PolicyInit
           /\ part = "provider" => ProviderInit
           /\ part = "session" => SessionMigrationInit
           /\ part = "memory" => MemoryInit
           /\ part = "recall" => RecallInit
           /\ part = "input" => InputInit
           /\ part = "preview" => PreviewInit
           /\ part = "record" => RecordInit
           /\ part = "pages" => PagesInit
<1>1. part = "workspace" => FilesInit /\ WorkspaceInit
  BY DEF ComponentsInit, Writers
<1>2. part = "lock" => LockInit
  BY Zenon DEF ComponentsInit
<1>3. part = "command" => CommandInit
  BY Zenon DEF ComponentsInit
<1>4. part = "git" => GitInit
  BY Zenon DEF ComponentsInit
<1>5. part = "tool" => ToolInit
  BY Zenon DEF ComponentsInit
<1>6. part = "agents" => AgentsInit
  BY Zenon DEF ComponentsInit
<1>7. part = "migration" => MigrationInit
  BY Zenon DEF ComponentsInit
<1>8. part = "policy" => PolicyInit
  BY Zenon DEF ComponentsInit
<1>9. part = "provider" => ProviderInit
  BY Zenon DEF ComponentsInit
<1>10. part = "session" => SessionMigrationInit
  BY Zenon DEF ComponentsInit
<1>11. part = "memory" => MemoryInit
  BY Zenon DEF ComponentsInit
<1>12. part = "recall" => RecallInit
  BY Zenon DEF ComponentsInit
<1>13. part = "input" => InputInit
  BY Zenon DEF ComponentsInit
<1>14. part = "preview" => PreviewInit
  BY Zenon DEF ComponentsInit
<1>15. part = "record" => RecordInit
  BY Zenon DEF ComponentsInit
<1>16. part = "pages" => PagesInit
  BY Zenon DEF ComponentsInit
<1>17. part \in Components
  BY Zenon DEF ComponentsInit
<1> QED BY <1>1, <1>2, <1>3, <1>4, <1>5, <1>6, <1>7, <1>8, <1>9, <1>10,
          <1>11, <1>12, <1>13, <1>14, <1>15, <1>16, <1>17

\* A step of Components is a step of the one component that runs.
LEMMA PartSteps ==
    ASSUME [ComponentsNext]_componentVars
    PROVE  /\ part' = part
           /\ part = "workspace" => [WorkspaceNext]_workspaceVars
           /\ part = "lock" => [LockNext]_lockVars
           /\ part = "command" => [CommandNext]_commandVars
           /\ part = "git" => [GitNext]_gitVars
           /\ part = "tool" => [ToolNext]_toolVars
           /\ part = "agents" => [AgentsNext]_agentsVars
           /\ part = "migration" => [MigrationNext]_migrationVars
           /\ part = "policy" => [PolicyNext]_policyVars
           /\ part = "provider" => [ProviderNext]_providerVars
           /\ part = "session" => [SessionMigrationNext]_sessionMigrationVars
           /\ part = "memory" => [MemoryNext]_memoryVars
           /\ part = "recall" => [RecallNext]_recallVars
           /\ part = "input" => [InputNext]_inputVars
           /\ part = "preview" => [PreviewNext]_previewVars
           /\ part = "record" => [RecordNext]_recordVars
           /\ part = "pages" => [PagesNext]_pagesVars
<1>1. ASSUME ComponentsNext
      PROVE  /\ part' = part
             /\ part = "workspace" => WorkspaceNext
             /\ part = "lock" => LockNext
             /\ part = "command" => CommandNext
             /\ part = "git" => GitNext
             /\ part = "tool" => ToolNext
             /\ part = "agents" => AgentsNext
             /\ part = "migration" => MigrationNext
             /\ part = "policy" => PolicyNext
             /\ part = "provider" => ProviderNext
             /\ part = "session" => SessionMigrationNext
             /\ part = "memory" => MemoryNext
             /\ part = "recall" => RecallNext
             /\ part = "input" => InputNext
             /\ part = "preview" => PreviewNext
             /\ part = "record" => RecordNext
             /\ part = "pages" => PagesNext
  BY <1>1, Zenon DEF ComponentsNext, Runs
<1>2. ASSUME UNCHANGED componentVars
      PROVE  /\ part' = part /\ UNCHANGED workspaceVars
             /\ UNCHANGED lockVars /\ UNCHANGED commandVars /\ UNCHANGED gitVars /\ UNCHANGED toolVars
             /\ UNCHANGED agentsVars /\ UNCHANGED migrationVars /\ UNCHANGED policyVars /\ UNCHANGED providerVars
             /\ UNCHANGED sessionMigrationVars /\ UNCHANGED memoryVars /\ UNCHANGED recallVars /\ UNCHANGED inputVars
             /\ UNCHANGED previewVars /\ UNCHANGED recordVars /\ UNCHANGED pagesVars
  BY <1>2, Zenon DEF componentVars, workspaceVars, writtenVars, editVars
<1> QED BY <1>1, <1>2

\* Threads, processes and forked children exclude each other while one of the two
\* lock files was not replaced, and nobody who left owns a flock, on every
\* platform and for any number of them (locked_file).
THEOREM LocksAreSafe == ComponentsSpec => []LockSafe
<1> DEFINE LockRuns == part = "lock" => LockInv /\ NoLockLeaks
<1>1. ComponentsInit => LockRuns
  <2>1. LockInit => LockInv /\ NoLockLeaks
    BY LockInvInit DEF LockInit, NoLockLeaks, LockFiles
  <2> QED BY <2>1, PartBegins
<1>2. LockRuns /\ [ComponentsNext]_componentVars => LockRuns'
  BY PartSteps, LockInvNext, NoLeakNext
<1>3. LockRuns => LockSafe
  BY LockInvExcludes DEF LockSafe
<1> QED BY <1>1, <1>2, <1>3, PTL DEF ComponentsSpec

\* No saved note is lost and no turn works on a text from before it began, for
\* any number of savers and any history (BlockStore.append_agent_note,
\* Retrieval.snapshot).
THEOREM MemoryIsFaithful == ComponentsSpec => []MemoryFaithful
<1> DEFINE Inv == MemoryTyped /\ Locked /\ NotesKept /\ SnapshotInv
           MemoryRuns == part = "memory" => Inv
<1>1. ComponentsInit => MemoryRuns
  <2>1. MemoryInit => Inv
    BY TypedInit, LockedInit, SnapshotInit
  <2> QED BY <2>1, PartBegins
<1>2. MemoryRuns /\ [ComponentsNext]_componentVars => MemoryRuns'
  <2>1. Inv /\ [MemoryNext]_memoryVars => Inv'
    BY TypedNext, NotesAppended, SnapshotNext
  <2> HIDE DEF Inv
  <2> QED BY <2>1, PartSteps
<1>3. MemoryRuns => MemoryFaithful
  BY DEF MemoryFaithful, SnapshotInv
<1> QED BY <1>1, <1>2, <1>3, PTL DEF ComponentsSpec

\* No tool call hides an effect, claims another's or reports a failure as
\* success, for any number of runtimes and edits (ToolExecutor.execute).
THEOREM EffectsAreTold == ComponentsSpec => []EffectsTold
<1> DEFINE ToolRuns == part = "tool" => ToolInv
<1>1. ComponentsInit => ToolRuns
  BY PartBegins, ToolInvInit
<1>2. ToolRuns /\ [ComponentsNext]_componentVars => ToolRuns'
  BY PartSteps, ToolInvNext
<1>3. ToolRuns => EffectsTold
  BY ToolInvTells DEF EffectsTold
<1> QED BY <1>1, <1>2, <1>3, PTL DEF ComponentsSpec

\* No migration of a Session loses a turn, for any number of edits and of
\* attempts cut short (SessionStore.load_for_resume).
THEOREM SessionsMigrateWhole == ComponentsSpec => []SessionsMigratedWhole
<1> DEFINE SessionRuns == part = "session" => SessionMigrationInv
<1>1. ComponentsInit => SessionRuns
  BY PartBegins, SessionInvInit
<1>2. SessionRuns /\ [ComponentsNext]_componentVars => SessionRuns'
  BY PartSteps, SessionInvNext
<1>3. SessionRuns => SessionsMigratedWhole
  BY DEF SessionsMigratedWhole, SessionMigrationInv
<1> QED BY <1>1, <1>2, <1>3, PTL DEF ComponentsSpec

\* No edit of the user that a workspace write could notice is overwritten, and no
\* half of a file is seen, for any number of edits and of failing calls
\* (write_workspace_bytes_atomic).
THEOREM WorkspaceEditsAreSafe == ComponentsSpec => []WorkspaceEditsSafe
<1> DEFINE WorkspaceRuns == part = "workspace" => WorkspaceInv
<1>1. ComponentsInit => WorkspaceRuns
  BY PartBegins, WorkspaceInvInit
<1>2. WorkspaceRuns /\ [ComponentsNext]_componentVars => WorkspaceRuns'
  BY PartSteps, WorkspaceInvNext
<1>3. WorkspaceRuns => WorkspaceEditsSafe
  BY WorkspaceInvSafe DEF WorkspaceEditsSafe
<1> QED BY <1>1, <1>2, <1>3, PTL DEF ComponentsSpec

\* What reaches the parent was sealed and judged safe, a merge that was begun
\* meets no conflict, and a batch is merged whole, for any number of agents and
\* of commits in the parent (merge_worktree_agent, merge_worktree_agent_batch).
THEOREM AgentsMergeSafely == ComponentsSpec => []AgentsMergedSafely
<1> DEFINE AgentsRun == part = "agents" => AgentsInv
<1>1. ComponentsInit => AgentsRun
  BY PartBegins, AgentsInvInit
<1>2. AgentsRun /\ [ComponentsNext]_componentVars => AgentsRun'
  BY PartSteps, AgentsInvNext
<1>3. AgentsRun => AgentsMergedSafely
  BY AgentsInvSafe DEF AgentsMergedSafely
<1> QED BY <1>1, <1>2, <1>3, PTL DEF ComponentsSpec

\* No command loses sealed work that was not merged, for any number of agents
\* and commands (cleanup_worktree_agent, run_worktree_agents).
THEOREM AgentsKeepWork == ComponentsSpec => []AgentsWorkKept
<1> DEFINE AgentsRun == part = "agents" => AgentsInv
<1>1. ComponentsInit => AgentsRun
  BY PartBegins, AgentsInvInit
<1>2. AgentsRun /\ [ComponentsNext]_componentVars => AgentsRun'
  BY PartSteps, AgentsInvNext
<1>3. AgentsRun => AgentsWorkKept
  BY AgentsInvSafe DEF AgentsWorkKept
<1> QED BY <1>1, <1>2, <1>3, PTL DEF ComponentsSpec

\* Wherever the migration of the run artifacts stops, however often, the runs are
\* whole in one directory, and a run stored before the last comparison is in one
\* (Migration.apply, abort and recover).
THEOREM MigrationKeepsRuns == ComponentsSpec => []MigratedRunsKept
<1> DEFINE MigrationRuns == part = "migration" => MigrationInv
<1>1. ComponentsInit => MigrationRuns
  BY PartBegins, MigrationInvInit
<1>2. MigrationRuns /\ [ComponentsNext]_componentVars => MigrationRuns'
  BY PartSteps, MigrationInvNext
<1>3. MigrationRuns => MigratedRunsKept
  BY MigrationInvSafe DEF MigratedRunsKept
<1> QED BY <1>1, <1>2, <1>3, PTL DEF ComponentsSpec

\* A command that returned has returned all of its output, and none that ended
\* leaves a process that could be stopped, for any amount of output and any limit
\* (SubprocessRunner, capture_process).
THEOREM CommandsAreAccounted == ComponentsSpec => []CommandsAccounted
<1> DEFINE CommandRuns == part = "command" => CommandInv
<1>1. ComponentsInit => CommandRuns
  BY PartBegins, CommandInvInit
<1>2. CommandRuns /\ [ComponentsNext]_componentVars => CommandRuns'
  BY PartSteps, CommandInvNext
<1>3. CommandRuns => CommandsAccounted
  BY CommandInvSafe DEF CommandsAccounted
<1> QED BY <1>1, <1>2, <1>3, PTL DEF ComponentsSpec

\* Running Git starts no program that the repository names, whatever keys are
\* configured and whatever the command (GitRunner).
THEOREM GitIsSafe == ComponentsSpec => []GitSafe
<1> DEFINE GitRuns == part = "git" => GitInv
<1>1. ComponentsInit => GitRuns
  BY PartBegins, GitInvInit
<1>2. GitRuns /\ [ComponentsNext]_componentVars => GitRuns'
  BY PartSteps, GitInvNext
<1>3. GitRuns => GitSafe
  BY GitInvSafe DEF GitSafe
<1> QED BY <1>1, <1>2, <1>3, PTL DEF ComponentsSpec

\* What is allowed is a reader of the workspace, run without a shell; what the
\* scanner misses is behind a comment or a here-string, a sensitive path elsewhere
\* is rejected, and no mode lets through what it does not name, for any command
\* (assess_command, decide_permission).
THEOREM PolicyIsClosed == ComponentsSpec => []PolicyFailsClosed
<1> DEFINE PolicyRuns == part = "policy" => PolicyInv
<1>1. ComponentsInit => PolicyRuns
  BY PartBegins, PolicyInvInit
<1>2. PolicyRuns /\ [ComponentsNext]_componentVars => PolicyRuns'
  BY PartSteps, PolicyInvNext
<1>3. PolicyRuns => PolicyFailsClosed
  BY PolicyInvSafe DEF PolicyFailsClosed
<1> QED BY <1>1, <1>2, <1>3, PTL DEF ComponentsSpec

\* The invariants of the two writers, in Components.
WrittenInv == (part = "private" => PrivateInv) /\ (part = "windows" => WindowsInv)

LEMMA WritersBegin == ComponentsInit => WrittenInv
<1>1. ComponentsInit => (part = "private" => FilesInit /\ PrivateInit)
  BY Zenon DEF ComponentsInit, Writers
<1>2. ComponentsInit => (part = "windows" => WindowsInit)
  BY Zenon DEF ComponentsInit
<1> QED BY <1>1, <1>2, PrivateInvInit, WindowsInvInit DEF WrittenInv

\* A step of Components is a step of the writer that runs, or leaves the file alone.
LEMMA WritersStep ==
    ASSUME [ComponentsNext]_componentVars
    PROVE  /\ part' = part
           /\ part = "private" => [PrivateNext]_privateVars
           /\ part = "windows" => [WindowsNext]_windowsVars
           /\ part = "workspace" => WorkspaceNext \/ UNCHANGED writtenVars
           /\ part \notin Writers => UNCHANGED writtenVars
<1>1. ASSUME ComponentsNext
      PROVE  /\ part' = part
             /\ part = "private" => PrivateNext
             /\ part = "windows" => WindowsNext
             /\ part = "workspace" => WorkspaceNext
             /\ part \notin Writers => UNCHANGED writtenVars
  BY <1>1, Zenon DEF ComponentsNext, Runs
<1>2. ASSUME UNCHANGED componentVars
      PROVE  part' = part /\ UNCHANGED writtenVars /\ UNCHANGED privateVars /\ UNCHANGED windowsVars
  BY <1>2, Zenon DEF componentVars, writtenVars, privateVars, windowsVars
<1> QED BY <1>1, <1>2

LEMMA WritersKeep == WrittenInv /\ [ComponentsNext]_componentVars => WrittenInv'
  BY WritersStep, PrivateInvNext, WindowsInvNext DEF WrittenInv

\* No writer drops the last copy of the old contents before the new file is
\* committed, however many calls fail, and nobody finds a private file cut
\* short (write_private_bytes_atomic, the writers of windows_private_files.py).
THEOREM OldContentsAreSafe == ComponentsSpec => []OldContentsSafe
<1>1. WrittenInv => OldContentsSafe
  BY PrivateInvSafe, WindowsInvSafe DEF WrittenInv, OldContentsSafe
<1> QED BY <1>1, WritersBegin, WritersKeep, PTL DEF ComponentsSpec

\* No step of a private write replaces or removes a file somebody else put in
\* place of it or of its backup, outside the window between a look and the call
\* that follows it (write_private_bytes_atomic, _rollback_private_write).
THEOREM UnknownIsSpared == ComponentsSpec => UnknownSpared
<1>1. WrittenInv /\ [ComponentsNext]_componentVars
        => [part = "private" => SparesUnknown]_<<writtenVars, w>>
  BY WritersStep, PrivateSpares DEF WrittenInv
<1> QED BY <1>1, WritersBegin, WritersKeep, PTL DEF ComponentsSpec, UnknownSpared

\* What a step may not change keeps a faithful writer faithful.
LEMMA WritersFixed ==
    ASSUME WrittenInv, [ComponentsNext]_componentVars
    PROVE  /\ part' = part /\ (part \in Writers => before' = before)
           /\ part = "private" => Judged' = Judged
           /\ part = "windows" => WindowsJudged' = WindowsJudged
<1>1. part = "private" => limit' = limit /\ before' = before
  BY WritersStep, PrivateFixed DEF WrittenInv
<1>2. part = "windows" => limit' = limit /\ before' = before /\ v'.kind = v.kind
  BY WritersStep, WindowsFixed DEF WrittenInv
<1>3. part = "workspace" => before' = before
  BY WritersStep, WorkspaceFixed DEF writtenVars
<1>4. part = "private" => Judged' = Judged
  BY <1>1 DEF Judged, Calm
<1>5. part = "windows" => WindowsJudged' = WindowsJudged
  BY <1>2 DEF WindowsJudged, Calm
<1> QED BY <1>1, <1>2, <1>3, <1>4, <1>5, WritersStep DEF Writers

\* The values of the abstract file while a faithful writer runs, and otherwise.
LEMMA WrittenValues ==
    /\ part = "private" => Faithful = Judged
    /\ part = "windows" => Faithful = WindowsJudged
    /\ part \notin {"private", "windows"} => Faithful = FALSE
<1>1. part = "private" => Faithful = Judged
  BY DEF Faithful
<1>2. part = "windows" => Faithful = WindowsJudged
  BY DEF Faithful
<1>3. part \notin {"private", "windows"} => Faithful = FALSE
  BY DEF Faithful
<1> QED BY <1>1, <1>2, <1>3

\* One step of a writer is one step of the abstract file, or none.
LEMMA WritersMapped ==
    ASSUME WrittenInv, [ComponentsNext]_componentVars
    PROVE  [WrittenFile!Step]_(WrittenFile!fileVars)
<1> USE DEF WrittenFile!Step, WrittenFile!Install, WrittenFile!Withdraw, WrittenFile!Finish,
            WrittenFile!fileVars
<1>1. part' = part /\ (part \in Writers => before' = before)
  BY WritersFixed
<1>2. Faithful' = Faithful /\ Faithful \in BOOLEAN
  <2>1. part = "private" => Faithful' = Judged'
    BY <1>1 DEF Faithful
  <2>2. part = "windows" => Faithful' = WindowsJudged'
    BY <1>1 DEF Faithful
  <2>3. part \notin {"private", "windows"} => Faithful' = FALSE
    BY <1>1 DEF Faithful
  <2>4. Judged \in BOOLEAN /\ WindowsJudged \in BOOLEAN
    BY DEF Judged, WindowsJudged
  <2> QED BY <2>1, <2>2, <2>3, <2>4, WritersFixed, WrittenValues
<1>3. CASE ~Faithful
  BY <1>1, <1>2, <1>3
<1>4. CASE Faithful /\ part = "private"
  <2>1. Judged /\ PrivateInv /\ [PrivateNext]_privateVars
    BY <1>4, WrittenValues, WritersStep DEF WrittenInv
  <2>2. CASE PrivateNext
    BY <1>1, <1>2, <1>4, <2>1, <2>2, PrivateWriteIsAtomic DEF Writers, PrivateEnds
  <2>3. CASE UNCHANGED privateVars
    <3>1. Held("path")' = Held("path") /\ PrivateStatus' = PrivateStatus
      BY <2>3 DEF privateVars, Held, PrivateStatus
    <3> QED BY <1>1, <1>2, <1>4, <3>1
  <2> QED BY <2>1, <2>2, <2>3
<1>5. CASE Faithful /\ part = "windows"
  <2>1. WindowsJudged /\ WindowsInv /\ [WindowsNext]_windowsVars
    BY <1>5, WrittenValues, WritersStep DEF WrittenInv
  <2>2. CASE WindowsNext
    BY <1>1, <1>2, <1>5, <2>1, <2>2, WindowsWriteIsAtomic DEF Writers, WindowsEnds
  <2>3. CASE UNCHANGED windowsVars
    <3>1. Held("path")' = Held("path") /\ WindowsStatus' = WindowsStatus
      BY <2>3 DEF windowsVars, Held, WindowsStatus
    <3> QED BY <1>1, <1>2, <1>5, <3>1
  <2> QED BY <2>1, <2>2, <2>3
<1> QED BY <1>2, <1>3, <1>4, <1>5, WrittenValues

\* The writers implement an atomic write: with one system call that fails, or a
\* kill at any step, the file is all old or all new, returned means new and
\* raised means old (private_files.py and windows_private_files.py).
THEOREM WritesAreAtomic == ComponentsSpec => AtomicWrites
<1>1. ComponentsInit => WrittenFile!Start
  <2> SUFFICES ASSUME ComponentsInit PROVE WrittenFile!Start
    OBVIOUS
  <2>1. part \in Writers => before \in {"absent", "old"}
    <3>1. part \in Writers => FilesInit \/ WindowsInit
      BY Zenon DEF ComponentsInit
    <3> QED BY <3>1 DEF FilesInit, WindowsInit
  <2>2. part \in {"private", "windows"} => Held("path") = before
    <3>1. part \in {"private", "windows"} => FilesInit \/ WindowsInit
      BY Zenon DEF ComponentsInit, Writers
    <3> QED BY <3>1 DEF FilesInit, WindowsInit, Held, Names, Inodes, NoFile
  <2>3. part = "private" => PrivateStatus = "writing"
    <3>1. part = "private" => PrivateInit
      BY Zenon DEF ComponentsInit
    <3> QED BY <3>1 DEF PrivateInit, PrivateStatus, PrivateEnds
  <2>4. part = "windows" => WindowsStatus = "writing"
    <3>1. part = "windows" => WindowsInit
      BY Zenon DEF ComponentsInit
    <3> QED BY <3>1 DEF WindowsInit, WindowsStatus, WindowsEnds
  <2>5. CASE Faithful
    BY <2>1, <2>2, <2>3, <2>4, <2>5, WrittenValues DEF WrittenFile!Start, Writers
  <2>6. CASE ~Faithful
    BY <2>1, <2>6 DEF WrittenFile!Start
  <2> QED BY <2>5, <2>6
<1>2. WrittenInv /\ [ComponentsNext]_componentVars => [WrittenFile!Step]_(WrittenFile!fileVars)
  BY WritersMapped
<1> QED BY <1>1, <1>2, WritersBegin, WritersKeep, PTL DEF ComponentsSpec, AtomicWrites, WrittenFile!AtomicWrite

\* No input is lost or taken twice, no confirmation waits for a closed queue and
\* none is granted unseen; no preview outlives its stream and the latest one is
\* drawn, for any number of them (InputQueue, _PreviewCoalescer).
THEOREM TerminalIsFaithful == ComponentsSpec => []TerminalFaithful
<1> DEFINE TerminalRuns == /\ part = "input" => QueueInv /\ InputsInv
                           /\ part = "preview" => PreviewInv
<1>1. ComponentsInit => TerminalRuns
  BY PartBegins, QueueInvInit, InputsInvInit, PreviewInvInit
<1>2. TerminalRuns /\ [ComponentsNext]_componentVars => TerminalRuns'
  <2>1. QueueInv /\ InputsInv /\ [InputNext]_inputVars => QueueInv' /\ InputsInv'
    BY QueueInvNext, InputsInvNext
  <2>2. PreviewInv /\ [PreviewNext]_previewVars => PreviewInv'
    BY PreviewInvNext
  <2> QED BY <2>1, <2>2, PartSteps
<1>3. QueueInv /\ InputsInv => InputsKept /\ NobodyWaitsClosed /\ GrantedAsShown
  BY InputsInvKeeps, QueueInvSafe
<1>4. TerminalRuns => TerminalFaithful
  BY <1>3, PreviewInvSafe DEF TerminalFaithful
<1> QED BY <1>1, <1>2, <1>4, PTL DEF ComponentsSpec

\* Of any notes, chunks and caps, the context chunks of a turn are the best that
\* fit (allocate_context_chunks); the pages of any text, read one after the
\* other, are its lines without a gap, and each tells where to go on (page_text).
THEOREM ContextsFit == ComponentsSpec => []ContextFits
<1> DEFINE ContextRuns == /\ part = "recall" => RecallInv
                          /\ part = "pages" => PagesInv
<1>1. ComponentsInit => ContextRuns
  BY PartBegins, RecallInvInit, PagesInvInit
<1>2. ContextRuns /\ [ComponentsNext]_componentVars => ContextRuns'
  BY PartSteps, RecallInvNext, PagesInvNext
<1>3. ContextRuns => ContextFits
  BY RecallInvFits, PagesInvTells DEF ContextFits
<1> QED BY <1>1, <1>2, <1>3, PTL DEF ComponentsSpec

\* Whatever a backend sends and wherever its stream ends, a streamed Response is
\* all that was said in its order, what was shown on the way is its beginning,
\* and every result goes out as the result of its call (_anthropic_content,
\* _validate_completed_items, _chat_stream_tool_calls, _ollama_messages).
THEOREM ExchangesAreFaithful == ComponentsSpec => []ExchangesFaithful
<1>1. ComponentsInit => (part = "provider" => ExchangeInv)
  BY PartBegins, ExchangeInvInit
<1>2. (part = "provider" => ExchangeInv) /\ [ComponentsNext]_componentVars => (part = "provider" => ExchangeInv)'
  BY PartSteps, ExchangeInvNext
<1>3. (part = "provider" => ExchangeInv) => ExchangesFaithful
  BY ExchangeWhole, ExchangeKeepsResults DEF ExchangesFaithful
<1> QED BY <1>1, <1>2, <1>3, PTL DEF ComponentsSpec

\* The invariants of the lock, the commands, Git, the tools, the agents and the policy.
ToolsKept ==
    /\ part = "lock" => LockInv
    /\ part = "command" => CommandInv
    /\ part = "git" => GitInv /\ MarkerKnown
    /\ part = "tool" => ToolInv /\ ToolBounded
    /\ part = "agents" => AgentsInv
    /\ part = "policy" => PolicyInv

LEMMA ToolsKeptInit == ComponentsInit => ToolsKept
<1> SUFFICES ASSUME ComponentsInit PROVE ToolsKept
  OBVIOUS
<1>1. part = "lock" => LockInv
  BY PartBegins, LockInvInit
<1>2. part = "command" => CommandInv
  BY PartBegins, CommandInvInit
<1>3. part = "git" => GitInv /\ MarkerKnown
  BY PartBegins, GitInvInit, MarkerKnownInit
<1>4. part = "tool" => ToolInv /\ ToolBounded
  BY PartBegins, ToolInvInit, ToolBoundedInit
<1>5. part = "agents" => AgentsInv
  BY PartBegins, AgentsInvInit
<1>6. part = "policy" => PolicyInv
  BY PartBegins, PolicyInvInit
<1> QED BY <1>1, <1>2, <1>3, <1>4, <1>5, <1>6 DEF ToolsKept

LEMMA ToolsKeptNext == ToolsKept /\ [ComponentsNext]_componentVars => ToolsKept'
<1> SUFFICES ASSUME ToolsKept, [ComponentsNext]_componentVars PROVE ToolsKept'
  OBVIOUS
<1>1. part = "lock" => LockInv'
  <2> SUFFICES ASSUME part = "lock" PROVE LockInv'
    OBVIOUS
  <2>1. LockInv /\ [LockNext]_lockVars
    BY PartSteps DEF ToolsKept
  <2> QED BY <2>1, LockInvNext
<1>2. part = "command" => CommandInv'
  <2> SUFFICES ASSUME part = "command" PROVE CommandInv'
    OBVIOUS
  <2>1. CommandInv /\ [CommandNext]_commandVars
    BY PartSteps DEF ToolsKept
  <2> QED BY <2>1, CommandInvNext
<1>3. part = "git" => (GitInv /\ MarkerKnown)'
  <2> SUFFICES ASSUME part = "git" PROVE (GitInv /\ MarkerKnown)'
    OBVIOUS
  <2>1. (GitInv /\ MarkerKnown) /\ [GitNext]_gitVars
    BY PartSteps DEF ToolsKept
  <2> QED BY <2>1, GitInvNext, MarkerKnownNext
<1>4. part = "tool" => (ToolInv /\ ToolBounded)'
  <2> SUFFICES ASSUME part = "tool" PROVE (ToolInv /\ ToolBounded)'
    OBVIOUS
  <2>1. (ToolInv /\ ToolBounded) /\ [ToolNext]_toolVars
    BY PartSteps DEF ToolsKept
  <2> QED BY <2>1, ToolInvNext, ToolBoundedNext
<1>5. part = "agents" => AgentsInv'
  <2> SUFFICES ASSUME part = "agents" PROVE AgentsInv'
    OBVIOUS
  <2>1. AgentsInv /\ [AgentsNext]_agentsVars
    BY PartSteps DEF ToolsKept
  <2> QED BY <2>1, AgentsInvNext
<1>6. part = "policy" => PolicyInv'
  <2> SUFFICES ASSUME part = "policy" PROVE PolicyInv'
    OBVIOUS
  <2>1. PolicyInv /\ [PolicyNext]_policyVars
    BY PartSteps DEF ToolsKept
  <2> QED BY <2>1, PolicyInvNext
<1> QED BY <1>1, <1>2, <1>3, <1>4, <1>5, <1>6, PartSteps DEF ToolsKept

\* The invariants of the migrations, the notes, the texts chosen and the pages.
StateKept ==
    /\ part = "migration" => MigrationInv
    /\ part = "session" => SessionMigrationInv /\ SessionBounded
    /\ part = "memory" => MemoryTyped /\ MemoryBounded
    /\ part = "recall" => RecallInv
    /\ part = "pages" => PagesInv

LEMMA StateKeptInit == ComponentsInit => StateKept
<1> SUFFICES ASSUME ComponentsInit PROVE StateKept
  OBVIOUS
<1>1. part = "migration" => MigrationInv
  BY PartBegins, MigrationInvInit
<1>2. part = "session" => SessionMigrationInv /\ SessionBounded
  BY PartBegins, SessionInvInit, SessionBoundedInit
<1>3. part = "memory" => MemoryTyped /\ MemoryBounded
  BY PartBegins, TypedInit, MemoryBoundedInit
<1>4. part = "recall" => RecallInv
  BY PartBegins, RecallInvInit
<1>5. part = "pages" => PagesInv
  BY PartBegins, PagesInvInit
<1> QED BY <1>1, <1>2, <1>3, <1>4, <1>5 DEF StateKept

LEMMA StateKeptNext == StateKept /\ [ComponentsNext]_componentVars => StateKept'
<1> SUFFICES ASSUME StateKept, [ComponentsNext]_componentVars PROVE StateKept'
  OBVIOUS
<1>1. part = "migration" => MigrationInv'
  <2> SUFFICES ASSUME part = "migration" PROVE MigrationInv'
    OBVIOUS
  <2>1. MigrationInv /\ [MigrationNext]_migrationVars
    BY PartSteps DEF StateKept
  <2> QED BY <2>1, MigrationInvNext
<1>2. part = "session" => (SessionMigrationInv /\ SessionBounded)'
  <2> SUFFICES ASSUME part = "session" PROVE (SessionMigrationInv /\ SessionBounded)'
    OBVIOUS
  <2>1. (SessionMigrationInv /\ SessionBounded) /\ [SessionMigrationNext]_sessionMigrationVars
    BY PartSteps DEF StateKept
  <2> QED BY <2>1, SessionInvNext, SessionBoundedNext
<1>3. part = "memory" => (MemoryTyped /\ MemoryBounded)'
  <2> SUFFICES ASSUME part = "memory" PROVE (MemoryTyped /\ MemoryBounded)'
    OBVIOUS
  <2>1. (MemoryTyped /\ MemoryBounded) /\ [MemoryNext]_memoryVars
    BY PartSteps DEF StateKept
  <2> QED BY <2>1, TypedNext, MemoryBoundedNext
<1>4. part = "recall" => RecallInv'
  <2> SUFFICES ASSUME part = "recall" PROVE RecallInv'
    OBVIOUS
  <2>1. RecallInv /\ [RecallNext]_recallVars
    BY PartSteps DEF StateKept
  <2> QED BY <2>1, RecallInvNext
<1>5. part = "pages" => PagesInv'
  <2> SUFFICES ASSUME part = "pages" PROVE PagesInv'
    OBVIOUS
  <2>1. PagesInv /\ [PagesNext]_pagesVars
    BY PartSteps DEF StateKept
  <2> QED BY <2>1, PagesInvNext
<1> QED BY <1>1, <1>2, <1>3, <1>4, <1>5, PartSteps DEF StateKept

\* The invariants of the exchanges, the terminal and the record.
TalkKept ==
    /\ part = "provider" => ProviderTyped
    /\ part = "input" => QueueInv /\ InputsInv /\ InputsBounded
    /\ part = "preview" => PreviewInv
    /\ part = "record" => RecordInv

LEMMA TalkKeptInit == ComponentsInit => TalkKept
<1> SUFFICES ASSUME ComponentsInit PROVE TalkKept
  OBVIOUS
<1>1. part = "provider" => ProviderTyped
  BY PartBegins, ProviderTypedInit
<1>2. part = "input" => QueueInv /\ InputsInv /\ InputsBounded
  BY PartBegins, QueueInvInit, InputsInvInit, InputsBoundedInit
<1>3. part = "preview" => PreviewInv
  BY PartBegins, PreviewInvInit
<1>4. part = "record" => RecordInv
  BY PartBegins, RecordInvInit
<1> QED BY <1>1, <1>2, <1>3, <1>4 DEF TalkKept

LEMMA TalkKeptNext == TalkKept /\ [ComponentsNext]_componentVars => TalkKept'
<1> SUFFICES ASSUME TalkKept, [ComponentsNext]_componentVars PROVE TalkKept'
  OBVIOUS
<1>1. part = "provider" => ProviderTyped'
  <2> SUFFICES ASSUME part = "provider" PROVE ProviderTyped'
    OBVIOUS
  <2>1. ProviderTyped /\ [ProviderNext]_providerVars
    BY PartSteps DEF TalkKept
  <2> QED BY <2>1, ProviderTypedNext
<1>2. part = "input" => (QueueInv /\ InputsInv /\ InputsBounded)'
  <2> SUFFICES ASSUME part = "input" PROVE (QueueInv /\ InputsInv /\ InputsBounded)'
    OBVIOUS
  <2>1. (QueueInv /\ InputsInv /\ InputsBounded) /\ [InputNext]_inputVars
    BY PartSteps DEF TalkKept
  <2> QED BY <2>1, QueueInvNext, InputsInvNext, InputsBoundedNext DEF QueueInv
<1>3. part = "preview" => PreviewInv'
  <2> SUFFICES ASSUME part = "preview" PROVE PreviewInv'
    OBVIOUS
  <2>1. PreviewInv /\ [PreviewNext]_previewVars
    BY PartSteps DEF TalkKept
  <2> QED BY <2>1, PreviewInvNext
<1>4. part = "record" => RecordInv'
  <2> SUFFICES ASSUME part = "record" PROVE RecordInv'
    OBVIOUS
  <2>1. RecordInv /\ [RecordNext]_recordVars
    BY PartSteps DEF TalkKept
  <2> QED BY <2>1, RecordInvNext
<1> QED BY <1>1, <1>2, <1>3, <1>4, PartSteps DEF TalkKept

\* The types of the component that runs are those of the components.
LEMMA TypesOfParts ==
    ASSUME part \in Components,
           part = "private" => PrivateTypeOK,
           part = "windows" => WindowsTypeOK,
           part = "workspace" => WorkspaceTypeOK,
           part = "lock" => LockTypeOK,
           part = "command" => CommandTypeOK,
           part = "git" => GitTypeOK,
           part = "tool" => ToolTypeOK,
           part = "agents" => AgentsTypeOK,
           part = "migration" => MigrationTypeOK,
           part = "policy" => PolicyTypeOK,
           part = "provider" => ProviderTypeOK,
           part = "session" => SessionMigrationTypeOK,
           part = "memory" => MemoryTypeOK,
           part = "recall" => RecallTypeOK,
           part = "input" => InputTypeOK,
           part = "preview" => PreviewTypeOK,
           part = "record" => RecordTypeOK,
           part = "pages" => PagesTypeOK
    PROVE  ComponentsTypeOK
<1>1. CASE part = "private"
  BY <1>1 DEF ComponentsTypeOK
<1>2. CASE part = "windows"
  BY <1>2 DEF ComponentsTypeOK
<1>3. CASE part = "workspace"
  BY <1>3 DEF ComponentsTypeOK
<1>4. CASE part = "lock"
  BY <1>4 DEF ComponentsTypeOK
<1>5. CASE part = "command"
  BY <1>5 DEF ComponentsTypeOK
<1>6. CASE part = "git"
  BY <1>6 DEF ComponentsTypeOK
<1>7. CASE part = "tool"
  BY <1>7 DEF ComponentsTypeOK
<1>8. CASE part = "agents"
  BY <1>8 DEF ComponentsTypeOK
<1>9. CASE part = "migration"
  BY <1>9 DEF ComponentsTypeOK
<1>10. CASE part = "policy"
  BY <1>10 DEF ComponentsTypeOK
<1>11. CASE part = "provider"
  BY <1>11 DEF ComponentsTypeOK
<1>12. CASE part = "session"
  BY <1>12 DEF ComponentsTypeOK
<1>13. CASE part = "memory"
  BY <1>13 DEF ComponentsTypeOK
<1>14. CASE part = "recall"
  BY <1>14 DEF ComponentsTypeOK
<1>15. CASE part = "input"
  BY <1>15 DEF ComponentsTypeOK
<1>16. CASE part = "preview"
  BY <1>16 DEF ComponentsTypeOK
<1>17. CASE part = "record"
  BY <1>17 DEF ComponentsTypeOK
<1>18. CASE part = "pages"
  BY <1>18 DEF ComponentsTypeOK
<1> QED BY <1>1, <1>2, <1>3, <1>4, <1>5, <1>6, <1>7, <1>8, <1>9, <1>10,
          <1>11, <1>12, <1>13, <1>14, <1>15, <1>16, <1>17, <1>18 DEF Components, Writers

\* Every component stays within its types and its bounds, for any number of
\* parties, edits, events, calls, lines and failures (the components together).
THEOREM ComponentsTyped == ComponentsSpec => []ComponentsTypeOK
<1> DEFINE WorkspaceRuns == part = "workspace" => WorkspaceInv
           Inv == /\ part \in Components /\ WrittenInv /\ WorkspaceRuns
                  /\ ToolsKept /\ StateKept /\ TalkKept
<1>1. ComponentsInit => Inv
  <2> SUFFICES ASSUME ComponentsInit PROVE Inv
    OBVIOUS
  <2>1. part \in Components /\ WorkspaceRuns
    BY PartBegins, WorkspaceInvInit
  <2> QED BY <2>1, WritersBegin, ToolsKeptInit, StateKeptInit, TalkKeptInit
<1>2. Inv /\ [ComponentsNext]_componentVars => Inv'
  <2> SUFFICES ASSUME Inv, [ComponentsNext]_componentVars PROVE Inv'
    OBVIOUS
  <2>1. part' \in Components /\ WorkspaceRuns'
    <3>1. part' = part /\ (part = "workspace" => WorkspaceInv /\ [WorkspaceNext]_workspaceVars)
      BY PartSteps
    <3> QED BY <3>1, WorkspaceInvNext
  <2> QED BY <2>1, WritersKeep, ToolsKeptNext, StateKeptNext, TalkKeptNext
<1>3. Inv => ComponentsTypeOK
  <2> SUFFICES ASSUME Inv PROVE ComponentsTypeOK
    OBVIOUS
  <2>1. /\ part = "private" => PrivateTypeOK
        /\ part = "windows" => WindowsTypeOK
        /\ part = "workspace" => WorkspaceTypeOK
    BY PrivateInvSafe, WindowsInvSafe, WorkspaceInvSafe DEF WrittenInv
  <2>2. part = "lock" => LockTypeOK
    BY DEF ToolsKept, LockInv
  <2>3. part = "command" => CommandTypeOK
    BY CommandInvTypes DEF ToolsKept
  <2>4. part = "git" => GitTypeOK
    BY GitInvTypes DEF ToolsKept
  <2>5. part = "tool" => ToolTypeOK
    BY ToolInvTypes DEF ToolsKept
  <2>6. part = "agents" => AgentsTypeOK
    BY AgentsInvSafe DEF ToolsKept
  <2>7. part = "policy" => PolicyTypeOK
    BY PolicyInvTypes DEF ToolsKept
  <2>8. part = "migration" => MigrationTypeOK
    BY MigrationInvSafe DEF StateKept
  <2>9. part = "session" => SessionMigrationTypeOK
    BY SessionInvTypes DEF StateKept
  <2>10. part = "memory" => MemoryTypeOK
    BY MemoryTypes DEF StateKept
  <2>11. part = "recall" => RecallTypeOK
    BY RecallInvFits DEF StateKept
  <2>12. part = "pages" => PagesTypeOK
    BY PagesInvTells DEF StateKept
  <2>13. part = "provider" => ProviderTypeOK
    BY ProviderTypedFits DEF TalkKept
  <2>14. part = "input" => InputTypeOK
    BY InputTypes DEF TalkKept
  <2>15. part = "preview" => PreviewTypeOK
    BY PreviewInvSafe DEF TalkKept
  <2>16. part = "record" => RecordTypeOK
    BY RunRecordTypes DEF TalkKept, RecordInv
  <2> HIDE DEF WorkspaceRuns
  <2>17. part \in Components
    OBVIOUS
  <2> QED BY <2>1, <2>2, <2>3, <2>4, <2>5, <2>6, <2>7, <2>8, <2>9, <2>10,
             <2>11, <2>12, <2>13, <2>14, <2>15, <2>16, <2>17,
             TypesOfParts
<1> HIDE DEF Inv
<1> QED BY <1>1, <1>2, <1>3, PTL DEF ComponentsSpec

\* Whatever goes wrong in a run and whoever interrupts it, a record that reads
\* back tells what happened, a run that ends in order leaves one that does, and
\* what the report calls recoverable is there, for any number of requests, calls
\* and steps (RunTelemetry, Observability, RunStore).
THEOREM RecordsAreTruthful == ComponentsSpec => []RecordsTruthful
<1> DEFINE RecordRuns == part = "record" => RecordInv
<1>1. ComponentsInit => RecordRuns
  BY PartBegins, RecordInvInit
<1>2. RecordRuns /\ [ComponentsNext]_componentVars => RecordRuns'
  BY PartSteps, RecordInvNext
<1>3. RecordRuns => RecordsTruthful
  BY RunRecordTrue, RunRecordReads, PreviewsKept DEF RecordsTruthful
<1> QED BY <1>1, <1>2, <1>3, PTL DEF ComponentsSpec
=============================================================================
