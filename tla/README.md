# Formal models of Pony

Pony is a coding agent for the terminal. It keeps each conversation in an
append-only *Session tree* on disk, runs *turns* that ask a model and execute
the tools it calls, and lets several processes (runtimes, `pony session`
commands, plan editors) work on one Session. Around that core it writes private
and workspace files, runs commands and Git, runs children in worktrees, migrates
old data, and remembers notes. These modules model the program, TLC checks them
on small instances, and TLAPS proves the most important properties for every
instance. Paths are relative to the repository; `src/pony/` is shortened to
`pony/`.

## 1. Inventory

| Component | Code | State | Operations | What makes it hard | Correct when | Modelled in |
|---|---|---|---|---|---|---|
| Session tree and store | `pony/state/session_store.py` | one JSONL file per Session, its lock | append messages, switch model, permissions, plan, compaction, rewind, fork, label, checkpoint, reset, tail repair, clone, migration of old formats | writers that read earlier than they append; a crash inside a batch; branches | the file only grows by whole lines; no message is lost to the model; branches keep the controls | SessionTree, SessionStore, SessionClone, SessionMigration |
| Compaction | `pony/agent/compaction.py` | a plan computed from a tree | plan, summarise (a model call), append | the tree may change during the model call; summaries of summaries | kept tail and summary together cover the branch | SessionTree, SessionStore |
| Agent loop | `pony/agent/loop.py` | step, attempt, retry and correction counters, the Session guard, the blocked flag | one turn | model calls and tools take seconds while other processes write; every way out closes the turn | no stale response is appended; each turn is answered once and ends | AgentTurn |
| Runtime application | `pony/runtime/application.py` | `agent.session`, the permission turn, the model client | resume, switch model, change mode, plan tools, reset, delegate | the in-memory Session lags behind the file | the file decides | SessionStore, AgentTurn |
| Session commands | `pony/cli/session.py`, `start.py` | arguments | `pony session ...`, `/plan open` | run next to a runtime | guarded by the leaf they read | SessionStore, AgentTurn |
| Tool executor | `pony/tools/executor.py`, `permissions.py`, `registry.py` | permission mode and rules, the mutation lock | decide, ask, run, observe effects | effects of a tool that fails; other processes change the workspace | a tool runs only as decided; its effects are reported | ToolExecution, Permissions |
| Subprocesses | `pony/tools/subprocess.py`, `windows_process.py` | process group or job, output buffers | start, drain, time out, kill; Git under a foreign configuration | exit, timeout and output limit race; a repository may name programs | ends within its limits, leaves no process, starts nothing foreign | Commands, GitCommand |
| File and search tools | `pony/tools/files.py`, `search.py`, `result_view.py` | the continuation of a page | read, patch, write, search | limits of lines, bytes and tokens; the file changes between pages | the pages are the text | ResultPages, WorkspaceWrite |
| Worktree agents | `pony/runtime/worktree_agents.py` | agent and batch manifests, git worktrees | run a batch, seal, merge, discard, clean up | parallel children, partial failure, crash between Git and manifest | a merge takes a whole batch or nothing; no work is lost | WorktreeAgents |
| File lock | `pony/state/file_lock.py`, `windows_file_lock.py` | the lock file, its authority file, a per-thread set | lock, unlock | threads, forks, replaced files | mutual exclusion, no lock left behind | FileLock |
| Private files | `pony/security/private_files.py`, `windows_private_files.py` | files of mode 0600 | append, atomic replacement, promotion | failures and kills between calls, foreign files | old or new content, never a mixture | Files, PrivateWrite, WindowsWrite, AtomicFile |
| Workspace files | `pony/security/workspace_files.py` | the user's files | replace | the user saves meanwhile | the user's edit stays | WorkspaceWrite |
| Migration of run records | `pony/state/migration.py` | a journal, three directories | apply, abort, recover | a stop between any two renames | runs are whole somewhere, recovery settles | ArtifactMigration |
| Run records | `pony/state/run_store.py`, `task_state.py`, `checkpoint.py`, `pony/agent/observability.py` | task state, trace, report, retained results | start, record, retain, finish, read | best-effort steps on every way out | what reads back is what happened | RunRecord |
| Providers | `pony/providers/` | stream state, retry evidence | complete, stream, tell results | lost, cut and malformed events; retries of what was shown | the answer is whole, results follow their calls | ProviderStream |
| Context assembly | `pony/agent/context_manager.py`, `pony/context/` | budgets | select and allocate sources | budget boundaries, staleness of notes | the best chunks that fit | Recall, AgentTurn |
| Memory | `pony/memory/` | note files, a cached snapshot | append, replace, recall | concurrent writers, coarse time stamps | no note is lost, no stale snapshot | MemoryNotes, Recall |
| Security policy | `pony/security/command_policy.py` | - | classify a command, decide | quoting as scanner and shell read it | denies when in doubt | CommandPolicy, Permissions |
| Terminal interface | `pony/cli/input_queue.py`, `pony/tui/app.py` | the queue, one confirmation, the preview slot | submit, confirm, interrupt, clear, close; stream previews | two threads and an event loop | no input lost, nothing granted unseen, no stale preview | InputQueue, PreviewCoalescer |
| Configuration, redaction, trust store, rendering | `pony/config/`, `pony/security/redaction.py`, `trust.py`, `pony/tui/render.py` | settings | parse, redact, render | input, layout and output | - | not modelled (section 6) |

Components meet in three ways. They call each other inside one process (the
loop calls the executor, the store and the provider). They share files, under
their locks, between processes. And they call back: the loop asks the user for
approval in the middle of a tool, the preview timer fires on the event loop of
the prompt, and the prompt queue wakes the shell.

## 2. Modules

    SessionTree            the file, its projection, the context view (pure operators)
      SessionStore         the operations of all writers on one file, crashes, repair
        SessionClone             the copy of a Session into another worktree
          MCSessionStore         instance for TLC
          SessionStoreProofs     theorems
        AgentTurn                runtimes that run turns on the file
          MCAgentTurn            instance for TLC
          AgentTurnProofs        theorems (EXTENDS SessionStoreProofs too)
    Files                  one directory: names, inodes, failing calls, a stranger
      PrivateWrite, WindowsWrite, WorkspaceWrite
    AtomicFile             what an atomic write promises (abstract)
    FileLock               locks on a file that may be replaced
    Permissions            the table that decides about a tool call
      ToolExecution, CommandPolicy
    Commands, GitCommand, WorktreeAgents
        ToolsProofs        theorems on these five
    SessionMigration, ArtifactMigration
        FilesProofs        theorems on the lock, the three writers and both migrations
    RunRecord
      RecordProofs         theorems, and lemmas on flattened sequences
    MemoryNotes, Recall, ResultPages, InputQueue, PreviewCoalescer
      ConversationProofs   theorems on these five (EXTENDS RecordProofs)
    ProviderStream
      ProviderProofs       theorems (EXTENDS RecordProofs)
    Components             all of the second half side by side, one run
      ComponentsProofs     what was proved of a part, for Components

### The Session

**SessionTree.** A *log* is the sequence of complete lines. The id of an entry
is its position and the last line is the active leaf (`SessionTree.leaf_id`).
The program computes the active path and replays it; ancestors never change, so
the model stores the path (`_active_path`) and the projected state
(`_apply_entry`) with each entry when it is added (`Add`, `_extend_tree`).
`Shown`, `Summarised` and `KeptEntryFound` are `context_view_from_tree`;
`KeepStarts` and `CompactionPlan` are `build_compaction_plan`; `RewindLog`,
`MessagesLog`, `RewriteLog`, `PermissionsLog` and `PlanLog` are the lines each
writer builds. A summary is the set of message entries it was generated from,
token counts become a choice of where the kept tail begins, and the payload of a
message is its role.

**SessionStore.** State: `log`, `torn` (an incomplete last line), and `seen[w]`,
the leaf writer `w` read last. An operation reads, compares and appends under
the lock (`locked_file`), so it is one action. What was read under an earlier
lock is a function of `log` up to `seen[w]`. `Expected(w)` is the comparison with
`expected_leaf_id`. Operations the code runs without a comparison
(`append_messages` of a closing message, `append_task_checkpoint`, `label`,
`update_permissions`, `write_plan`) have none here. `Die` is the loss of the
process inside `append_private_bytes`: a failure that the process survives
truncates the file back and changes nothing, so only a death leaves a prefix.

**SessionClone.** `clone_to_worktree` as an operator on logs: the messages become
one chain, and the newest compaction, the branch summary shown with it and the
checkpoint follow with translated ids. `CloneKeepsConversation` compares what a
model is shown in the clone with the source, in every reachable file: the same
messages in the same order, each with what it said, the same summaries and the
same controls. One thing moves, and the property says where to: the source shows
a branch summary before the first message after it, the clone behind all messages.

**AgentTurn.** `turn[r]` holds the phase of runtime `r`, the counters of
`_run_agent_attempts`, the model of its client, the entry `agent.session` was
loaded at (`memory`), the mode its permission turn froze (`frozen`), and whether
`_session_write_blocked_cause` is set (`blocked`). `seen[r]` is the
`session_guard`. Phases follow the code between two reads of the file: `prompt`,
`attempt`, `build`, `compact`, `send`, `call`, `recover`, `mark`, `received`,
`tool`, `approve`, `advance`, `record`, `final`, `terminal`, `checkpoint`. Two
history variables serve the properties: `author` (who appended each line) and
`responses` (what was answered and where it went). Ctrl-C and an error of the disk
may come between any two steps and in the appends: `BreakPrompt` (before the try
of `_run`, so that nothing closes the turn), `BreakLoop` (inside it), `BreakFinal`
(the answer is in the file and the handler closes the turn again), `BreakClosing`
(in `_finalize_run`, whose failing append is swallowed and whose remaining steps
Ctrl-C skips). `cut` remembers that it happened in this turn, `unrecorded` that a
tool ran and is not yet in the file. `TurnAnsweredOnce` claims one closing message
for a turn that was not cut and at most two for one that was; a cut or blocked
turn may stay open. `EffectsAreRecorded` does not claim that every tool that ran
is recorded, since an append that fails ends the turn without it: it claims that
this turn neither asks nor answers any more. Outsiders run
`pony session rewind`, `label` and the plan editor. Every step of a runtime is a
step of SessionStore or leaves the file alone: `StoreSpec`, checked and proved.

**SessionMigration.** `load_for_resume` on a Session of an old format: the two
files (`session`), the `backups` named by digest, one resumption at a time
(`move`) with its steps `WriteBackup`, `WriteCandidate`, `Promote`,
`LookBeforeRemoving` and the removal, an older Pony that edits the source
between any two of them, failures and kills after which resuming starts over.

### Files and locks

**Files, PrivateWrite, WindowsWrite, WorkspaceWrite, AtomicFile.** `Files` is a
directory: `entry` binds names to inodes and `content` says what each holds.
`limit` chooses at the start how many calls fail and how often a stranger rebinds
a name; `budget` counts them down. `PrivateWrite` is
`write_private_bytes_atomic` with its copy, its two verifications, the rollback
and the second rebuild (`w.pc`). A look at a name and the call that replaces or removes
what it binds are two actions, and between any two actions somebody else may
rebind a name (`Appear`). So a file that comes after the last look is lost, as in
the code: `InWindow` names these windows, and `SparesUnknown` claims the rest,
for the path and for the name of the backup (the temporary name is the writer's
own, and its clean-up looks at what it removes in one step of the model). `WindowsWrite` is
the same promise by ReplaceFile and MoveFileEx, for a write, a creation and a
promotion (`v.kind`). `WorkspaceWrite` is `write_workspace_bytes_atomic`, which
works next to a user who saves the file: `saves` counts the changes in place,
`t.saw` what the last look before the write saw of them, and `edited` remembers
the step during which the first one came. `AtomicFile` is the abstract
specification: `AtomicWrites` in Components instantiates it with what the path
holds and the end the writer reports.

**FileLock.** A party is a thread. `locked_file` opens an authority file and the
lock file, locks both with flock and looks whether they are still the files it
locked (`TakeAuthority`, `OpenLock`, `TakeLock`). `refs` are descriptors, which a
forked child shares with its parent; `owner` is the flock on an inode; `Replace`
puts another file under one of the names. Exclusion (`LockExcludes`) needs one of
the two files to have stayed in place; when both were replaced, nothing is
claimed. A nested acquisition by the same thread is refused before anything is
opened (`file_lock.py`, the per-thread set), so it changes no state and is not
an action.

### Tools, commands and agents

**Permissions, ToolExecution.** `DecidePermission` is the table of modes, rules
and effect classes. `ToolExecution` is the life of a call in `execute_tool`:
`RequestTool`, `Approve` (`ApproveShell`), `EnterLock`, `ObserveBefore`, `Touch`,
`EndRun`, `ObserveAfter` or `ObservationFails`, `FinalizeFails`, `LeaveLock`, for
several runtimes that share the workspace (`workspace`) and the mutation lock
(`mutator`), next to edits and a replaced root.

**Commands.** `_capture_process` and its Windows counterpart. The command is a
leader and a child (`proc`), each of which may write, close its streams, ignore
SIGTERM, leave the group or exit at any time; `stream` counts what was written,
is unread and is kept. POSIX polls in one loop (`Check`, `Select`, `Read`,
`StopCommand`, `EndGrace`), Windows has a reader per stream and a job
(`AssignOrResume`, `ReadStream`, `WaitLeader`, `Judge`, `Join`, `Abandon`). A
command of Windows is born suspended and put into its job; it and its readers
run from `Resumed` on.

**GitCommand.** `run_hardened_git`: the repository is classified by its files,
its keys are listed and judged, and the arguments are built (`Prepare`,
`LookAtFiles`, `ListConfig`, `CheckTopLevel`, `JudgeKeys`, `ListIndex`,
`BuildArguments`, `RunGit`). Keys are classes by what Git would start for them.

**WorktreeAgents.** `runner` is `run_worktree_agents` with parallel children
(`AddWorktree`, `RecordWorktree`, `StartChild`, `ChildEnds`, `Seal`,
`FinishBatch`, undoing a refused setup, death of the runtime); `op` is a command
of the user (merge one, merge all, discard, cleanup), which may die between Git
and the manifest; `tree`, `manifest` and `batch` are what is on disk, `parent`
the branch merged into. Children and users commit and edit at any time.

**CommandPolicy.** A command is a sequence of classes of characters, read
side by side by the scanner of the code (`ScanPosix`, `ScanPowershell`) and by the
shell (`PosixShell`, `Powershell`). They part where the shell has a quoting of its
own that the scanner does not know: a comment (`hash`), a PowerShell here-string,
the inside of an expansion, a here-document. `astray` says so, and `legible` is
the number of commands whose words the policy then still reads as the shell does.
So `ls # '`, a newline and more, ended by another quote, is allowed for its first
word, and what keeps that harmless is that an allowed command runs as the words
that were judged, without a shell (`executor.py:296`, `shell.py:30`):
`OnlyReadersUnasked`. A sensitive name behind such a comment is out of sight of
`SensitiveRejected`, and so is the argument of a program that runs it and is not
one of sh, bash and zsh (`command_policy.py:352`; `runner`, like dash or eval):
these are asked for, and let through where the mode asks for nothing. Then come
its words and those of the commands inside it (`Examine`,
`shell.levels`), the assessment and the permission.

### Model, memory, records

**ProviderStream.** One model call: `exchange` (family, attempt, committed),
`request` (the conversation on the wire), `reader` (blocks put together from
events), `heard` (what the backend sent), `preview` (what the user saw),
`answer`. The backend sends any event in any order, and the connection ends
anywhere. Text is a sequence of pieces, arguments of a call are two fragments.

**MemoryNotes.** Savers read, extend and write `agent_notes.md` under its lock
(`ReadNotes`, `SaveNote`); the user rewrites files in place (`Rewrite`); a turn
takes a snapshot by inventory, load and second inventory (`Inventory`, `Load`,
`InventoryAgain`) which `cache` keeps while signatures agree (`Racy`). The clock
of the file system ticks every `Coarse` units.

**Recall.** `BuiltChunks` is the list of chunks of a turn, source by source
(skill, recovery, workspace, working set, recalled notes, project structure,
memory index), `Sorted` the order of the allocator (required, priority, rank,
place), in which notes and structure alternate, and `Allocation` takes them under
caps and pool (`allocate_context_chunks`); `recent` is
`session["recently_recalled"]`, counted by requests and cleared by `EndTurn`.

**RunRecord.** `run` is the run in memory and the place in the loop, `record` the
files (`task`, `trace`, `report`, retained results), `history` a ghost of what
was carried out and promised. `ReadsBack` is the validation of
`agent/observability.py`. Writes fail, strangers append, Ctrl-C comes, the
process dies.

**ResultPages.** `PageText` is `page_text`: whole lines as long as they fit
(`Accepted`, `WholeLines`), else a part of one (`LinePart`). A reading follows
the continuation of each page; meanwhile the file is edited or a retained result
expires.

**InputQueue, PreviewCoalescer.** The terminal thread and the worker meet in
`InputQueue` (`Submit`, `Confirm`, `AnswerConfirmation`, `ClearQueue`,
`CloseQueue`, `TakeNext`), each section under the lock being one action; `told`
records what was accepted, taken, dropped and granted. `_PreviewCoalescer` draws
at most one pending snapshot (`slot`) by a timer of the prompt's event loop
(`SubmitSnapshot`, `ScheduleTimer`, `StartFlush`, `DrawLatest`, `EndFlush`).

### Composition

`AgentTurn` composes runtimes, commands and editors on one store, with
interleaving at every read of the file. `Components` puts the rest side by side:
`part` names the component a behaviour is about, the others rest. The components
there have no variable in common except the three writers, which share one
directory, so nothing of their behaviour is lost; what they need of each other
(that the notes are written under a lock, that a write is atomic) is the property
another component is checked for.

## 3. Runs

Run a module in this directory with `tlc -workers 2 -config <cfg> <module>`, a
proof module with `tlapm <module>.tla`.

| Run | Instance | What it asks | Distinct states |
|---|---|---|---|
| conversation | MCSessionStore, two writers, crashes, 7 entries | Is what a model is shown complete through turns, compactions, rewinds, branch summaries and deaths inside an append (`TypeOK`, `KeptEntryOnPath`, `NothingForgotten`, `BranchSummaryComplete`)? Does a clone continue the same conversation (`CloneKeepsConversation`)? Is no line rewritten (`AppendOnly`)? | 524,859 |
| controls | SessionStore, one writer, every operation, 6 entries | Do branches keep the model binding, resets keep rules, mode, plan and model, and plan revisions name one text (`BindingOnlyByWriter`, `ResetKeepsControls`, `PlanRevisionNamesOneText`)? | 265,254 |
| two_runtimes | MCAgentTurn, two runtimes, two models, 10 entries | Is no stale response appended (`FreshResponse`, `ResponseBinding`), every turn answered once though Ctrl-C and failing appends come at any step, and a blocked runtime silent (`TurnAnsweredOnce`, `BlockedTurnWritesNothing`)? | 1,975,651 |
| plan_approval | MCAgentTurn, a runtime and an editor, 9 entries | Is the plan of the file the plan the user approved (`PlanApprovedAsShown`)? | 4,208,575 |
| long_requests | AgentTurn with retries and compactions, a runtime and another writer | Does every turn end when requests are too long and calls fail (`TurnEnds`), and is every step one of the store's (`StoreSpec`)? | 363,663 |
| budgets | MCAgentTurn, one runtime, every kind of reply | Do the budgets hold, is a tool call that ran recorded before the model is asked again, does the turn end (`AgentTypeOK`, `EffectsAreRecorded`, `TurnEnds`)? | 618,702 |
| components | Components | The 21 properties of section 2's second half; see below | 1,557,775 |
| label_moves_binding | SessionStore | expected violation of `BindingOnlyByWriter` | - |
| reset_cut_short | SessionStore | expected violation of `ResetKeepsControls` | - |
| resume_race | SessionStore | expected violation of `PlanFreezesPreviousMode` | - |
| session_tool_adopts | MCAgentTurn | expected violation of `StaleResponseRefused` | - |
| recall_repeats | Recall | expected violation of `RecentNotesSkipped` | - |

The properties of `components`, each under the faults of its part:

| Property | What could go wrong |
|---|---|
| `ComponentsTypeOK` | a counter or a queue leaves its bound, a step ends in a state the code does not know |
| `AtomicWrites` | an atomic write (POSIX or Windows) is half done, or its caller is told the opposite: both writers implement `AtomicFile` |
| `OldContentsSafe`, `UnknownSpared` | several failures in a row lose the last copy of the old file; a rollback replaces or removes a file of somebody else that it could have seen |
| `WorkspaceEditsSafe` | a tool overwrites what the user saved meanwhile |
| `LockSafe` | two holders of one lock file, a flock left behind by a failure or a fork |
| `CommandsAccounted`, `CommandsEnd` | output is lost when a command exits while it is read; a descendant that keeps a pipe open keeps Pony waiting |
| `GitSafe` | Git starts a program the configuration of the repository names |
| `EffectsTold` | a tool that fails, is interrupted or runs next to another hides or invents an effect |
| `AgentsMergedSafely`, `AgentsWorkKept` | a merge takes what was not sealed, or half a batch; cleaning up or a crash loses work |
| `MigratedRunsKept`, `MigrationSettles` | a stop between two renames loses the runs or leaves a migration nobody can end |
| `PolicyFailsClosed` | a command that was judged by its words is given to a shell that reads others; a sensitive name in plain sight is only asked for |
| `ExchangesFaithful` | a cut stream becomes an answer, a result is told to the wrong call |
| `SessionsMigratedWhole` | resuming an old Session while an older Pony writes it loses a turn |
| `MemoryFaithful` | a note is overwritten by another saver, a cached snapshot shows a text that was gone |
| `ContextFits` | a chunk that fits is left out, a page skips or repeats text |
| `TerminalFaithful` | an input is lost or run twice, closing meets a turn that waits, a confirmation answers another question; a preview outlives its response |
| `RecordsTruthful` | a record that reads back says something that did not happen |

Every property has a mutant: a variant of one definition, as a plausible bug
would have it, under which the property fails in the same run. The variants
stand next to the definitions (`ReadNotesUnlocked`, `RaiseUncaught`,
`ScanPosixQuoted`, ...) and are used nowhere else.

### Bounds

*Program limits.* `MaxSteps`, `MaxRetries`, `RacyWindow`, `TopK`, `SkipTurns`,
`Pool`, `SourceCap`, `OutputLimit`, `MaxPending`, `MaxRetained`, `MaxCalls`,
`MaxPageLines` and `MaxPageSize` are limits of the code (`max_steps`,
`_MODEL_RETRY_DELAYS`, `MAX_PENDING_INPUTS`, `MAX_RUN_TOOL_RESULT_FILES`, ...)
made small, so that they are reached and passed. `MaxAttempts` and
`MaxCompactions` are the code's own numbers.

*Sessions.* `MaxEntries` plays the part of `MAX_SESSION_BYTES`, beyond which the
store refuses to append. Seven entries hold two turns, a compaction and a rewind
with a summary; six a switch, a rewind and a reset; ten a turn of each of two
runtimes that is broken off and closed twice; nine two edits of a plan and its approval; with twenty the limit never
ends a turn. `MaxTurns` and `MaxCommands` bound what users do. Two writers
suffice for a race between a read and an append, since every other writer only
moves the leaf. `CanCrash` is FALSE for AgentTurn: a death leaves what
`conversation` checks, and a runtime that starts again is a new one. `LabelOlder`
and `CanCrash` are off in `controls`, where what they do to the controls is the
subject of two of the violation runs.

*Components* (`Components_components.cfg`).

| Constants | Enough because |
|---|---|
| `MaxFaults` 2, `MaxForeign` 1 | a failure and a failing rollback; a stranger rebinds a name once per write |
| `Parties` a, b, c with `Child` c, `MaxReplaced` 1 | a process, another, a forked child that inherits; each file replaced once |
| `OutputLimit` 1, `MaxOutput` 2 | output below, at and above the limit |
| `Keys` | one key neutralised by an argument, one that names a filter, one that moves the worktree: the three ways `run_hardened_git` treats a key |
| `Callers` a, b, `MaxEdits` 1 | two runtimes and somebody without the lock |
| `Agents` a1, a2, `MaxOutside` 1, `MaxActs` 2 | a batch with something to merge second; a merge and what comes after it |
| `MaxStops` 2, `MaxApplies` 1 | a stop, and another in the operation that repairs it |
| `Platforms`, `MaxLevels` 2 | both shells; a command inside a command (deeper ones are examined by the same step) |
| `Families`, `MaxEvents` 7, `MaxRetries` 1 | the four protocols; a start, a text, a call with two fragments, their ends and the end; a first try and another |
| `MaxLegacyEdits` 2, `MaxFailures` 2 | an edit noticed and one too late; a resumption that fails, again, and a third that succeeds |
| `Savers` s1, s2, `Coarse` 2, `RacyWindow` 2, `MaxTime` 4, `MaxRewrites` 2 | two readings that could overlap; two edits within one tick |
| `Notes` n1, n2, `TopK` 2, `SkipTurns` 2, `Pool` 4, `SourceCap` 2, `MaxRequests` 2, `MaxTurns` 2 | sources that exceed their cap and the pool; a request and a turn after the first |
| `MaxPending` 2, `MaxInputs` 3, `MaxAsks` 2, `MaxTyped` 4 | a queue that is full; a second question while the first is closed |
| `MaxStreams` 2, `MaxSnapshots` 4 | a late flush of one response in the next; a snapshot during a flush |
| `ResultContents` c1, c2, `MaxRetained` 1, `MaxRunSteps` 2, `MaxCalls` 2, `MaxAux` 1, `MaxRecordFaults` 2 | a result stored twice and one that is not; a fault and one in the way out |
| `MaxTextLines` 3, `MaxTextWidth` 3, `MaxPageLines` 2, `MaxPageSize` 4, `MaxTextEdits` 1 | a page ended by lines, by size and inside a line; an edit between two pages |

Deadlock is not checked: the bounds end the users, and the parts of Components
(a write, a command, a migration) end by themselves. That they end where they
should is `TurnEnds`, `CommandsEnd`, `MigrationSettles` and
`NobodyWaitsClosed`.

### Fairness

`TurnEnds` is checked under `FairSpec` (`FairAnswerSpec`): weak fairness of each
runtime's own steps and nothing of users and other processes. The loop is a
thread that runs, model calls have timeouts, and a question put to the user is
taken to be answered. `ComponentsFairness` has weak fairness of the clock and of
the runner and reader threads of a command, nothing of the command itself; and,
for the migration, weak fairness of a step of the operation that runs and strong
fairness of `Recover` and `Abort`, since it is the operator who starts them, as
often as it takes. Everything else is safety and needs none.

### Refinement

`AtomicFile` is a write in one step that returns or raises. `AtomicWrites`
instantiates it for the POSIX and the Windows writer as long as at most one call
fails (`Judged`, `WindowsJudged`): with two failures the code itself reports that
it could not roll back, and `OldContentsSafe` says what then still holds.
`StoreSpec` is the specification of SessionStore, which `AgentTurn` extends: the
detailed runtimes do to the file what the store describes.

## 4. Findings

The five violation runs each end in a behaviour of the code that a sentence of
its documentation excludes.

- **label_moves_binding.** `pony session label --entry` on an older entry makes
  the label the active leaf, and only a rewind carries the binding: the Session
  is bound to an earlier model, which no model writer chose
  (`docs/security.md:167`).
- **reset_cut_short.** A process killed inside the append of a reset leaves a
  well-formed file without mode, rules, plan and model
  (`docs/context-and-sessions.md:144`).
- **resume_race.** A runtime resumed in plan mode writes the previous mode it
  loaded before, though another process has changed it
  (`docs/context-and-sessions.md:142`).
- **session_tool_adopts.** After `write_plan` or `exit_plan_mode` the guard takes
  whatever leaf the file has, so a stale response is appended behind another
  process's entry (`docs/security.md:169`, `docs/architecture.md:64`).
- **recall_repeats.** The list of recently recalled notes counts requests and is
  emptied by the checkpoint at the end of a run, so nothing is skipped in the
  next turn (`docs/memory.md:58`).

Observed while modelling, with no sentence of the documentation or no property to
hold them against (the models follow the code):

- *Commands.* On POSIX, SIGKILL is sent only if the leader lives at the end of
  the grace, so members of its group that ignore SIGTERM survive a leader that
  does not (`subprocess.py:1528`, `1622`). A command that timed out and whose
  leader exits 0 is reported "ok" (`executor.py:1024`).
- *Tools.* A KeyboardInterrupt whose second observation fails reports
  `workspace_changed` False (`executor.py:1070`); a failing release of the lock
  replaces the status of a failure (`executor.py:1129`). After the approval of a
  tool that is not the shell the mode is not looked at again
  (`executor.py:593`). In Git mode a modified clean file is told as "created",
  a committed one as "deleted" (`observer.py:218`).
- *Private files.* A kill between `os.link` and `os.unlink` leaves a second link
  (`private_files.py:816`); a first write may leave an empty file after two
  failures; `promote_private_file` deletes its copy when its rollback fails.
- *Worktree agents.* A kill in cleanup between the deletion of the branch and the
  manifest leaves an agent that cannot be cleaned up
  (`worktree_agents.py:1115`); edits between the checks of cleanup and
  `worktree remove --force` are lost.
- *Migrations.* A stop after the live directory was renamed and before the
  journal says so, followed by abort, loses the place of the old runs
  (`migration.py:460`), and an interrupted abort makes recover raise until abort
  is repeated. An edit of an old Session between promotion and removal leaves two
  files, of which the new one hides the edit (`session_store.py:3002`); a torn
  old `.jsonl` can be neither migrated nor repaired (`session_store.py:2678`).
- *Providers.* Streamed text of the Responses protocol is not compared with the
  final object; a call whose argument fragments are all lost has empty
  arguments; streams without sequence numbers cannot notice a lost fragment.
- *Memory.* A file summary has the freshness of the time it was recorded, not
  read (`sources.py:300`); notes are named `#entry-N` and shift when one is
  removed.
- *Terminal.* An answer goes to whichever confirmation is pending when the
  interface could not show the first (`GrantedAsShown` leaves those out). When a
  prompt ends, its event loop takes the timer of the preview with it while
  `_scheduled` stays set, and the preview of that response stands still.
- *Run records.* A run ended between the record of a request and its call, or by
  a Session conflict after a tool, leaves a record that does not read back, while
  the finalisation says "complete" (`loop.py:1491`); one such run makes the
  migration refuse (`cli/migration.py:206`).
- *Pages.* The back-off of `page_text` that drops accepted lines
  (`result_view.py:392`) never runs: each accepted line was tried with the same
  continuation.
- *Sessions.* A turn is judged by the mode of `agent.session` while the file may
  have another (`application.py:838`). A Session labelled on a branch from the
  root has no binding and cannot be resumed (`application.py:464`).

## 5. Proofs

TLC checks the instances above; the theorems hold for every value of the
constants that satisfies the assumptions named in the modules. Those are mild:
sets of the right kind, bounds that are numbers, `None`, `Nobody`, `NoCaller`,
"none" and "user" outside the sets they stand apart from, `Child` one of the parties, the
racy window at least the grain of the time stamps (`Coarse <= RacyWindow`), and
for AgentTurn no death inside an append (`~CanCrash`). Two theorems of the store
have that premise too, and one of them `~LabelOlder`: a batch of lines that is cut
short is not what its writer meant, and a label on an older entry moves the leaf
(the runs reset_cut_short and label_moves_binding).

| Module | Theorem | Property | Inductive invariant |
|---|---|---|---|
| SessionStoreProofs | `TypeCorrect` | `TypeOK` | `WellFormed`: parents precede children, stored paths follow them, states are in range, expectations name leaves |
| | `Persistence` | `AppendOnly` | - |
| | `NoMessageForgotten`, `KeptEntrySurvives` | `NothingForgotten`, `KeptEntryOnPath` | `ContextInv`: the context is intact at *every* entry, not at the leaf only, since a rewind makes any entry the leaf |
| | `ClonesKeepTheConversation` | `CloneKeepsConversation` | `ContextInv`, with `KeepsMessages`: what a state keeps of a path are exactly its messages. The clone numbers them in their order (`Rank` and `Nth` are inverse and monotone), renders them as one chain (`chain`, by induction on its length) and places the compaction, the summary and the checkpoint after it |
| | `SummaryTellsAbandoned` | `BranchSummaryComplete` | `Told` at every entry |
| | `RevisionsNamePlans` | `PlanRevisionNamesOneText` | `Revised`: revisions grow along every path |
| | `ResetsKeepControls` | `ResetKeepsControls` | `Remembered`: at every entry, plan mode and only plan mode has a mode to return to; without it a reset, which restates that mode in plan mode only, would lose one or make one up. Assumes `~CanCrash` |
| | `BindingIsTheWriters` | `BindingOnlyByWriter` | `BoundInv`: there is a binding, so that a branch has one to carry. Assumes `~CanCrash` and `~LabelOlder` |
| AgentTurnProofs | `Implementation` | `StoreSpec` | every step of AgentTurn is a step of the store or leaves it alone |
| | `AgentTypeCorrect`, `ResponsesAreFresh`, `ResponsesAreBound`, `EffectsRecorded`, `ApprovalIsOfThePlanShown`, `BlockedRuntimeIsQuiet` | the properties of the same subject | `AgentInv`: the author of each line, for each runtime that the guard is held from the request to the appended answer, that approval shows the plan in memory, that `blocked` occurs in few phases; for each response where it stands (`Joined`) |
| | `TurnsAreAnsweredOnce` | `TurnAnsweredOnce` | `DialogueInv`: while a turn is open its question is the last word, between two answers there is a question, a closed turn has an answer behind every question, unless it was cut, and only a cut turn has a second one. `Spoken` says what a step adds to that (nothing, a question that opens, an answer that closes) |
| FilesProofs | `MutualExclusion`, `NoLeaks` | | `LockInv`: types, `InodesKnown`, `HoldersOwn` (who is in the lock owns the flock of what it opened) |
| | `TurnsSurviveMigration` | | `SessionMigrationInv`: the candidate is the conversion of what was backed up, and the last look at the source still holds |
| ConversationProofs | `NotesNeverLost` | | `Locked`: one saver is between reading and writing, and what it read is still in the file |
| | `SnapshotsAreFresh` | | `SnapshotInv`: a cached row of a file at rest tells its text. The lemma `StampIsNew` is where `Coarse <= RacyWindow` is needed: an edit after the window gets a new time stamp |
| | `ConfirmationsAreSafe` | | `QueueInv`: one worker, a pending confirmation is the one the worker waits for, a closed queue has none, what is granted was shown |
| ToolsProofs | `ToolsTellEffects` | | `ToolInv`: per call, that it is alone from its first observation until it leaves the lock (`Alone`) and what was said and not said by then |
| ComponentsProofs | `LocksAreSafe`, `MemoryIsFaithful`, `EffectsAreTold`, `SessionsMigrateWhole` | `LockSafe`, `MemoryFaithful`, `EffectsTold`, `SessionsMigratedWhole` | the invariants above, guarded by `part`: other parts do not touch their variables |
| | `WritesAreAtomic` | `AtomicWrites` | `PrivateInv` and `WindowsInv`: `JudgedInv` (`WindowsAtomic`) says at each step what the path holds and what the writer will report of it, with at most one failing call; every step then is the step of `AtomicFile` or a stutter |
| | `OldContentsAreSafe`, `UnknownIsSpared` | `OldContentsSafe`, `UnknownSpared` | `CalmOld`, `CopyHeld`, `NewWhole` of `PrivateInv`, for *any* number of failures; which names hold files of the writer (`PrivateNamed`, `WindowsNamed`) |
| | `WorkspaceEditsAreSafe` | `WorkspaceEditsSafe` | `WorkspaceInv`: an edit before the last look changes what is compared (`EditsNoticed`), what the user saved is in an inode that the writer does not touch (`UserFiles`) |
| | `AgentsMergeSafely`, `AgentsKeepWork` | `AgentsMergedSafely`, `AgentsWorkKept` | `AgentsInv`: what a seal says is what the branch has or had (`SealedInv`), and of a batch in progress that nothing left conflicts with what was merged (`BatchMergeInv`), as long as nobody moves the parent |
| | `MigrationKeepsRuns` | `MigratedRunsKept` | `MigrationInv`: what each state of the journal says of the three directories (`JournalTells`), what the operation knows beyond it, and that a run that was stored late is in every directory that replaces the one it went to (`StrayFollowed`) |
| | `CommandsAreAccounted` | `CommandsAccounted` | `CommandInv`: bytes written are kept or unread (`StreamsInv`); a stream the runner closed was read to its end, unless the command was given up and will be told so (`OutputAccounted`) |
| | `GitIsSafe` | `GitSafe` | `GitInv`: what each probe has established by the step that relies on it (`KeysJudged`) |
| | `PolicyIsClosed` | `PolicyFailsClosed` | `PolicyInv`: the scanner is in the quotes the shell is in, has rejected, or the shell went astray at a place the model names (`QuotingAgrees`), and only the innermost command names a file (`LevelsKnown`) |
| | `ExchangesAreFaithful` | `ExchangesFaithful` | `ExchangeInv` (ProviderProofs): what the reader has put together is what was heard so far, event by event, and what was previewed is its beginning |
| | `ContextsFit` | `ContextFits` | `RecallInv`: the chunks are sorted and a chunk is left out only where it no longer fits behind those before it; `PagesInv`: the lines of a page are the accepted ones, the pages read so far put together are the text up to the offset |
| | `RecordsAreTruthful` | `RecordsTruthful` | `RecordInv` (RecordProofs): what `stored_run` would make of the trace so far, event by event, agrees with what happened in the run (`ghost`) |
| | `ComponentsTyped` | `ComponentsTypeOK` | the types of all parts |
| | `TerminalIsFaithful` | `TerminalFaithful` | `InputsInv`: taken and pending inputs are in the order they came, all others are among the dropped (`Account`); `PreviewInv`: one timer per pending snapshot, generations of a stream are odd and end with it |

The invariants of the runs are not inductive. They speak of the active leaf or of
a finished call, and a rewind, a late answer or a second caller starts from
states they do not describe; the last column says what has to be known of every
entry, phase or caller. Each was checked by TLC on the instance of its run before
it was proved. The proofs have a lemma for each action, and operators (`Add`,
`CompactionPlan`, `Path`, `History`, ...) have lemmas of their own,
cited by name.

Two of them say something of the code by themselves. `CommandInv` did not hold
of a first version of `Commands`, in which the reader threads could run before
the command was resumed (`windows_process.py:437`, `456`: they start after `ResumeThread`), and
led to `Resumed`. `PreviewInv` has the conjunct `flush.at # "schedule"`: the
branch of `_flush` that schedules another flush (`tui/app.py:281`) is never
taken, because a snapshot that arrives during a flush sets `_scheduled` itself.

*Induction over data.* The induction theorems of the library take an operator as
a parameter, which no installed prover can instantiate. Where a proof needs
induction on a length (a trace that is validated event by event, pages put
together, the chain of a clone), it is done in set form: the set of the numbers
for which the claim fails is a subset of Nat, so it has a least element
(`LeastNumber`), and the step from the number below it is the contradiction.
What a fold computes (`FlattenSeq`) is known from lemmas proved in this way
(`FlattenConcat`, `FlattenAppended`, `FlattenType`).

*Only model-checked, liveness.* `TurnEnds`, `CommandsEnd` and `MigrationSettles`.
Liveness under fairness and ENABLED are out of reach of the prover.

## 6. Not modelled

- *Configuration, redaction, path checks, the trust store.* Functions of text or
  of one look at the file system, without state that is used later. What they let
  through appears as a choice where it matters (`rejected` replies, secrets in
  `CommandPolicy`).
- *Rendering, completion, listing, searching, `pony session list/show`,
  diagnostics, the capability probe.* Output, or one read.
- *The repository map and the ranking of memory.* Which notes a query hits is a
  choice.
- *The delegation to a read-only child inside a turn, prefix building and prompts.*
  Their result is text for the model; whether a request fits is a choice.
- *Native Windows calls.* Their results are the choices of `WindowsWrite` and
  `Commands`.
- *Scripts of the repository* (release, evaluation). They are not part of the
  running program.
- *Three hazards without a property.* A configuration written between the probe
  of a repository and the run of Git (`subprocess.py:1188`) is not covered: the
  repository of `GitCommand` does not change in between. Whether a branch summary must outlive a
  compaction is stated nowhere (`compaction.py:244`); whether prompt_toolkit
  drops a call handed to a loop that ends is decided by its version
  (`tui/app.py:536`).

What could follow: a repository that changes under `GitCommand`; the observation
of the workspace by Git and signatures as a module of its own.
