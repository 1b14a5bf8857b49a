--------------------------- MODULE WorktreeAgents ---------------------------
(***************************************************************************)
(* pony/runtime/worktree_agents.py and cli/agents.py: a batch of child     *)
(* agents works in Git worktrees of its own, what each did is sealed as    *)
(* one commit, and the user merges and cleans up with commands that run    *)
(* one at a time under the mutation lock.  Git, the user and processes     *)
(* that a child left behind change the repository outside that lock.       *)
(***************************************************************************)
EXTENDS Naturals

CONSTANTS Agents,       \* the children of the batch
          MaxOutside,   \* what happens outside the lock
          MaxActs       \* that, and commands of the user

ASSUME AgentsAssumption == /\ MaxOutside \in Nat /\ MaxActs \in Nat
                           /\ "user" \notin Agents /\ "none" \notin Agents

VARIABLES parent,     \* the commits of the parent's branch, now and ever
          tree,       \* the worktree and the branch of each child
          manifest,   \* what is recorded about each child
          batch,      \* what is recorded about the batch
          runner,     \* delegate_worktrees
          op          \* the command of the user

agentsVars == <<parent, tree, manifest, batch, runner, op>>

Statuses == {"created", "running", "completed", "stopped", "failed", "merged", "cleaned"}
Terminal == Statuses \ {"created", "running"}
Heads == {"base", "work", "late"}

\* A branch head stands for its history on top of the base commit.
History(a, head) == CASE head = "work" -> {<<a, "work">>}
                      [] head = "late" -> {<<a, "work">>, <<a, "late">>}
                      [] OTHER -> {}
Sealed(a) == manifest[a].head # "none"
Contained(a, head, commits) == History(a, head) \subseteq commits
Own(a) == {<<a, "work">>, <<a, "late">>}
OfUser == <<"user", "work">>

\* Two children may have changed the same lines, or the user's commit did.
Conflicts(a, commits) ==
    \/ parent.clash = "agents" /\ \E b \in Agents \ {a} : commits \cap Own(b) # {}
    \/ parent.clash = "user" /\ OfUser \in commits

NoTree == [there |-> FALSE, branch |-> "none", dirty |-> FALSE]
NoManifest == [status |-> "none", head |-> "none", test |-> "not_run"]
NoBatch == [status |-> "none", evidence |-> [a \in Agents |-> NoManifest], head |-> {}]
NoOp == [pc |-> "none", agent |-> "none", discard |-> FALSE,
         head |-> {}, todo |-> {}]

\* "unsafe" children change a sensitive path, product state or a symbolic link.
AgentsInit ==
    /\ parent \in [commits : {{}}, ever : {{}}, merging : {FALSE}, outside : {0}, commands : {0},
                   clash : {"agents", "user"},
                   unsafe : {{}} \cup {{a} : a \in Agents}]
    /\ tree = [a \in Agents |-> NoTree]
    /\ manifest = [a \in Agents |-> NoManifest]
    /\ batch = NoBatch
    /\ runner = [pc |-> "setup", prepared |-> {}, agent |-> [a \in Agents |-> "new"],
                 discarded |-> {}, ended |-> [a \in Agents |-> "none"]]
    /\ op = NoOp

SetTree(a, field, value) == tree' = [tree EXCEPT ![a][field] = value]
SetStatus(a, s) == manifest' = [manifest EXCEPT ![a].status = s]

-----------------------------------------------------------------------------
(* run_worktree_agents: every worktree is made before any child runs, and   *)
(* one failure removes them all.                                            *)

AddWorktree(a) ==
    /\ runner.pc = "setup" /\ runner.agent[a] = "new"
    /\ tree' = [tree EXCEPT ![a] = [there |-> TRUE, branch |-> "base", dirty |-> FALSE]]
    /\ runner' = [runner EXCEPT !.agent[a] = "added"]
    /\ UNCHANGED <<parent, manifest, batch, op>>

RecordWorktree(a) ==
    /\ runner.pc = "setup" /\ runner.agent[a] = "added"
    /\ SetStatus(a, "created")
    /\ runner' = [runner EXCEPT !.agent[a] = "prepared", !.prepared = @ \cup {a}]
    /\ UNCHANGED <<parent, tree, batch, op>>

\* Anything else that can go wrong, the parent's head that moved included.
SetupFails ==
    /\ runner.pc \in {"setup", "record"}
    /\ runner' = [runner EXCEPT !.pc = "undo"]
    /\ UNCHANGED <<parent, tree, manifest, batch, op>>

RecordBatch ==
    /\ runner.pc = "setup" /\ runner.prepared = Agents
    /\ parent.commits = {}
    /\ batch' = [batch EXCEPT !.status = "running", !.evidence = manifest]
    /\ runner' = [runner EXCEPT !.pc = "record"]
    /\ UNCHANGED <<parent, tree, manifest, op>>

StartChildren ==
    /\ runner.pc = "record"
    /\ runner' = [runner EXCEPT !.pc = "children"]
    /\ UNCHANGED <<parent, tree, manifest, batch, op>>

\* Mutant of UndoSetup: the worktree is removed but not the directory of the agent.
UndoSetupKeepsManifest(a) ==
    /\ runner.pc = "undo" /\ runner.agent[a] \in {"added", "prepared"}
    /\ tree' = [tree EXCEPT ![a] = NoTree]
    /\ runner' = [runner EXCEPT !.agent[a] = "new"]
    /\ UNCHANGED <<parent, manifest, batch, op>>

\* _remove_setup and the removal of the agent's directory, for each child
\* that was begun; whichever fails leaves what it has not removed.
UndoSetup(a) ==
    /\ runner.pc = "undo" /\ runner.agent[a] \in {"added", "prepared"}
    /\ \/ /\ tree' = [tree EXCEPT ![a] = NoTree]
          /\ manifest' = [manifest EXCEPT ![a] = NoManifest]
          /\ runner' = [runner EXCEPT !.agent[a] = "new"]
       \/ /\ tree' \in {tree, [tree EXCEPT ![a] = NoTree]}
          /\ runner' = [runner EXCEPT !.agent[a] = "stuck"]
          /\ UNCHANGED manifest
    /\ UNCHANGED <<parent, batch, op>>

EndUndo ==
    /\ runner.pc = "undo" /\ \A a \in Agents : runner.agent[a] \in {"new", "stuck"}
    /\ batch' = NoBatch
    /\ runner' = [runner EXCEPT !.pc = IF \E a \in Agents : runner.agent[a] = "stuck"
                                       THEN "stuck" ELSE "refused"]
    /\ UNCHANGED <<parent, tree, manifest, op>>

-----------------------------------------------------------------------------
(* _run_child, one thread per child. *)

StartChild(a) ==
    /\ runner.pc = "children" /\ runner.agent[a] = "prepared"
    /\ SetStatus(a, "running")
    /\ runner' = [runner EXCEPT !.agent[a] = "works"]
    /\ UNCHANGED <<parent, tree, batch, op>>

\* What the child leaves in its worktree: nothing, files, or commits it made
\* with its shell.  A failed task is treated like one that was stopped.
ChildEnds(a) ==
    /\ runner.pc = "children" /\ runner.agent[a] = "works"
    /\ \E left \in {"nothing", "files", "commit"} :
          tree' = [tree EXCEPT ![a].dirty = @ \/ left = "files",
                               ![a].branch = IF left = "commit" THEN "work" ELSE @]
    /\ \E s \in {"completed", "stopped"} :
          runner' = [runner EXCEPT !.agent[a] = "seal", !.ended[a] = s]
    /\ UNCHANGED <<parent, manifest, batch, op>>

\* _seal_worktree: everything is added and committed ...
Commit(a) ==
    /\ runner.pc = "children" /\ runner.agent[a] = "seal"
    /\ a \notin parent.unsafe \/ ~tree[a].dirty
    /\ tree' = IF tree[a].dirty
               THEN [tree EXCEPT ![a].dirty = FALSE,
                                 ![a].branch = IF @ = "base" THEN "work" ELSE "late"]
               ELSE tree
    /\ runner' = [runner EXCEPT !.agent[a] = "head"]
    /\ UNCHANGED <<parent, manifest, batch, op>>

\* Mutant of ReadHead: what the child committed by itself is not judged.
ReadHeadUnjudged(a) ==
    /\ runner.pc = "children" /\ runner.agent[a] = "head"
    /\ runner' = [runner EXCEPT !.agent[a] = tree[a].branch]
    /\ UNCHANGED <<parent, tree, manifest, batch, op>>

\* ... the head is read and all it adds is judged ...
ReadHead(a) ==
    /\ runner.pc = "children" /\ runner.agent[a] = "head"
    /\ tree[a].branch = "base" \/ a \notin parent.unsafe
    /\ runner' = [runner EXCEPT !.agent[a] = tree[a].branch]
    /\ UNCHANGED <<parent, tree, manifest, batch, op>>

\* ... and nothing may have changed meanwhile.
Seal(a) ==
    /\ runner.pc = "children" /\ runner.agent[a] \in Heads /\ ~tree[a].dirty
    /\ \E test \in {"passed", IF runner.ended[a] = "completed" THEN "failed" ELSE "passed"} :
          manifest' = [manifest EXCEPT ![a] = [status |-> runner.ended[a],
                                               head |-> runner.agent[a], test |-> test]]
    /\ runner' = [runner EXCEPT !.agent[a] = "done"]
    /\ UNCHANGED <<parent, tree, batch, op>>

SealFails(a) ==
    /\ runner.pc = "children" /\ runner.agent[a] \in Heads \cup {"seal", "head"}
    /\ SetStatus(a, "failed")
    /\ runner' = [runner EXCEPT !.agent[a] = "done", !.ended[a] = "failed"]
    /\ UNCHANGED <<parent, tree, batch, op>>

FinishBatch ==
    /\ runner.pc = "children" /\ \A a \in Agents : runner.agent[a] = "done"
    /\ batch' = [batch EXCEPT !.status = "review_required", !.evidence = manifest]
    /\ runner' = [runner EXCEPT !.pc = "done"]
    /\ UNCHANGED <<parent, tree, manifest, op>>

RunnerDies ==
    /\ runner.pc \notin {"done", "dead", "refused", "stuck"}
    /\ runner' = [runner EXCEPT !.pc = "dead"]
    /\ UNCHANGED <<parent, tree, manifest, batch, op>>

ChildStep(a) == StartChild(a) \/ ChildEnds(a) \/ Commit(a) \/ ReadHead(a)
                \/ Seal(a) \/ SealFails(a)
RunnerStep == \/ SetupFails \/ RecordBatch \/ StartChildren \/ EndUndo \/ FinishBatch
              \/ RunnerDies
              \/ \E a \in Agents : AddWorktree(a) \/ RecordWorktree(a) \/ UndoSetup(a)
                                   \/ ChildStep(a)

-----------------------------------------------------------------------------
(* What happens outside the lock. *)

Bounded == parent.outside + parent.commands < MaxActs
Outside == Bounded /\ parent.outside < MaxOutside
OutsideParent == [parent EXCEPT !.outside = @ + 1]

\* A process that the child left behind, or the user, edits a worktree and
\* perhaps commits in it.
EditWorktree(a) ==
    /\ Outside /\ parent' = OutsideParent
    /\ tree[a].there /\ runner.agent[a] # "prepared"
    /\ \/ SetTree(a, "dirty", TRUE)
       \/ tree[a].branch = "work" /\ SetTree(a, "branch", "late")
    /\ UNCHANGED <<manifest, batch, runner, op>>

\* The user commits in the parent, or resets it to where it was.
MoveParent ==
    /\ Outside
    /\ \E commits \in {parent.commits \cup {OfUser}, {}} :
          parent' = [OutsideParent EXCEPT !.commits = commits, !.ever = @ \cup commits]
    /\ UNCHANGED <<tree, manifest, batch, runner, op>>

AbortMerge ==
    /\ parent.merging /\ parent' = [parent EXCEPT !.merging = FALSE]
    /\ UNCHANGED <<tree, manifest, batch, runner, op>>

-----------------------------------------------------------------------------
(* The commands: each begins with the checks of the first step and may be    *)
(* refused or killed at every later one.                                     *)

Begins == /\ runner.pc \in {"done", "dead", "refused", "stuck"} /\ op.pc = "none"
          /\ Bounded
          /\ parent' = [parent EXCEPT !.commands = @ + 1]
EndOp == op' = NoOp
Continue(step) == op' = [op EXCEPT !.pc = step]

OpEnds ==
    /\ op.pc # "none" /\ EndOp
    /\ UNCHANGED <<parent, tree, manifest, batch, runner>>

\* The worktree still holds exactly what was sealed.
AsSealed(a) == /\ tree[a].there /\ ~tree[a].dirty
               /\ tree[a].branch = manifest[a].head

\* git merge of a commit into whatever is checked out by now; a failed merge
\* is aborted unless that fails as well.
Merged(a, next) ==
    \/ /\ ~Conflicts(a, parent.commits)
       /\ parent' = [parent EXCEPT !.commits = @ \cup History(a, manifest[a].head),
                                   !.ever = @ \cup History(a, manifest[a].head)]
       /\ op' = [next EXCEPT !.head = parent'.commits]
    \/ /\ parent' \in {parent, [parent EXCEPT !.merging = TRUE]}
       /\ EndOp

MergeOne(a) ==
    /\ Begins
    /\ manifest[a].status \in Terminal \ {"merged", "cleaned"}
    /\ AsSealed(a)
    /\ op' = [NoOp EXCEPT !.pc = "merge.check", !.agent = a]
    /\ UNCHANGED <<tree, manifest, batch, runner>>

CheckParent ==
    /\ op.pc = "merge.check" /\ ~parent.merging
    /\ LET a == op.agent
       IN  IF Contained(a, manifest[a].head, parent.commits)
           THEN Continue("merge.write")
           ELSE ~Conflicts(a, parent.commits) /\ Continue("merge.merge")
    /\ UNCHANGED <<parent, tree, manifest, batch, runner>>

MergeCommit ==
    /\ op.pc = "merge.merge"
    /\ Merged(op.agent, [op EXCEPT !.pc = "merge.write"])
    /\ UNCHANGED <<tree, manifest, batch, runner>>

RecordMerge ==
    /\ op.pc = "merge.write"
    /\ SetStatus(op.agent, "merged")
    /\ EndOp
    /\ UNCHANGED <<parent, tree, batch, runner>>

\* _batch_evidence_matches: a merged or cleaned child counts as completed.
Evidence(a) == [manifest[a] EXCEPT !.status = IF @ \in {"merged", "cleaned"} THEN "completed" ELSE @]
\* Mutant of Unchanged: only the sealed head is compared.
UnchangedHead(a) == manifest[a].head = batch.evidence[a].head

Unchanged(a) == Evidence(a) = batch.evidence[a]

\* _validated_batch_children
ValidChild(a) ==
    /\ Unchanged(a)
    /\ manifest[a].status \in {"completed", "merged", "cleaned"}
    /\ manifest[a].test # "failed"
    /\ IF manifest[a].status = "completed"
       THEN AsSealed(a) ELSE Contained(a, manifest[a].head, parent.commits)

\* Mutant of Mergeable: each child is tried on the parent as it is.
MergeableEach ==
    \A a \in Agents : ~Contained(a, manifest[a].head, parent.commits) =>
        ~Conflicts(a, parent.commits)

\* _preflight_batch_merge tries all the merges before the first is made.
Mergeable ==
    \A a \in Agents : ~Contained(a, manifest[a].head, parent.commits) =>
        /\ ~Conflicts(a, parent.commits)
        /\ \A b \in Agents \ {a} : ~Conflicts(a, History(b, manifest[b].head))

MergeAll ==
    /\ Begins
    /\ batch.status = "review_required" /\ ~parent.merging
    /\ \A a \in Agents : ValidChild(a)
    /\ Mergeable
    /\ op' = [NoOp EXCEPT !.pc = "all", !.head = parent.commits, !.todo = Agents]
    /\ UNCHANGED <<tree, manifest, batch, runner>>

MergeNext(a) ==
    /\ op.pc = "all" /\ a \in op.todo
    /\ parent.commits = op.head
    /\ Unchanged(a)
    /\ LET next == [op EXCEPT !.todo = @ \ {a}]
           contained == Contained(a, manifest[a].head, op.head)
       IN  IF manifest[a].status \in {"merged", "cleaned"}
           THEN contained /\ op' = next /\ UNCHANGED parent
           ELSE /\ AsSealed(a)
                /\ IF contained THEN op' = next /\ UNCHANGED parent
                   ELSE op' = [next EXCEPT !.pc = "all.merge", !.agent = a] /\ UNCHANGED parent
    /\ UNCHANGED <<tree, manifest, batch, runner>>

MergeBatchCommit ==
    /\ op.pc = "all.merge"
    /\ Merged(op.agent, [op EXCEPT !.pc = "all"])
    /\ UNCHANGED <<tree, manifest, batch, runner>>

RecordBatchMerge ==
    /\ op.pc = "all" /\ op.todo = {}
    /\ batch' = [batch EXCEPT !.status = "merged", !.head = op.head]
    /\ EndOp
    /\ UNCHANGED <<parent, tree, manifest, runner>>

\* Mutant of CleanupAgent: the branch is not looked for in the parent.
CleanupUnmerged(a, discard) ==
    /\ Begins
    /\ manifest[a].status \in Terminal \/ discard
    /\ tree[a].there
    /\ discard \/ ~tree[a].dirty
    /\ op' = [NoOp EXCEPT !.pc = "clean.tree", !.agent = a, !.discard = discard]
    /\ UNCHANGED <<tree, manifest, batch, runner>>

\* cleanup_worktree_agent
CleanupAgent(a, discard) ==
    /\ Begins
    /\ \/ manifest[a].status = "cleaned"
       \/ manifest[a].status \in {"created", "running"} /\ discard
       \/ manifest[a].status \in Terminal
    /\ LET gone == ~tree[a].there /\ tree[a].branch = "none"
           first == CASE manifest[a].status = "cleaned" -> "clean.batch"
                      [] gone /\ manifest[a].status # "cleaned" -> "clean.write"
                      [] OTHER -> "clean.tree"
       IN  /\ gone => manifest[a].status \in {"merged", "cleaned"}
           /\ discard \/ gone \/ manifest[a].status = "cleaned" \/
                /\ ~tree[a].dirty
                /\ tree[a].branch # "none" /\ Contained(a, tree[a].branch, parent.commits)
           /\ op' = [NoOp EXCEPT !.pc = first, !.agent = a, !.discard = discard]
    /\ UNCHANGED <<tree, manifest, batch, runner>>

RemoveWorktree ==
    /\ op.pc = "clean.tree"
    /\ tree' = [tree EXCEPT ![op.agent].there = FALSE, ![op.agent].dirty = FALSE]
    /\ Continue("clean.branch")
    /\ UNCHANGED <<parent, manifest, batch, runner>>

DeleteBranch ==
    /\ op.pc = "clean.branch"
    /\ SetTree(op.agent, "branch", "none")
    /\ runner' = [runner EXCEPT !.discarded = IF op.discard THEN @ \cup {op.agent} ELSE @]
    /\ Continue("clean.write")
    /\ UNCHANGED <<parent, manifest, batch>>

RecordCleanup ==
    /\ op.pc = "clean.write"
    /\ SetStatus(op.agent, "cleaned")
    /\ Continue("clean.batch")
    /\ UNCHANGED <<parent, tree, batch, runner>>

\* _reconcile_cleaned_batch
ReconcileBatch ==
    /\ op.pc = "clean.batch"
    /\ batch' = IF batch.status # "none" /\ \A a \in Agents : manifest[a].status = "cleaned"
                THEN [batch EXCEPT !.status = "cleaned", !.head = {}] ELSE batch
    /\ EndOp
    /\ UNCHANGED <<parent, tree, manifest, runner>>

AgentCommand ==
    \/ OpEnds \/ CheckParent \/ MergeCommit \/ RecordMerge \/ MergeAll \/ MergeBatchCommit
    \/ RecordBatchMerge \/ RemoveWorktree \/ DeleteBranch \/ RecordCleanup \/ ReconcileBatch
    \/ \E a \in Agents : MergeOne(a) \/ MergeNext(a)
                         \/ \E discard \in BOOLEAN : CleanupAgent(a, discard)

AgentsNext == \/ RunnerStep \/ AgentCommand \/ MoveParent \/ AbortMerge
              \/ \E a \in Agents : EditWorktree(a)

AgentsSpec == AgentsInit /\ [][AgentsNext]_agentsVars

-----------------------------------------------------------------------------
(* Properties. *)

AgentsTypeOK ==
    /\ parent.clash \in {"agents", "user"} /\ parent.commits \subseteq parent.ever
    /\ \A a \in Agents :
          /\ tree[a] \in [there : BOOLEAN, branch : Heads \cup {"none"}, dirty : BOOLEAN]
          /\ manifest[a] \in [status : Statuses \cup {"none"}, head : Heads \cup {"none"},
                              test : {"not_run", "passed", "failed"}]
    /\ batch.status \in {"none", "running", "review_required", "merged", "cleaned"}

\* Whatever a child or the user commits in a worktree after it was sealed, and
\* in whichever order the commands run: only sealed commits reach the parent,
\* and nothing unsafe, even if the child committed it by itself.
OnlySealedMerged ==
    \A a \in Agents : Own(a) \cap parent.ever \subseteq
        IF Sealed(a) /\ a \notin parent.unsafe THEN History(a, manifest[a].head) ELSE {}

\* As long as nobody else moves the parent, no merge is begun that conflicts:
\* a batch with a conflict is refused before its first child is merged.
NoConflictingMerge ==
    op.pc \in {"merge.merge", "all.merge"} /\ parent.outside = 0
        => ~Conflicts(op.agent, parent.commits)

\* A batch is recorded as merged only when every child had completed, none of
\* their tests had failed, and all that they sealed has reached the parent,
\* also when some were merged or cleaned up one by one.
BatchMergedWhole ==
    batch.status = "merged" =>
        \A a \in Agents : /\ runner.ended[a] = "completed" /\ manifest[a].test # "failed"
                          /\ Contained(a, manifest[a].head, parent.ever)

\* Without --discard no sealed commit loses its branch before it is merged.
NoWorkLost ==
    \A a \in Agents :
        Sealed(a) /\ tree[a].branch = "none" /\ a \notin runner.discarded
            => Contained(a, manifest[a].head, parent.ever)

\* A setup that was refused leaves nothing behind.
RefusedSetupLeavesNothing ==
    runner.pc = "refused" =>
        /\ batch = NoBatch
        /\ \A a \in Agents : tree[a] = NoTree /\ manifest[a] = NoManifest

=============================================================================
