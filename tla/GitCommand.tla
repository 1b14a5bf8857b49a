----------------------------- MODULE GitCommand -----------------------------
(***************************************************************************)
(* run_hardened_git of pony/tools/subprocess.py: a Git command the runtime *)
(* needs is run only after the repository was looked at, first in its      *)
(* files and then through two Git commands that start nothing.  The order  *)
(* of the probes, their early returns and the arguments the command gets   *)
(* are the code's; names, paths and configuration values are classes.      *)
(***************************************************************************)
EXTENDS Naturals

CONSTANT Keys     \* the configuration keys a repository may set

VARIABLES repo,   \* the repository around the working directory
          git     \* one call of run_hardened_git

gitVars == <<repo, git>>

Commands == {"rev-parse", "show", "diff", "reflog", "status", "merge", "range-diff"}
Seconds == {"none", "show", "option", "HEAD:path", "name", "toplevel"}

\* What git may start because of a key, or refuses to start for the options
\* every command gets: none of the first, all of the second.
Overridden == {"core.hookspath", "core.fsmonitor", "diff.external", "credential.helper", "core.pager"}
DiffKeys == {"diff.command", "diff.textconv"}
ProgramKeys == DiffKeys \cup {"filter.clean", "merge.driver", "remote.proxy", "core.sshcommand"}
AllKeys == Overridden \cup ProgramKeys \cup {"core.worktree", "user.name"}

ASSUME GitAssumption == Keys \subseteq AllKeys

\* _is_executable_git_config_key
IsExecutableKey(k, neutralized) ==
    /\ k \notin Overridden
    /\ k \in ProgramKeys
    /\ k \in DiffKeys => ~neutralized

-----------------------------------------------------------------------------
(* The repository, as its files show it. *)

\* _absorbed_submodule_worktree: the configuration of a submodule may hold
\* nothing git would start, and names one work tree.
AbsorbedConfigSafe(r) ==
    /\ \A k \in r.keys : k \notin Overridden \ {"core.pager"} /\ ~IsExecutableKey(k, FALSE)
    /\ "core.worktree" \in r.keys

\* _validate_gitfile_binding: a linked work tree points back to this marker;
\* a submodule names this root and lives under its super-repository.
GitfileKind(r) ==
    IF r.backlink = "ours" THEN "linked-worktree"
    ELSE IF r.backlink = "missing" /\ AbsorbedConfigSafe(r) /\ r.worktree = "root" /\ r.inModules
    THEN "absorbed-submodule"
    ELSE "unsafe"

RepositoryKind(r) ==
    CASE r.marker = "directory" -> "directory"
      [] r.marker = "link" -> "unsafe"
      [] r.marker = "file" -> GitfileKind(r)
      [] r.marker = "none" -> IF r.bare = "yes" THEN "bare"
                              ELSE IF r.bare = "partial" THEN "unsafe" ELSE "none"

-----------------------------------------------------------------------------
(* The command. *)

\* Global and system configuration are switched off: outside a repository no
\* key is set.
GitInit ==
    /\ \E marker \in {"none", "directory", "file", "link"}, keys \in SUBSET Keys,
          backlink \in {"ours", "other", "missing"}, worktree \in {"root", "other"},
          inModules, gitlink \in BOOLEAN, bare \in {"no", "yes", "partial"} :
          /\ marker # "file" => backlink = "missing" /\ inModules
          /\ marker # "none" => bare = "no"
          /\ marker = "none" /\ bare = "no" => keys = {}
          /\ repo = [marker |-> marker, keys |-> keys, backlink |-> backlink, bare |-> bare,
                     worktree |-> IF "core.worktree" \in keys THEN worktree ELSE "root",
                     inModules |-> inModules, gitlink |-> gitlink]
    /\ \E command \in Commands, second \in Seconds :
          git = [command |-> command, second |-> second, pc |-> "executable", neutral |-> FALSE,
                 diffOff |-> FALSE]

GoTo(step) == git' = [git EXCEPT !.pc = step]
Probe(step) == git.pc = step /\ UNCHANGED repo

\* _prepared_executable: the file named when trust was given, unchanged and
\* out of the user's reach, is held open until the command has ended.
Prepare == Probe("executable") /\ \E ok \in BOOLEAN : GoTo(IF ok THEN "kind" ELSE "refused")

LookAtFiles ==
    /\ Probe("kind")
    /\ GoTo(CASE RepositoryKind(repo) = "none" -> "arguments"
              [] RepositoryKind(repo) = "unsafe" -> "refused"
              [] OTHER -> "config")

SafeQuery == \/ git.command = "rev-parse" /\ git.second = "toplevel"
             \/ git.command = "show" /\ git.second = "HEAD:path"

\* Mutant of DiffNeutralized: every reflog counts as neutralized.
AnyReflogNeutralized == git.command \in {"diff", "show", "reflog"}

DiffNeutralized == \/ git.command \in {"diff", "show"}
                   \/ git.command = "reflog" /\ git.second = "show"

\* The keys git itself reports; a probe that fails, times out or answers
\* something else refuses the command.
ListConfig ==
    /\ Probe("config")
    /\ \/ GoTo("refused")
       \/ IF "core.worktree" \in repo.keys
          THEN GoTo(IF RepositoryKind(repo) = "absorbed-submodule" THEN "toplevel" ELSE "refused")
          ELSE GoTo(IF SafeQuery THEN "arguments" ELSE "keys")

CheckTopLevel ==
    /\ Probe("toplevel")
    /\ \/ GoTo("refused")
       \/ repo.worktree = "root" /\ GoTo(IF SafeQuery THEN "arguments" ELSE "keys")

JudgeKeys ==
    /\ Probe("keys")
    /\ GoTo(IF \E k \in repo.keys : IsExecutableKey(k, DiffNeutralized) THEN "refused" ELSE "index")

ListIndex ==
    /\ Probe("index")
    /\ GoTo("refused") \/ (~repo.gitlink /\ GoTo("arguments"))

\* build_hardened_git_argv: which commands get --no-ext-diff --no-textconv.
BuildArguments ==
    /\ Probe("arguments")
    /\ git' = [git EXCEPT !.pc = "run",
                  !.diffOff = \/ git.command \in {"diff", "show", "range-diff"}
                              \/ git.command = "reflog" /\ git.second \in {"show", "option"}]

RunGit == Probe("run") /\ GoTo("ran")

GitNext == \/ Prepare \/ LookAtFiles \/ ListConfig \/ CheckTopLevel \/ JudgeKeys
           \/ ListIndex \/ BuildArguments \/ RunGit

GitSpec == GitInit /\ [][GitNext]_gitVars

-----------------------------------------------------------------------------
(* Properties. *)

GitTypeOK ==
    /\ RepositoryKind(repo) \in {"directory", "linked-worktree", "absorbed-submodule",
                                "bare", "none", "unsafe"}
    /\ git.command \in Commands /\ git.second \in Seconds /\ git.diffOff \in BOOLEAN

\* What Git reads of the configuration: rev-parse starts nothing, showing a
\* file of a commit only consults the diff keys.
MayStart(k) ==
    /\ k \in ProgramKeys
    /\ git.command # "rev-parse"
    /\ git.second = "HEAD:path" /\ git.command = "show" => k \in DiffKeys

\* A command that ran could start no program named by the repository, in a
\* work tree that is the one found on disk: what the judgement of the keys
\* lets pass is exactly what the arguments switch off.
GitStartsNothingForeign ==
    git.pc = "ran" =>
        /\ \A k \in repo.keys : MayStart(k) => k \in DiffKeys /\ git.diffOff
        /\ repo.worktree = "root"
        /\ RepositoryKind(repo) # "unsafe"

=============================================================================
