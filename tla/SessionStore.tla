---------------------------- MODULE SessionStore ----------------------------
(***************************************************************************)
(* One Session file shared by several writers: interactive runtimes, the   *)
(* `pony session` commands and plan editors (pony/state/session_store.py). *)
(*                                                                         *)
(* Every operation reads the file, checks what its caller expects and      *)
(* appends under the Session lock, so it is one action.  What a caller     *)
(* expects was read earlier, under its own lock: seen[w] is the leaf that  *)
(* writer read, and everything it then worked out (the entries to compact, *)
(* the branch to summarise, the plan shown for approval, the binding of a  *)
(* request) is a function of the file up to that leaf.                     *)
(*                                                                         *)
(* A process may die while it writes: some prefix of the lines it was      *)
(* writing stays, the next one possibly incomplete.  Readers refuse an     *)
(* incomplete last line until it is repaired explicitly.                   *)
(***************************************************************************)
EXTENDS SessionTree

CONSTANTS
    FirstModel,     \* the binding a new Session is created with
    Creator,        \* the writer that creates it
    MaxEntries,     \* bound on the length of the file
    CanCrash,       \* whether a writer may die inside an append
    LabelOlder      \* whether `session label --entry` names an older entry

ASSUME SessionStoreAssumption ==
    /\ FirstModel \in Models
    /\ Creator \in Writers
    /\ MaxEntries \in Nat
    /\ CanCrash \in BOOLEAN
    /\ LabelOlder \in BOOLEAN

VARIABLES
    log,    \* the complete lines of the file
    torn,   \* whether an incomplete line follows them
    seen    \* the leaf each writer read last, Nothing when it holds none

vars == <<log, torn, seen>>

Nothing == -1

Init ==
    /\ log = NewLog(FirstModel, Creator)
    /\ torn = FALSE
    /\ seen = [w \in Writers |-> Nothing]

-----------------------------------------------------------------------------
(* Reading and appending *)

\* load_tree: a torn tail is refused.
Observe(w) ==
    /\ ~torn
    /\ seen[w] # Leaf(log)
    /\ seen' = [seen EXCEPT ![w] = Leaf(log)]
    /\ UNCHANGED <<log, torn>>

Holds(w) == seen[w] # Nothing
Expected(w) == seen[w] = Leaf(log)
SeenState(w) == StateAt(log, seen[w])

\* The append completes and its caller goes on with the leaf after.
Complete(w, extended, after) ==
    /\ log' = extended
    /\ seen' = [seen EXCEPT ![w] = after]
    /\ UNCHANGED torn

\* The process dies inside the append and with it what the writer had read.
Die(w, extended) ==
    /\ CanCrash
    /\ \E n \in Len(log)..Len(extended) :
        /\ log' = SubSeq(extended, 1, n)
        /\ torn' \in BOOLEAN
        /\ torn' => n < Len(extended)
    /\ seen' = [seen EXCEPT ![w] = Nothing]

Write(w, extended, after) ==
    /\ ~torn
    /\ Len(extended) <= MaxEntries
    /\ Complete(w, extended, after) \/ Die(w, extended)

-----------------------------------------------------------------------------
(* Operations *)

\* Mutant of AppendMessages: the leaf of the request is not compared.
AppendMessagesUnchecked(w, body) ==
    LET extended == MessagesLog(log, body, w)
    IN  /\ Holds(w)
        /\ Projection(log).model = SeenState(w).model
        /\ Write(w, extended, Leaf(extended))

\* append_messages with the leaf and the binding of the request.
AppendMessages(w, body) ==
    LET extended == MessagesLog(log, body, w)
    IN  /\ Expected(w)
        /\ Projection(log).model = SeenState(w).model
        /\ Write(w, extended, Leaf(extended))

\* append_messages with the same expectations and state updates only.
AppendState(w) ==
    /\ Expected(w)
    /\ Projection(log).model = SeenState(w).model
    /\ Write(w, Add(log, Leaf(log), Info(None, w, None)), Leaf(log) + 1)

\* append_messages without expectations: the message that closes a failed run.
AppendTerminal(w) == Write(w, MessagesLog(log, Message("assistant"), w), Nothing)

\* A resumed runtime records its identity, still holding what it loaded.
PersistResumed(w) ==
    /\ Holds(w)
    /\ Projection(log).identity # w
    /\ Write(w, Add(log, Leaf(log), Info(None, w, None)), seen[w])

SetProviderModel(w, model) ==
    /\ Expected(w)
    /\ Projection(log).model = SeenState(w).model
    /\ Projection(log).model \notin {None, model}
    /\ Write(w, Add(log, Leaf(log), Info(model, None, None)), Nothing)

UpdatePermissions(w, mode, tool, behavior) ==
    LET rules == IF tool = None THEN Projection(log).rules
                 ELSE [Projection(log).rules EXCEPT ![tool] = behavior]
        extended == PermissionsLog(log, mode, None, rules)
    IN  /\ extended # log
        /\ Write(w, extended, Nothing)

\* Resuming in plan mode: the mode to return to was read when the Session was
\* loaded; the change itself has no expectation.
ResumeInPlanMode(w) ==
    LET extended == PermissionsLog(log, "plan", SeenState(w).mode,
                                   Projection(log).rules)
    IN  /\ Holds(w)
        /\ SeenState(w).mode # "plan"
        /\ extended # log
        /\ Write(w, extended, Nothing)

\* Mutant of PlanLog: a revised plan keeps its revision.
PlanLogSameRevision(text) ==
    LET revision == Projection(log).revision
    IN  Add(log, Leaf(log), PlanArtifact(text, IF revision = 0 THEN 1 ELSE revision))

PlanLog(text) ==
    Add(log, Leaf(log), PlanArtifact(text, Projection(log).revision + 1))

\* The write_plan tool: set_plan_text without expectations.
WritePlan(w, text) ==
    /\ Projection(log).text # text
    /\ Write(w, PlanLog(text), seen[w])

\* `/plan open`: the editor's result replaces only the plan it was opened on.
EditPlan(w, text) ==
    /\ Expected(w)
    /\ SeenState(w).mode = "plan"
    /\ Projection(log).mode = SeenState(w).mode
    /\ Projection(log).text = SeenState(w).text
    /\ Projection(log).revision = SeenState(w).revision
    /\ Projection(log).text # text
    /\ Write(w, PlanLog(text), Nothing)

\* Mutant of ExitPlanMode: what was shown is not compared.
ExitPlanModeUnchecked(w) ==
    LET state == Projection(log)
        target == IF state.pre = None THEN "auto" ELSE state.pre
    IN  /\ state.mode = "plan"
        /\ Write(w, Add(log, Leaf(log), ModeChange(target, None)), Nothing)

\* The plan shown for approval is the one that is approved.
ExitPlanMode(w) ==
    LET state == Projection(log)
        target == IF state.pre = None THEN "auto" ELSE state.pre
    IN  /\ Expected(w)
        /\ SeenState(w).revision > 0
        /\ state.mode = "plan"
        /\ state.text = SeenState(w).text
        /\ state.revision = SeenState(w).revision
        /\ Write(w, Add(log, Leaf(log), ModeChange(target, None)), Nothing)

\* Mutant of Compact: the leaf is not compared when the summary is appended.
CompactUnchecked(w, kept) ==
    /\ Holds(w)
    /\ KeptEntryFound(log, seen[w])
    /\ kept \in KeepStarts(log, seen[w])
    /\ Write(w, Add(log, Leaf(log), CompactionPlan(log, seen[w], kept)), Leaf(log) + 1)

\* The kept tail is planned on the tree the summary was generated from.
Compact(w, kept) ==
    /\ Holds(w)
    /\ KeptEntryFound(log, seen[w])
    /\ kept \in KeepStarts(log, seen[w])
    /\ Expected(w)
    /\ Write(w, Add(log, Leaf(log), CompactionPlan(log, seen[w], kept)), Leaf(log) + 1)

MarkRecovery(w) ==
    /\ Expected(w)
    /\ Write(w, Add(log, Leaf(log), ContextRecovery), Leaf(log) + 1)

\* rewind and fork differ in the recorded reason only.
Rewind(w, target) ==
    /\ Expected(w)
    /\ Write(w, RewindLog(log, target), Nothing)

\* Mutant of RewindWithSummary: the leaf is not compared when it is appended.
RewindWithSummaryUnchecked(w, target) ==
    /\ Holds(w)
    /\ target \in PathTo(log, seen[w])
    /\ Abandoned(log, seen[w], target) # {}
    /\ Write(w, RewindWithSummaryLog(log, target, Abandoned(log, seen[w], target)),
             Nothing)

\* The summary is generated from the branch that was active when it was asked.
RewindWithSummary(w, target) ==
    /\ Holds(w)
    /\ target \in PathTo(log, seen[w])
    /\ Abandoned(log, seen[w], target) # {}
    /\ Expected(w)
    /\ Write(w, RewindWithSummaryLog(log, target, Abandoned(log, seen[w], target)),
             Nothing)

LabelEntry(w, entry) ==
    /\ entry = Leaf(log) \/ LabelOlder
    /\ Write(w, Add(log, entry, Label), Nothing)

AppendTaskCheckpoint(w) ==
    Write(w, Add(log, Leaf(log), TaskCheckpoint(w)), Nothing)

Reset(w) ==
    /\ Expected(w)
    /\ Write(w, RewriteLog(log), Nothing)

\* Mutant of RepairTail: the line before the incomplete one goes with it.
RepairTailDropsLine ==
    /\ torn
    /\ torn' = FALSE
    /\ log' = SubSeq(log, 1, Len(log) - 1)
    /\ UNCHANGED seen

\* repair_tail drops the incomplete line and nothing else.
RepairTail ==
    /\ torn
    /\ torn' = FALSE
    /\ UNCHANGED <<log, seen>>

\* A guarded operation that finds another leaf raises; the caller starts over.
Refuse(w) ==
    /\ ~torn
    /\ Holds(w)
    /\ ~Expected(w)
    /\ seen' = [seen EXCEPT ![w] = Nothing]
    /\ UNCHANGED <<log, torn>>

TurnBodies == {Message("user"), Message("assistant"), ToolExchange}

WriterStep(w) ==
    \/ Observe(w)
    \/ Refuse(w)
    \/ \E body \in TurnBodies : AppendMessages(w, body)
    \/ AppendState(w)
    \/ AppendTerminal(w)
    \/ PersistResumed(w)
    \/ \E model \in Models : SetProviderModel(w, model)
    \/ \E mode \in Modes : UpdatePermissions(w, mode, None, "none")
    \/ \E tool \in Tools, behavior \in {"allow", "ask", "deny", "none"} :
        \E mode \in Modes \cup {None} : UpdatePermissions(w, mode, tool, behavior)
    \/ ResumeInPlanMode(w)
    \/ \E text \in Texts : WritePlan(w, text)
    \/ \E text \in Texts : EditPlan(w, text)
    \/ ExitPlanMode(w)
    \/ \E kept \in 1..Leaf(log) : Compact(w, kept)
    \/ MarkRecovery(w)
    \/ \E target \in 0..Leaf(log) : Rewind(w, target)
    \/ \E target \in 1..Leaf(log) : RewindWithSummary(w, target)
    \/ \E entry \in 1..Leaf(log) : LabelEntry(w, entry)
    \/ AppendTaskCheckpoint(w)
    \/ Reset(w)

Next == RepairTail \/ \E w \in Writers : WriterStep(w)

Spec == Init /\ [][Next]_vars
-----------------------------------------------------------------------------
(* Properties *)

\* The file, the state it projects to and what each writer holds are well
\* formed: every parent precedes its child, every path leads through the
\* parent, every expectation names a leaf the file really had.
TypeOK ==
    /\ WellFormed(log)
    /\ torn \in BOOLEAN
    /\ seen \in [Writers -> -1..Len(log)]

\* Building the context never fails because the first kept entry of the newest
\* compaction left the active path, whatever was rewound while the summary
\* was being generated (context_view_from_tree).
KeptEntryOnPath == KeptEntryFound(log, Leaf(log))

\* No message of the active branch is lost to the model: each one is shown
\* verbatim or was an input of the newest summary, across repeated
\* compactions, rewinds to before them and concurrent appends.
NothingForgotten ==
    MessagesOn(log, PathTo(log, Leaf(log)))
        \subseteq Shown(log, Leaf(log)) \cup Summarised(log, Leaf(log))

\* A branch summary speaks of exactly the messages its rewind abandoned,
\* although it was generated before the rewind was appended
\* (prepare_branch_summary, rewind_with_summary).
BranchSummaryComplete ==
    \A b \in DOMAIN log :
        log[b].kind = "branch_summary" =>
            log[b].data.summary = MessagesOn(log, PathTo(log, b - 2))
                                  \ PathTo(log, log[b].data.target)

\* On one branch a plan revision names one text: an approval that compares
\* revision and text cannot confuse two plans (set_plan_text).
PlanRevisionNamesOneText ==
    \A i, j \in {k \in PathTo(log, Leaf(log)) : log[k].kind = "plan_artifact"} :
        log[i].data.revision = log[j].data.revision =>
            log[i].data.text = log[j].data.text

\* A complete line is never rewritten or dropped, and nothing is appended
\* behind an incomplete one.
AppendOnly ==
    [][/\ Len(log) <= Len(log')
       /\ SubSeq(log', 1, Len(log)) = log
       /\ torn => log' = log]_vars

\* Only the model writer changes the model the Session is bound to; every
\* other entry, rewinds and resets included, leaves it alone.
BindingOnlyByWriter ==
    [][Projection(log').model # Projection(log).model =>
        \E w \in Writers, model \in Models : SetProviderModel(w, model)]_vars

\* What a reset must carry to its new branch.
Controls(state) == <<state.mode, state.pre, state.text, state.revision,
                     state.rules, state.model>>

\* A reset drops the conversation and keeps mode, rules, plan and model.
ResetKeepsControls ==
    [][(/\ Len(log') > Len(log)
        /\ log'[Len(log) + 1].kind = "rewind"
        /\ log'[Len(log) + 1].data.reason = "rewrite") =>
            Controls(Projection(log')) = Controls(Projection(log))]_vars

\* A change to plan mode remembers the mode in force just before it.
PlanFreezesPreviousMode ==
    [][(/\ Projection(log).mode # "plan"
        /\ Projection(log').mode = "plan"
        /\ log'[Len(log) + 1].parent = Leaf(log)) =>
            Projection(log').pre = Projection(log).mode]_vars
=============================================================================
