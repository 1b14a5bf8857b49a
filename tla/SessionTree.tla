---------------------------- MODULE SessionTree ----------------------------
(***************************************************************************)
(* The append-only Session tree of pony/state/session_store.py as pure     *)
(* operators: the entries of a Session file, the state projected from      *)
(* them, the context a model sees, and the file each writer leaves behind. *)
(*                                                                         *)
(* A log is the sequence of complete entry lines of the file.  The id of   *)
(* an entry is its position, parent 0 is the empty parent_id, and the last *)
(* line is the active leaf.  A parent precedes its child, so a path is a   *)
(* set of positions and its order is their order.                          *)
(*                                                                         *)
(* The program replays the path of the leaf to know its state.  Ancestors  *)
(* never change, so the result of the replay is kept with the entry it     *)
(* ends in: path and state are not in the file.                            *)
(*                                                                         *)
(* Texts are abstracted to what the properties tell apart: a summary is    *)
(* the set of message entries it was generated from.                       *)
(***************************************************************************)
EXTENDS Integers, Sequences, FiniteSets

CONSTANTS
    Models,     \* models of one protocol family and endpoint
    Modes,      \* permission modes
    Texts,      \* plan texts
    Tools,      \* tools a permission rule can name
    Writers,    \* processes that write; also their runtime identity
    None        \* the empty string, an absent field

ASSUME SessionTreeAssumption ==
    /\ {"default", "auto", "plan"} \subseteq Modes
    /\ None \notin Models \cup Modes \cup Texts \cup Writers

Rules == [Tools -> {"allow", "ask", "deny", "none"}]
NoRules == [t \in Tools |-> "none"]

ASSUME RulesAssumption == None \notin Rules

MaxOf(S) == CHOOSE x \in S : \A y \in S : y <= x
MinOf(S) == CHOOSE x \in S : \A y \in S : x <= y

-----------------------------------------------------------------------------
(* Entries.  A body is an entry without its place in the tree. *)

Message(role) == [kind |-> "message", data |-> [role |-> role]]
ToolExchange == [kind |-> "tool_exchange", data |-> [role |-> "assistant"]]
\* session_info sets part of the state; None leaves a field alone.
Info(model, identity, rules) ==
    [kind |-> "session_info",
     data |-> [model |-> model, identity |-> identity, rules |-> rules]]
ModeChange(mode, pre) ==
    [kind |-> "permission_mode_change", data |-> [mode |-> mode, pre |-> pre]]
PlanArtifact(text, revision) ==
    [kind |-> "plan_artifact", data |-> [text |-> text, revision |-> revision]]
Compaction(kept, summary) ==
    [kind |-> "compaction", data |-> [kept |-> kept, summary |-> summary]]
BranchSummary(target, summary) ==
    [kind |-> "branch_summary", data |-> [target |-> target, summary |-> summary]]
RewindTo(target, reason) ==
    [kind |-> "rewind", data |-> [target |-> target, reason |-> reason]]
TaskCheckpoint(identity) ==
    [kind |-> "task_checkpoint", data |-> [identity |-> identity]]
Label == [kind |-> "label", data |-> [role |-> "none"]]
\* Marks that a request was compacted because the Provider refused its length.
ContextRecovery == [kind |-> "context_recovery", data |-> [role |-> "none"]]

RoleData == [role : {"user", "assistant", "none"}]
InfoData == [model : Models \cup {None}, identity : Writers \cup {None},
             rules : Rules \cup {None}]
ModeData == [mode : Modes, pre : Modes \cup {None}]
PlanData == [text : Texts, revision : Nat \ {0}]
CompactionData == [kept : Nat, summary : SUBSET Nat]
BranchData == [target : Nat, summary : SUBSET Nat]
RewindData == [target : Nat, reason : {"rewind", "rewrite"}]
CheckpointData == [identity : Writers]

Bodies ==
    [kind : {"message", "tool_exchange", "label", "context_recovery"}, data : RoleData]
    \cup [kind : {"session_info"}, data : InfoData]
    \cup [kind : {"permission_mode_change"}, data : ModeData]
    \cup [kind : {"plan_artifact"}, data : PlanData]
    \cup [kind : {"compaction"}, data : CompactionData]
    \cup [kind : {"branch_summary"}, data : BranchData]
    \cup [kind : {"rewind"}, data : RewindData]
    \cup [kind : {"task_checkpoint"}, data : CheckpointData]

Kinds == {"message", "tool_exchange", "label", "context_recovery",
          "session_info", "permission_mode_change", "plan_artifact", "compaction",
          "branch_summary", "rewind", "task_checkpoint"}

Data == RoleData \cup InfoData \cup ModeData \cup PlanData \cup CompactionData
        \cup BranchData \cup RewindData \cup CheckpointData

-----------------------------------------------------------------------------
(* Projection *)

\* Revision 0 means that no plan was ever saved.
States == {s \in [mode : Modes, pre : Modes \cup {None},
                  text : Texts \cup {None}, revision : Nat, rules : Rules,
                  model : Models \cup {None}, identity : Writers \cup {None},
                  checkpoint : Nat] :
              (s.revision = 0) <=> (s.text = None)}

Base == [mode |-> "default", pre |-> None, text |-> None, revision |-> 0,
         rules |-> NoRules, model |-> None, identity |-> None, checkpoint |-> 0]

\* Entering plan mode remembers the mode to return to, leaving it forgets it.
ApplyMode(state, data) ==
    LET enters == data.mode = "plan" /\ state.mode # "plan"
        leaves == data.mode # "plan" /\ state.mode = "plan"
        pre == IF data.pre = None THEN state.mode ELSE data.pre
    IN  [state EXCEPT !.mode = data.mode,
                      !.pre = IF enters THEN pre ELSE IF leaves THEN None ELSE @]

ApplyInfo(state, data) ==
    [state EXCEPT !.model = IF data.model = None THEN @ ELSE data.model,
                  !.identity = IF data.identity = None THEN @ ELSE data.identity,
                  !.rules = IF data.rules = None THEN @ ELSE data.rules]

\* The state after the entry at position i, from the state before it.
ApplyEntry(state, body, i) ==
    CASE body.kind = "permission_mode_change" -> ApplyMode(state, body.data)
      [] body.kind = "session_info" -> ApplyInfo(state, body.data)
      [] body.kind = "plan_artifact" ->
            [state EXCEPT !.text = body.data.text, !.revision = body.data.revision]
      [] body.kind = "task_checkpoint" ->
            [state EXCEPT !.checkpoint = i, !.identity = body.data.identity]
      [] OTHER -> state

StateAt(log, n) == IF n = 0 THEN Base ELSE log[n].state
PathTo(log, n) == IF n = 0 THEN {} ELSE log[n].path

Leaf(log) == Len(log)
Projection(log) == StateAt(log, Leaf(log))

Entries == [parent : Nat, kind : Kinds, data : Data,
            path : SUBSET Nat, state : States]

\* What _parse_jsonl accepts: a parent precedes its child, the path of an
\* entry leads through its parent, and every body is one of the known ones.
WellFormed(log) ==
    /\ log \in Seq(Entries)
    /\ \A i \in DOMAIN log :
        /\ [kind |-> log[i].kind, data |-> log[i].data] \in Bodies
        /\ log[i].parent < i
        /\ log[i].path = PathTo(log, log[i].parent) \cup {i}
        /\ log[i].path \subseteq 1..i

\* Mutant of Add: every append is taken for a linear one.
AddLinear(log, parent, body) ==
    LET i == Len(log) + 1
    IN  Append(log, [parent |-> parent, kind |-> body.kind, data |-> body.data,
                     path |-> PathTo(log, Leaf(log)) \cup {i},
                     state |-> ApplyEntry(StateAt(log, Leaf(log)), body, i)])

\* The file with one more line under parent.
Add(log, parent, body) ==
    LET i == Len(log) + 1
    IN  Append(log, [parent |-> parent, kind |-> body.kind, data |-> body.data,
                     path |-> PathTo(log, parent) \cup {i},
                     state |-> ApplyEntry(StateAt(log, parent), body, i)])

\* The file with one more line under its leaf, when there is one to add.
AddIf(condition, log, body) ==
    IF condition THEN Add(log, Leaf(log), body) ELSE log

-----------------------------------------------------------------------------
(* The context a model sees when n is the leaf *)

MessagesOn(log, path) == {i \in path : log[i].kind \in {"message", "tool_exchange"}}

\* The newest compaction on the path to n, if there is one.
NewestCompaction(log, n) ==
    LET compactions == {i \in PathTo(log, n) : log[i].kind = "compaction"}
    IN  {c \in compactions : \A d \in compactions : d <= c}

\* Building the context fails when the kept entry is not on the path.
KeptEntryFound(log, n) ==
    \A c \in NewestCompaction(log, n) :
        log[c].data.kept \in {i \in PathTo(log, n) : i < c}

\* The messages shown verbatim: the kept ones and those after the compaction.
Shown(log, n) ==
    {i \in MessagesOn(log, PathTo(log, n)) :
        \A c \in NewestCompaction(log, n) : log[c].data.kept <= i}

Summarised(log, n) == UNION {log[c].data.summary : c \in NewestCompaction(log, n)}

\* The first entry of the last turn among the shown ones.
LastTurnStart(log, n) ==
    MaxOf({i \in Shown(log, n) : log[i].data.role = "user"}
          \cup {MinOf(Shown(log, n))})

\* Where the kept tail of a compaction can begin: at a turn, or inside the
\* last turn when that turn alone exceeds the target.
KeepStarts(log, n) ==
    IF Cardinality(Shown(log, n)) < 2 THEN {}
    ELSE {k \in Shown(log, n) \ {MinOf(Shown(log, n))} :
            log[k].data.role = "user" \/ LastTurnStart(log, n) <= k}

\* Mutant of CompactionPlan: the summary leaves out the previous summary.
CompactionPlanAnew(log, n, kept) ==
    Compaction(kept, {i \in Shown(log, n) : i < kept})

CompactionPlan(log, n, kept) ==
    Compaction(kept, Summarised(log, n) \cup {i \in Shown(log, n) : i < kept})

\* The message entries a rewind from leaf n to target abandons.
Abandoned(log, n, target) == MessagesOn(log, {i \in PathTo(log, n) : target < i})

-----------------------------------------------------------------------------
(* What a writer leaves in the file when its append completes *)

\* Mutant of CarryBinding: the branch has the binding of its target.
CarryNothing(log, branched) == branched

\* A branch carries the Provider binding in force before it.
CarryBinding(log, branched) ==
    LET current == Projection(log).model
    IN  AddIf(current # None /\ Projection(branched).model # current,
              branched, Info(current, None, None))

RewindLog(log, target) ==
    CarryBinding(log, Add(log, target, RewindTo(target, "rewind")))

RewindWithSummaryLog(log, target, summary) ==
    LET rewound == Add(log, target, RewindTo(target, "rewind"))
    IN  CarryBinding(log,
            Add(rewound, Leaf(rewound), BranchSummary(target, summary)))

\* The messages of a turn, then the state that changed with them.
MessagesLog(log, body, identity) ==
    LET extended == Add(log, Leaf(log), body)
    IN  AddIf(Projection(log).identity # identity, extended,
              Info(None, identity, None))

RestatePermissions(log, state) ==
    AddIf(state.mode # "default", log,
          ModeChange(state.mode, IF state.mode = "plan" THEN state.pre ELSE None))

RestatePlan(log, state) ==
    AddIf(state.revision > 0, log, PlanArtifact(state.text, state.revision))

\* Mutant of RewriteLog: the permission rules are not restated.
RewriteLogWithoutRules(log) ==
    LET state == Projection(log)
        rewound == Add(log, 0, RewindTo(0, "rewrite"))
        info == Add(rewound, Leaf(rewound), Info(state.model, state.identity, None))
    IN  RestatePlan(RestatePermissions(info, state), state)

\* save(force_branch) as reset() calls it: a branch from the root that
\* restates the state without the messages and the current checkpoint.
RewriteLog(log) ==
    LET state == Projection(log)
        rewound == Add(log, 0, RewindTo(0, "rewrite"))
        info == Add(rewound, Leaf(rewound),
                    Info(state.model, state.identity, state.rules))
    IN  RestatePlan(RestatePermissions(info, state), state)

PermissionsLog(log, mode, pre, rules) ==
    LET state == Projection(log)
        changed == AddIf(mode \notin {None, state.mode}, log, ModeChange(mode, pre))
    IN  AddIf(rules # state.rules, changed, Info(None, None, rules))

\* The file a new Session starts with.
NewLog(model, identity) ==
    LET info == Add(<<>>, 0, Info(model, identity, NoRules))
    IN  RestatePermissions(info, [Base EXCEPT !.mode = "auto"])
=============================================================================
