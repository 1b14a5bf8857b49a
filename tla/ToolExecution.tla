--------------------------- MODULE ToolExecution ---------------------------
(***************************************************************************)
(* ToolExecutor.execute of pony/tools/executor.py and the permission rule  *)
(* of permissions.py: each caller is a runtime that executes one tool call *)
(* in the same workspace.  A call is judged, perhaps approved, and, unless *)
(* it only reads, runs inside the mutation lock between two observations   *)
(* of the workspace.  The user may edit the workspace at any time.         *)
(***************************************************************************)
EXTENDS Naturals, Permissions

CONSTANTS Callers,   \* runtimes that execute a tool
          MaxEdits   \* edits of the workspace by anybody else

NoCaller == "none"

ASSUME ToolAssumption == MaxEdits \in Nat /\ NoCaller \notin Callers

VARIABLES workspace,  \* how often it changed, by whom else, whether its root was replaced
          mutator,    \* who holds the mutation lock
          tool        \* the call of each caller

toolVars == <<workspace, mutator, tool>>

-----------------------------------------------------------------------------
(* A call. *)

NewCall == [pc |-> "request", name |-> "read_file", before |-> 0, touched |-> FALSE,
            outcome |-> "none", observed |-> FALSE, changed |-> FALSE,
            status |-> "none", primary |-> "none"]

ToolInit ==
    /\ workspace = [version |-> 0, edits |-> 0, replaced |-> FALSE]
    /\ mutator = NoCaller
    /\ tool = [e \in Callers |-> NewCall]

IsAt(e, step) == tool[e].pc = step
Observable(e) == Effect(tool[e].name) = "workspace_write"

Step(e, step) == tool' = [tool EXCEPT ![e].pc = step]
Result(e, step, s) == tool' = [tool EXCEPT ![e].pc = step, ![e].status = s, ![e].primary = s]

\* The command is assessed, the arguments are validated and the permission is
\* decided; a rejection ends the call.
RequestTool(e) ==
    /\ IsAt(e, "request")
    /\ \/ Result(e, "done", "rejected")
       \/ \E t \in Tools, decision \in {"allow", "ask"} :
             /\ \E c \in Circumstance : c.tool = t /\ PermissionDecision(c) = decision
             /\ tool' = [tool EXCEPT ![e].name = t,
                            ![e].pc = IF decision = "ask" THEN "approve"
                                      ELSE IF Effect(t) = "read_only" THEN "run" ELSE "lock"]
    /\ UNCHANGED <<workspace, mutator>>

\* The user is asked before the lock is taken.  A shell command was frozen
\* before, programs and repository included, and is looked at again after;
\* the answer may come too late.
ApproveShell(e) ==
    /\ IsAt(e, "approve") /\ tool[e].name = "run_shell"
    /\ Result(e, "done", "rejected") \/ Step(e, "lock")
    /\ UNCHANGED <<workspace, mutator>>

\* The arguments of any other tool are validated and compared again.
Approve(e) ==
    /\ IsAt(e, "approve") /\ tool[e].name # "run_shell"
    /\ \/ Result(e, "done", "rejected")
       \/ Step(e, IF Effect(tool[e].name) = "read_only" THEN "run" ELSE "lock")
    /\ UNCHANGED <<workspace, mutator>>

EnterLock(e) ==
    /\ IsAt(e, "lock")
    /\ \/ /\ mutator = NoCaller /\ mutator' = e
          /\ Step(e, IF Observable(e) THEN "before" ELSE "run")
       \/ /\ Result(e, "done", "error") /\ UNCHANGED mutator
    /\ UNCHANGED workspace

\* A replaced root rejects the call; a failed observation fails it.
ObserveBefore(e) ==
    /\ IsAt(e, "before")
    /\ IF workspace.replaced
       THEN Result(e, "leave", "rejected")
       ELSE \/ tool' = [tool EXCEPT ![e].pc = "run", ![e].before = workspace.version]
            \/ Result(e, "leave", "error")
    /\ UNCHANGED <<workspace, mutator>>

\* The runner writes while it runs ...
Touch(e) ==
    /\ IsAt(e, "run") /\ Observable(e) /\ ~tool[e].touched
    /\ workspace' = [workspace EXCEPT !.version = @ + 1]
    /\ tool' = [tool EXCEPT ![e].touched = TRUE]
    /\ UNCHANGED mutator

\* ... and ends, or is interrupted.
Outcomes(e) == {"ok", "exception", "interrupt"} \cup
               (IF tool[e].name = "run_shell" THEN {"nonzero"} ELSE {})
Unobserved(outcome) == CASE outcome = "ok" -> "ok"
                         [] outcome = "interrupt" -> "interrupted"
                         [] OTHER -> "error"

EndRun(e, outcome) ==
    /\ IsAt(e, "run")
    /\ LET now == [tool[e] EXCEPT !.outcome = outcome]
           left == [now EXCEPT !.status = Unobserved(outcome), !.primary = Unobserved(outcome),
                               !.pc = IF Effect(now.name) = "read_only" THEN "done" ELSE "leave"]
       IN  tool' = [tool EXCEPT ![e] = IF Observable(e) THEN [now EXCEPT !.pc = "after"] ELSE left]
    /\ UNCHANGED <<workspace, mutator>>

\* The second observation, and what the call is reported as.
StatusOf(outcome, changed) ==
    CASE outcome = "ok" -> "ok"
      [] outcome = "interrupt" -> "interrupted"
      [] OTHER -> IF changed THEN "partial_success" ELSE "error"

ObserveAfter(e) ==
    /\ IsAt(e, "after") /\ ~workspace.replaced
    /\ LET changed == workspace.version # tool[e].before
           s == StatusOf(tool[e].outcome, changed)
       IN  tool' = [tool EXCEPT ![e].pc = "leave", ![e].observed = TRUE, ![e].changed = changed,
                                ![e].status = s, ![e].primary = s]
    /\ UNCHANGED <<workspace, mutator>>

\* Mutant of ObservationFails: a failed observation reports what the runner returned.
ObservationIgnored(e) ==
    /\ IsAt(e, "after")
    /\ Result(e, "leave", StatusOf(tool[e].outcome, FALSE))
    /\ UNCHANGED <<workspace, mutator>>

ObservationFails(e) ==
    /\ IsAt(e, "after")
    /\ Result(e, "leave", IF tool[e].outcome = "interrupt" THEN "interrupted" ELSE "unknown")
    /\ UNCHANGED <<workspace, mutator>>

\* update_memory_after_tool, inside the lock, fails after the observation.
FinalizeFails(e) ==
    /\ IsAt(e, "leave") /\ tool[e].observed /\ tool[e].outcome \in {"ok", "nonzero"}
    /\ Result(e, "leave", IF tool[e].changed THEN "partial_success" ELSE "error")
    /\ UNCHANGED <<workspace, mutator>>

\* The end of the with-block.  If releasing the lock raises, whatever the call
\* was going to report is replaced by the failure of the release.
LeaveLock(e) ==
    /\ IsAt(e, "leave")
    /\ mutator' = NoCaller
    /\ \/ Step(e, "done")
       \/ tool' = [tool EXCEPT ![e].pc = "done",
                     ![e].status = IF tool[e].changed THEN "partial_success" ELSE "error"]
    /\ UNCHANGED workspace

Edit ==
    /\ workspace.edits < MaxEdits
    /\ workspace' = [workspace EXCEPT !.version = @ + 1, !.edits = @ + 1]
    /\ UNCHANGED <<mutator, tool>>

ReplaceRoot ==
    /\ ~workspace.replaced
    /\ workspace' = [workspace EXCEPT !.replaced = TRUE]
    /\ UNCHANGED <<mutator, tool>>

CallStep(e) ==
    \/ RequestTool(e) \/ ApproveShell(e) \/ Approve(e) \/ EnterLock(e) \/ ObserveBefore(e) \/ Touch(e)
    \/ \E outcome \in Outcomes(e) : EndRun(e, outcome)
    \/ ObserveAfter(e) \/ ObservationFails(e) \/ FinalizeFails(e) \/ LeaveLock(e)

ToolNext == Edit \/ ReplaceRoot \/ \E e \in Callers : CallStep(e)

ToolSpec == ToolInit /\ [][ToolNext]_toolVars

-----------------------------------------------------------------------------
(* Properties. *)

Done(e) == IsAt(e, "done")
Released(e) == tool[e].status = tool[e].primary

ToolTypeOK ==
    /\ workspace.edits \in 0..MaxEdits
    /\ mutator \in Callers \cup {NoCaller}
    /\ \A e \in Callers :
          /\ tool[e].name \in Tools
          /\ tool[e].status \in {"none", "rejected", "ok", "error", "partial_success",
                                 "interrupted", "unknown"}
          /\ Done(e) => tool[e].status # "none" /\ mutator # e

\* A call whose runner wrote to the workspace never reports that nothing
\* changed: it reports the change, or that the effects are unknown, unless it
\* was interrupted and could not look, or the lock could not be released.
EffectsAreReported ==
    \A e \in Callers : Done(e) /\ tool[e].touched /\ Released(e) =>
        \/ tool[e].changed
        \/ tool[e].status = "unknown"
        \/ tool[e].status = "interrupted" /\ ~tool[e].observed

\* Changes another runtime made are never attributed to a call.
EffectsAreOwn ==
    \A e \in Callers : tool[e].changed /\ workspace.edits = 0 => tool[e].touched

\* A command that failed after it changed files is a partial success, and a
\* call is successful only if it ended well and was looked at.
FailureIsTold ==
    \A e \in Callers : Done(e) /\ Released(e) =>
        /\ tool[e].status = "ok" => tool[e].outcome = "ok" /\ (Observable(e) => tool[e].observed)
        /\ tool[e].outcome \in {"nonzero", "exception"} /\ tool[e].changed =>
             tool[e].status = "partial_success"

=============================================================================
