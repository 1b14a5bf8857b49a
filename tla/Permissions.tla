---------------------------- MODULE Permissions ----------------------------
(***************************************************************************)
(* The permission rule of pony/tools/permissions.py and what the executor  *)
(* gives it: whether a tool call runs, asks, or is denied.                 *)
(***************************************************************************)

Modes == {"default", "acceptEdits", "auto", "bypassPermissions", "plan", "dontAsk"}
Tools == {"read_file", "write_file", "run_shell", "memory_save", "write_plan"}
Effect(t) == CASE t = "read_file" -> "read_only"
               [] t \in {"write_file", "run_shell"} -> "workspace_write"
               [] t = "memory_save" -> "memory_write"
               [] t = "write_plan" -> "session_state"
Rules == {"none", "allow", "ask", "deny"}

(* A circumstance is everything the decision reads. *)

Circumstance == [tool : Tools, mode : Modes, trusted : BOOLEAN, rule : Rules,
                 bypassAvailable : BOOLEAN, readOnly : BOOLEAN, harmless : BOOLEAN]

\* Mutant of DecidePermission: a rule that allows is looked at before the plan mode.
DecideRulesFirst(c) ==
    LET mutating == Effect(c.tool) # "read_only"
        autoAllow == c.tool \in {"write_file", "memory_save"} \/ (c.tool = "run_shell" /\ c.harmless)
    IN  IF ~c.trusted \/ c.rule = "deny" THEN "deny"
        ELSE IF c.rule = "allow" THEN "allow"
        ELSE IF c.mode = "plan" /\ mutating THEN IF c.tool = "write_plan" THEN "allow" ELSE "ask"
        ELSE IF c.rule = "ask" THEN IF c.mode = "dontAsk" THEN "deny" ELSE "ask"
        ELSE IF ~mutating \/ c.mode = "bypassPermissions" THEN "allow"
        ELSE IF c.mode = "auto" THEN IF autoAllow THEN "allow" ELSE "deny"
        ELSE IF c.mode = "acceptEdits" /\ c.tool = "write_file" THEN "allow"
        ELSE IF c.mode = "dontAsk" THEN "deny" ELSE "ask"

\* decide_permission
DecidePermission(c) ==
    LET mutating == Effect(c.tool) # "read_only"
        autoAllow == c.tool \in {"write_file", "memory_save"} \/ (c.tool = "run_shell" /\ c.harmless)
    IN  IF ~c.trusted \/ c.rule = "deny" THEN "deny"
        ELSE IF c.mode = "plan" /\ mutating THEN IF c.tool = "write_plan" THEN "allow" ELSE "ask"
        ELSE IF c.rule = "allow" THEN "allow"
        ELSE IF c.rule = "ask" THEN IF c.mode = "dontAsk" THEN "deny" ELSE "ask"
        ELSE IF ~mutating \/ c.mode = "bypassPermissions" THEN "allow"
        ELSE IF c.mode = "auto" THEN IF autoAllow THEN "allow" ELSE "deny"
        ELSE IF c.mode = "acceptEdits" /\ c.tool = "write_file" THEN "allow"
        ELSE IF c.mode = "dontAsk" THEN "deny" ELSE "ask"

\* _permission_decision: the capability and the read-only runtime come first.
PermissionDecision(c) ==
    IF \/ c.mode = "bypassPermissions" /\ ~c.bypassAvailable
       \/ c.readOnly /\ Effect(c.tool) # "read_only"
    THEN "deny" ELSE DecidePermission(c)

=============================================================================
