--------------------------- MODULE CommandPolicy ---------------------------
(***************************************************************************)
(* security/command_policy.py and the permission decision it feeds.  A     *)
(* command is read character by character, by the scanner of the code and  *)
(* by the shell that would run it, side by side; characters are classes.   *)
(* Then its words, and those of the commands inside it, are looked at, and *)
(* the command is allowed, asked for or rejected, to be run as words or by *)
(* a shell.                                                                *)
(*                                                                         *)
(* The scanner does not follow a shell into everything that has a quoting  *)
(* of its own.  The inside of an expansion, a here-document, a comment (the*)
(* class "hash", a # that begins a word) or a PowerShell here-string: from *)
(* there on the shell of the model may be in any context.                  *)
(***************************************************************************)
EXTENDS Naturals, Sequences, Permissions

CONSTANTS Platforms,   \* "posix" and "windows"
          MaxLevels    \* bound: commands inside a command

ASSUME PolicyAssumption == Platforms \subseteq {"posix", "windows"} /\ MaxLevels \in Nat

VARIABLES shell,     \* the command: what the scanner and the shell make of it
          verdict    \* the assessment and the permission that follow

policyVars == <<shell, verdict>>

PosixChars == {"word", "single", "double", "backslash", "newline", "operator", "redirect", "dollar",
               "glob", "hash"}
WindowsChars == {"word", "single", "double", "backtick", "newline", "operator", "redirect", "dollar",
                 "script", "herestring"}
Chars == IF shell.platform = "posix" THEN PosixChars ELSE WindowsChars

\* A level: a command found in the one before, in a substitution or as the
\* quoted argument of a command that runs it; what its words name and what it
\* would be alone.  wrapper: sh, bash and zsh; runner: any other that runs its
\* argument, like dash or eval.
CommandHeads == {"reader", "git", "unknown", "wrapper", "runner"}
\* forbidden: outside the workspace, through a link or sensitive; unproved:
\* an option the grammar does not name or a program that is not trusted.
Operands == {"inside", "forbidden", "unproved"}
Level(via, named, head, operand) == [via |-> via, named |-> named, head |-> head, operand |-> operand]
LastLevels(via) ==
    {Level(via, "plain", head, operand) : head \in {"reader", "git"}, operand \in Operands}
    \cup {Level(via, named, "unknown", "inside") : named \in {"plain", "sensitive", "envSplit"}}
    \cup {Level(via, "plain", "wrapper", "inside")}
Outer(via, head) == Level(via, "plain", head, "inside")
Vias == {"substitution", "argument"}
Containing(via) == IF via = "argument" THEN {"wrapper", "runner"} ELSE {"reader", "unknown"}
\* The commands a command can contain, the outermost first.
Chains(n) == {[i \in 1..n |-> IF i < n THEN Outer(via[i], head[i]) ELSE l] :
                 via \in [1..n -> Vias], head \in [1..n -> CommandHeads],
                 l \in UNION {LastLevels(v) : v \in Vias}}
Nests == {chain \in UNION {Chains(n) : n \in 1..MaxLevels} :
             /\ chain[1].via = "substitution"
             /\ \A i \in 2..Len(chain) : chain[i - 1].head \in Containing(chain[i].via)}

NoFlags == [operators |-> FALSE, redirects |-> FALSE, expansion |-> FALSE, rejected |-> FALSE]
PolicyInit ==
    /\ \E p \in Platforms :
         shell = [platform |-> p, quote |-> "", escaped |-> FALSE, found |-> NoFlags, context |-> "plain",
                  acts |-> NoFlags, astray |-> "no", legible |-> 1, levels |-> <<>>, redirect |-> "none"]
    /\ verdict = [phase |-> "read", examined |-> 0, reason |-> "none", decision |-> "none",
                  mode |-> "none", on |-> "none", permission |-> "none"]

-----------------------------------------------------------------------------
(* The scanners. *)

Flag(s, name) == [s EXCEPT !.found[name] = TRUE]

\* Mutant of ScanPosix: a backslash in double quotes escapes nothing.
ScanPosixQuoted(s, c) ==
    IF s.escaped THEN IF c = "newline" THEN [Flag(s, "operators") EXCEPT !.escaped = FALSE]
                      ELSE [s EXCEPT !.escaped = FALSE]
    ELSE IF s.quote # "" THEN
         IF c = s.quote THEN [s EXCEPT !.quote = ""]
         ELSE IF s.quote = "double" /\ c = "dollar" THEN Flag(s, "expansion") ELSE s
    ELSE CASE c = "backslash" -> [s EXCEPT !.escaped = TRUE]
           [] c \in {"single", "double"} -> [s EXCEPT !.quote = c]
           [] c \in {"newline", "operator"} -> Flag(s, "operators")
           [] c = "redirect" -> Flag(Flag(s, "operators"), "redirects")
           [] c \in {"dollar", "glob"} -> Flag(s, "expansion")
           [] OTHER -> s

\* _scan_shell_syntax: a backslash before a line break counts as a new line.
ScanPosix(s, c) ==
    IF s.escaped THEN IF c = "newline" THEN [Flag(s, "operators") EXCEPT !.escaped = FALSE]
                      ELSE [s EXCEPT !.escaped = FALSE]
    ELSE IF s.quote = "single" THEN IF c = "single" THEN [s EXCEPT !.quote = ""] ELSE s
    ELSE IF s.quote = "double" THEN
         CASE c = "double" -> [s EXCEPT !.quote = ""] [] c = "backslash" -> [s EXCEPT !.escaped = TRUE]
           [] c = "dollar" -> Flag(s, "expansion") [] OTHER -> s
    ELSE CASE c = "backslash" -> [s EXCEPT !.escaped = TRUE]
           [] c \in {"single", "double"} -> [s EXCEPT !.quote = c]
           [] c \in {"newline", "operator"} -> Flag(s, "operators")
           [] c = "redirect" -> Flag(Flag(s, "operators"), "redirects")
           [] c \in {"dollar", "glob"} -> Flag(s, "expansion")
           [] OTHER -> s

\* _scan_powershell_syntax: variables, script blocks, comments and
\* expressions are rejected as soon as they are seen outside single quotes.
ScanPowershell(s, c) ==
    IF s.quote = "single" THEN IF c = "single" THEN [s EXCEPT !.quote = ""] ELSE s
    ELSE IF s.quote = "double" THEN
         CASE c = "double" -> [s EXCEPT !.quote = ""]
           [] c \in {"dollar", "backtick"} -> Flag(s, "rejected") [] OTHER -> s
    ELSE CASE c \in {"single", "double"} -> [s EXCEPT !.quote = c]
           [] c \in {"dollar", "backtick", "script"} -> Flag(s, "rejected")
           [] c \in {"newline", "operator"} -> Flag(s, "operators")
           [] c = "redirect" -> Flag(Flag(s, "operators"), "redirects")
           [] OTHER -> s

\* The shells' own quoting: what the character does there.
Acts(s, name) == [s EXCEPT !.acts[name] = TRUE]
In(s, context) == [s EXCEPT !.context = context]

\* A quoting of its own begins; the scanner has raised a flag for it, or takes
\* it for text.
Astray(s, how) == [s EXCEPT !.astray = IF @ = "no" THEN how ELSE @]

Contexts == {"plain", "single", "double", "escaped", "escapedInDouble"}

PosixShell(s, c) ==
    CASE s.context = "single" -> IF c = "single" THEN In(s, "plain") ELSE s
      [] s.context = "escaped" -> In(s, "plain")
      [] s.context = "escapedInDouble" -> In(s, "double")
      [] s.context = "double" ->
            CASE c = "double" -> In(s, "plain") [] c = "backslash" -> In(s, "escapedInDouble")
              [] c = "dollar" -> Astray(Acts(s, "expansion"), "flagged") [] OTHER -> s
      [] s.context = "plain" ->
            CASE c \in {"single", "double"} -> In(s, c)
              [] c = "backslash" -> In(s, "escaped")
              [] c \in {"newline", "operator"} -> Acts(s, "operators")
              [] c = "redirect" -> Astray(Acts(s, "redirects"), "flagged")
              [] c = "dollar" -> Astray(Acts(s, "expansion"), "flagged")
              [] c = "glob" -> Acts(s, "expansion")
              [] c = "hash" -> Astray(s, "text")
              [] OTHER -> s

Powershell(s, c) ==
    CASE s.context = "single" -> IF c = "single" THEN In(s, "plain") ELSE s
      [] s.context = "escaped" -> In(s, "plain")
      [] s.context = "escapedInDouble" -> In(s, "double")
      [] s.context = "double" ->
            CASE c = "double" -> In(s, "plain") [] c = "backtick" -> In(s, "escapedInDouble")
              [] c = "dollar" -> Acts(s, "expansion") [] OTHER -> s
      [] s.context = "plain" ->
            CASE c \in {"single", "double"} -> In(s, c)
              [] c = "backtick" -> In(s, "escaped")
              [] c \in {"newline", "operator"} -> Acts(s, "operators")
              [] c = "redirect" -> Acts(s, "redirects")
              [] c \in {"dollar", "script"} -> Acts(s, "expansion")
              [] c = "herestring" -> Astray(s, "text")
              [] OTHER -> s

\* Where the scanner believes the next character stands.
ScannerContext(s) ==
    CASE s.quote = "single" -> "single"
      [] s.quote = "double" -> IF s.escaped THEN "escapedInDouble" ELSE "double"
      [] s.quote = "" -> IF s.escaped THEN "escaped" ELSE "plain"

\* The next character of the command.  A command is legible as long as both
\* read every character in the same context.
ReadChar(c) ==
    /\ verdict.phase = "read"
    /\ LET next == IF shell.platform = "posix" THEN PosixShell(ScanPosix(shell, c), c)
                   ELSE Powershell(ScanPowershell(shell, c), c)
           legible == IF shell.context = ScannerContext(shell) THEN shell.legible ELSE 0
       IN  \E context \in IF next.astray = "no" THEN {next.context} ELSE Contexts :
             shell' = [next EXCEPT !.context = context, !.legible = legible]
    /\ UNCHANGED verdict

-----------------------------------------------------------------------------
(* The words. *)

ParseError(s) == s.quote # "" \/ s.escaped
Grammar(s) == ParseError(s) \/ s.found.operators \/ s.found.expansion

\* Where output is redirected to, if it is: to a sensitive path or elsewhere.
Redirects(s) == IF s.found.redirects THEN {"elsewhere", "sensitive"} ELSE {"none"}

\* A command contains another in a substitution where something is
\* expanded, or as the argument of one that runs it.
Embeds(s, levels) ==
    Len(levels) > 1 /\ levels[2].via = "substitution" => s.acts.expansion

\* The command is complete; its words become known, and of the quoting only
\* whether it is open.  How far the commands inside it are legible is their own
\* text's matter.
End ==
    /\ verdict.phase = "read"
    /\ \E levels \in Nests, redirect \in Redirects(shell) :
       \E legible \in shell.legible..(shell.legible * Len(levels)) :
         /\ Embeds(shell, levels)
         /\ shell' = [shell EXCEPT !.levels = levels, !.context = "plain", !.escaped = FALSE,
                                   !.quote = IF ParseError(shell) THEN "double" ELSE "",
                                   !.legible = legible, !.redirect = redirect]
    /\ verdict' = [verdict EXCEPT !.phase = "words"]

\* What a command names that is not to be named; env -S is a POSIX matter.
Revealing(s, i) ==
    /\ i <= s.legible
    /\ \/ s.levels[i].named = "sensitive"
       \/ s.levels[i].named = "envSplit" /\ s.platform = "posix"

\* The next command inside is looked into: _embedded_shell_payloads finds
\* substitutions, _shell_wrapper_payload the arguments of _SHELL_WRAPPERS.
Deeper(s, i) ==
    /\ s.platform = "posix" /\ i < s.legible /\ i < Len(s.levels)
    /\ s.levels[i].head # "runner"

Rejected(v, reason) == [v EXCEPT !.phase = "assessed", !.reason = reason, !.decision = "reject"]

\* Mutant of Examine: the argument of a shell is not looked into.
ExamineTop ==
    /\ verdict.phase = "words"
    /\ verdict' = IF Revealing(shell, 1) THEN Rejected(verdict, shell.levels[1].named)
                  ELSE [verdict EXCEPT !.phase = "assess"]
    /\ UNCHANGED shell

\* _literal_sensitive_reason, _windows_literal_reason: one command after the
\* other, those found inside one are pending.  PowerShell commands are not
\* looked into: what could hold another one was rejected by the scanner.
Examine ==
    /\ verdict.phase = "words"
    /\ LET i == verdict.examined + 1
       IN  verdict' = IF Revealing(shell, i) THEN Rejected(verdict, shell.levels[i].named)
                      ELSE [verdict EXCEPT !.examined = i,
                                           !.phase = IF Deeper(shell, i) THEN "words" ELSE "assess"]
    /\ UNCHANGED shell

-----------------------------------------------------------------------------
(* The assessment. *)

\* _automatic_grammar_reason, _path_operand_reason
OperandDecision(operand) ==
    IF operand = "forbidden" THEN "reject"
    ELSE IF operand = "unproved" THEN "ask" ELSE "allow"

\* _assess_command of a command inside a command: it matters whether it is
\* rejected, and it is looked into twice.
Nested(s) ==
    LET decision[i \in 2..(MaxLevels + 1)] ==
            IF i > 3 \/ i > Len(s.levels) \/ i > s.legible THEN "ask"
            ELSE IF s.levels[i].head = "wrapper" THEN IF decision[i + 1] = "reject" THEN "reject" ELSE "ask"
            ELSE IF s.levels[i].head \in {"reader", "git"} THEN OperandDecision(s.levels[i].operand)
            ELSE "ask"
    IN  decision[2]

\* _assess_command
AssessPosix(s) ==
    LET head == s.levels[1].head IN
    IF ParseError(s) THEN "ask"
    ELSE IF s.found.redirects THEN IF ~s.found.expansion /\ s.redirect = "sensitive" THEN "reject" ELSE "ask"
    ELSE IF Grammar(s) THEN "ask"
    ELSE IF head = "wrapper" THEN IF Nested(s) = "reject" THEN "reject" ELSE "ask"
    ELSE IF head \in {"reader", "git"} THEN OperandDecision(s.levels[1].operand)
    ELSE "ask"

\* _assess_windows_command: only git is run without asking, and a shell
\* inside the command is rejected.
AssessWindows(s) ==
    LET head == s.levels[1].head IN
    IF s.found.rejected THEN "reject"
    ELSE IF head = "wrapper" \/ ParseError(s) THEN "reject"
    ELSE IF s.found.redirects THEN IF s.redirect = "sensitive" THEN "reject" ELSE "ask"
    ELSE IF Grammar(s) THEN "ask"
    ELSE IF head = "git" THEN OperandDecision(s.levels[1].operand)
    ELSE "ask"

\* The execution mode: as words, or by a shell.  Of the heads on Windows a reader
\* is one of PowerShell's own (_windows_requires_powershell).
Mode(s) ==
    IF \/ ParseError(s) \/ s.found.operators
       \/ s.found.expansion
       \/ s.platform = "windows" /\ s.levels[1].head = "reader"
    THEN "shell" ELSE "argv"

Assess ==
    /\ verdict.phase = "assess"
    /\ verdict' = [verdict EXCEPT !.phase = "assessed", !.mode = Mode(shell),
                      !.decision = IF shell.platform = "posix" THEN AssessPosix(shell) ELSE AssessWindows(shell)]
    /\ UNCHANGED shell

\* What the permission rule still sees of the command.
Report ==
    /\ verdict.phase = "assessed"
    /\ verdict' = [verdict EXCEPT !.phase = "judge", !.examined = 0, !.reason = "none"]
    /\ shell' = [shell EXCEPT !.quote = "", !.escaped = FALSE, !.found = NoFlags, !.context = "plain",
                              !.acts = NoFlags, !.astray = "no", !.legible = 1,
                              !.levels = <<>>, !.redirect = "none"]

\* The executor: a rejected command goes no further, any other and any other
\* tool is judged by the permission rule.
Decide ==
    /\ verdict.phase = "judge"
    /\ \E c \in Circumstance :
         /\ c.tool = "run_shell" => c.harmless = (verdict.decision = "allow")
         /\ verdict' = [verdict EXCEPT !.phase = "decided", !.on = c,
                          !.permission = IF c.tool = "run_shell" /\ verdict.decision = "reject" THEN "deny"
                                         ELSE PermissionDecision(c)]
    /\ UNCHANGED shell

PolicyNext == (\E c \in Chars : ReadChar(c)) \/ End \/ Examine \/ Assess \/ Report \/ Decide
PolicySpec == PolicyInit /\ [][PolicyNext]_policyVars

-----------------------------------------------------------------------------

PolicyTypeOK ==
    /\ verdict.phase \in {"read", "words", "assess", "assessed", "judge", "decided"}
    /\ verdict.decision \in {"none", "allow", "ask", "reject"}
    /\ verdict.permission \in {"none", "allow", "ask", "deny"}
    /\ Len(shell.levels) <= MaxLevels

\* What the policy allows by itself is never given to a shell: it runs as the
\* words that were judged, of a reader inside the workspace.  A shell would have
\* read it otherwise only where a comment or a here-string hides a quote, and
\* every sensitive name it would have named stands there.
OnlyReadersUnasked ==
    verdict.phase = "assessed" /\ verdict.decision = "allow" =>
        /\ verdict.mode = "argv"
        /\ shell.levels[1].head \in {"reader", "git"} /\ shell.levels[1].operand = "inside"
        /\ shell.acts # NoFlags => shell.legible = 0
        /\ shell.legible = 0 => shell.astray = "text"
        /\ \A i \in DOMAIN shell.levels : shell.levels[i].named = "sensitive" => shell.legible = 0

\* The commands whose words the policy gets to see: what it reads as the shell
\* does, and no argument of a program that is not known to be a shell.
Shown(s) == {i \in DOMAIN s.levels : i <= s.legible /\ \A j \in 1..(i - 1) : s.levels[j].head # "runner"}

\* A sensitive path named there, in a substitution or in the argument of a shell,
\* is rejected, whatever the permissions are; one that is named out of sight is
\* at least not allowed to a shell.
SensitiveRejected ==
    /\ verdict.phase = "assessed" =>
         /\ (\E i \in Shown(shell) : shell.levels[i].named = "sensitive") => verdict.decision = "reject"
         /\ (\E i \in DOMAIN shell.levels : shell.levels[i].named = "sensitive")
              => verdict.decision # "allow" \/ verdict.mode = "argv"
    /\ verdict.phase = "decided" /\ verdict.decision = "reject" /\ verdict.on.tool = "run_shell" =>
         verdict.permission = "deny"

\* docs/security.md, "Permissions": without trust nothing runs and no rule is
\* overruled; dontAsk never asks; manual, acceptEdits and auto let through
\* what they name and nothing more; bypass needs its capability.
PermissionsFailClosed ==
    verdict.phase = "decided" =>
        LET c == verdict.on
            d == verdict.permission
            mutating == Effect(c.tool) # "read_only"
        IN  /\ d # "deny" => c.trusted /\ c.rule # "deny" /\ (mutating => ~c.readOnly)
            /\ d = "ask" => c.mode # "dontAsk"
            /\ d = "allow" /\ mutating /\ c.rule # "allow" =>
                 \/ c.mode = "bypassPermissions" /\ c.bypassAvailable /\ c.rule # "ask"
                 \/ c.mode = "plan" /\ c.tool = "write_plan"
                 \/ c.mode = "acceptEdits" /\ c.tool = "write_file"
                 \/ /\ c.mode = "auto" /\ c.tool # "write_plan"
                    /\ c.tool = "run_shell" => verdict.mode = "argv"
            /\ d = "allow" /\ mutating /\ c.mode = "plan" => c.tool = "write_plan"

=============================================================================
