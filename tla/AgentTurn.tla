----------------------------- MODULE AgentTurn -----------------------------
(***************************************************************************)
(* Interactive runtimes that run agent turns on one Session file           *)
(* (pony/agent/loop.py), next to each other and to outsiders that use      *)
(* `pony session` commands and plan editors on it.                         *)
(*                                                                         *)
(* A turn appends the user's message, asks the model until it answers, and *)
(* closes with one assistant message and a task checkpoint.  Between two   *)
(* reads of the file anything may be appended to it, so a runtime guards   *)
(* its requests with the leaf it read: seen[r] is the session_guard of     *)
(* loop.py, and a runtime that finds another leaf or another model than    *)
(* its own stops and writes no more messages (blocked).                    *)
(*                                                                         *)
(* What is appended and when is the business of SessionStore: every step   *)
(* here is one of its steps or leaves the file alone (StoreSpec).          *)
(***************************************************************************)
EXTENDS SessionStore

CONSTANTS
    Runtimes,       \* the writers that run agent turns; the others are outsiders
    MaxSteps,       \* max_steps: tool steps per turn
    MaxTurns,       \* bound on the turns of each runtime
    MaxCommands,    \* bound on the commands given outside turns
    Replies         \* the kinds of reply a model gives

ASSUME AgentTurnAssumption ==
    /\ Runtimes \subseteq Writers
    /\ MaxSteps \in Nat \ {0}
    /\ MaxTurns \in Nat
    /\ MaxCommands \in Nat
    /\ Replies \subseteq {"final", "malformed", "host", "rejected",
                          "write_plan", "exit_plan"}
    /\ ~CanCrash

VARIABLES
    turn,       \* what each runtime keeps in memory
    author,     \* who appended each line of the file
    responses,  \* what the models answered and where it was appended
    commands    \* how many commands were given

agentVars == <<vars, turn, author, responses, commands>>

MaxAttempts == MaxOf({MaxSteps * 3, MaxSteps + 4})
MaxRetries == 2         \* _MODEL_RETRY_DELAYS
MaxCompactions == 2     \* compactions before one request

SessionTools == {"write_plan", "exit_plan"}
SessionReplies == SessionTools \cup {"rejected_session_tool"}

\* A runtime that waits for its user: client is the model of its client,
\* memory the entry whose state is in agent.session, frozen the mode its
\* tools are judged by, basis the leaf the last request was sent with.  Since
\* the last message of the user, cut says, Ctrl-C or an error broke the turn off.
NewTurn == [phase |-> "idle", number |-> 0, steps |-> 0, attempts |-> 0,
            retries |-> 0, compactions |-> 0, malformed |-> FALSE,
            corrected |-> FALSE, recovered |-> FALSE, reply |-> "none",
            basis |-> 0, client |-> FirstModel, memory |-> 0,
            frozen |-> "default", unrecorded |-> FALSE, unknown |-> FALSE,
            cut |-> FALSE, blocked |-> FALSE]

AgentInit ==
    /\ Init
    /\ turn = [r \in Runtimes |-> [NewTurn EXCEPT !.memory = Leaf(log)]]
    /\ author = [i \in 1..Len(log) |-> Creator]
    /\ responses = {}
    /\ commands = 0

-----------------------------------------------------------------------------
(* The guard *)

In(r, phase) == turn[r].phase = phase
Become(r, new) == turn' = [turn EXCEPT ![r] = new]
Go(r, phase) == Become(r, [turn[r] EXCEPT !.phase = phase])

\* Mutant of BoundToClient: the model of the client is not compared.
BoundToAnyModel(r) == Projection(log).model \in Models

\* Reading the Session for the guard; refused when another model is bound.
BoundToClient(r) == Projection(log).model = turn[r].client
Recapture(r) ==
    /\ ~torn
    /\ seen' = [seen EXCEPT ![r] = Leaf(log)]
    /\ UNCHANGED <<log, torn>>

GuardHolds(r) == Expected(r) /\ BoundToClient(r)

\* Where the response that is appended next goes and what it answers.
Response(r) == [at |-> Leaf(log) + 1, basis |-> turn[r].basis, by |-> r,
                model |-> turn[r].client, reply |-> turn[r].reply]

Respond(r, answered) ==
    responses' = IF answered THEN responses \cup {Response(r)} ELSE responses

-----------------------------------------------------------------------------
(* A turn *)

\* begin_permission_turn takes the mode of agent.session, then the guard of
\* the user's message is read.
StartTurn(r) ==
    LET started == [NewTurn EXCEPT !.phase = "prompt",
                                   !.number = turn[r].number + 1,
                                   !.client = turn[r].client,
                                   !.memory = turn[r].memory,
                                   !.cut = turn[r].cut,
                                   !.frozen = StateAt(log, turn[r].memory).mode]
    IN  /\ In(r, "idle")
        /\ ~turn[r].blocked
        /\ turn[r].number < MaxTurns
        /\ BoundToClient(r)
        /\ Recapture(r)
        /\ Become(r, started)
        /\ UNCHANGED responses

\* A turn does not start on a Session that is bound to another model.
RefuseTurn(r) ==
    /\ In(r, "idle")
    /\ ~turn[r].blocked
    /\ turn[r].number < MaxTurns
    /\ ~BoundToClient(r)
    /\ Become(r, [turn[r] EXCEPT !.blocked = TRUE])
    /\ UNCHANGED <<vars, responses>>

\* Mutant of CommitPrompt: the user's message is appended without a guard.
CommitPromptUnguarded(r) ==
    /\ In(r, "prompt")
    /\ LET extended == MessagesLog(log, Message("user"), r)
       IN  Write(r, extended, Leaf(extended))
    /\ Become(r, [turn[r] EXCEPT !.phase = "attempt", !.cut = FALSE])
    /\ UNCHANGED responses

CommitPrompt(r) ==
    /\ In(r, "prompt")
    /\ AppendMessages(r, Message("user"))
    /\ Become(r, [turn[r] EXCEPT !.phase = "attempt", !.cut = FALSE])
    /\ UNCHANGED responses

\* Mutant of HasBudget: one step too many.
HasBudgetOffByOne(r) ==
    turn[r].steps <= MaxSteps /\ turn[r].attempts < MaxAttempts

HasBudget(r) == turn[r].steps < MaxSteps /\ turn[r].attempts < MaxAttempts

\* The head of the loop: the guard of the next request, or the closing
\* message once the budget of steps or attempts is spent.
NextAttempt(r) ==
    /\ In(r, "attempt")
    /\ UNCHANGED responses
    /\ IF HasBudget(r)
       THEN /\ BoundToClient(r)
            /\ Recapture(r)
            /\ Become(r, [turn[r] EXCEPT !.phase = "build", !.compactions = 0,
                                         !.attempts = @ + 1])
       ELSE Go(r, "final") /\ UNCHANGED vars

\* The request fits the budget; what it recalled is committed when it
\* recalled anything.
BuildRequest(r) ==
    /\ In(r, "build")
    /\ AppendState(r) \/ UNCHANGED vars
    /\ Go(r, "send")
    /\ UNCHANGED responses

\* Mutant of ExceedBudget: compactions are not counted.
ExceedBudgetUncounted(r) ==
    /\ In(r, "build")
    /\ IF turn[r].compactions < MaxCompactions /\ Expected(r)
       THEN Go(r, "compact")
       ELSE Go(r, "terminal")
    /\ UNCHANGED <<vars, responses>>

\* It does not fit: up to two compactions, then the turn fails.  It also
\* fails when the leaf is not the guard's when the compaction begins.
ExceedBudget(r) ==
    /\ In(r, "build")
    /\ IF turn[r].compactions < MaxCompactions /\ Expected(r)
       THEN Become(r, [turn[r] EXCEPT !.phase = "compact", !.compactions = @ + 1])
       ELSE Go(r, "terminal")
    /\ UNCHANGED <<vars, responses>>

CompactRequest(r) ==
    /\ In(r, "compact")
    /\ \E kept \in 1..Leaf(log) : Compact(r, kept)
    /\ Go(r, "build")
    /\ UNCHANGED responses

\* Nothing to gain sends the loop to its next try; a failed summary or a leaf
\* that changed while it was generated fails the turn.
FailToCompact(r) ==
    /\ In(r, "compact")
    /\ \E next \in {"build", "terminal"} : Go(r, next)
    /\ UNCHANGED <<vars, responses>>

SendRequest(r) ==
    /\ In(r, "send")
    /\ GuardHolds(r)
    /\ Become(r, [turn[r] EXCEPT !.phase = "call", !.basis = seen[r]])
    /\ UNCHANGED <<vars, responses>>

ReceiveReply(r) ==
    /\ In(r, "call")
    /\ \E reply \in Replies :
        Become(r, [turn[r] EXCEPT !.phase = "received", !.reply = reply])
    /\ UNCHANGED <<vars, responses>>

\* A retryable transport error is retried after a delay, twice in a row.
RetryTransport(r) ==
    /\ In(r, "call")
    /\ turn[r].retries < MaxRetries
    /\ turn[r].attempts < MaxAttempts
    /\ Become(r, [turn[r] EXCEPT !.phase = "attempt", !.retries = @ + 1])
    /\ UNCHANGED <<vars, responses>>

\* Any other error, one too many, a failed recovery: the turn closes.
FailModel(r) ==
    /\ turn[r].phase \in {"call", "recover"}
    /\ Go(r, "terminal")
    /\ UNCHANGED <<vars, responses>>

\* The Provider found the request too long.  Once per turn it is compacted.
RefuseLength(r) ==
    /\ In(r, "call")
    /\ ~turn[r].recovered
    /\ turn[r].attempts < MaxAttempts
    /\ Expected(r)
    /\ Go(r, "recover")
    /\ UNCHANGED <<vars, responses>>

RecoverLength(r) ==
    /\ In(r, "recover")
    /\ \E kept \in 1..Leaf(log) : Compact(r, kept)
    /\ Go(r, "mark")
    /\ UNCHANGED responses

MarkRecovered(r) ==
    /\ In(r, "mark")
    /\ IF Expected(r)
       THEN /\ MarkRecovery(r)
            /\ Become(r, [turn[r] EXCEPT !.phase = "attempt", !.recovered = TRUE])
       ELSE Go(r, "terminal") /\ UNCHANGED vars
    /\ UNCHANGED responses

\* Mutant of ActOnReply: a malformed reply is asked for again without an attempt.
ActOnReplyUncounted(r) ==
    /\ In(r, "received")
    /\ GuardHolds(r)
    /\ Go(r, CASE turn[r].reply = "final" -> "final"
               [] turn[r].reply = "malformed" -> "send"
               [] OTHER -> "tool")
    /\ UNCHANGED <<vars, responses>>

\* The guard is validated once more before the reply is acted on.  A malformed
\* reply is asked for once more, unless part of it was already shown.
ActOnReply(r) ==
    LET accepted == [turn[r] EXCEPT !.retries = 0]
    IN  /\ In(r, "received")
        /\ GuardHolds(r)
        /\ CASE turn[r].reply = "final" -> Become(r, [accepted EXCEPT !.phase = "final"])
             [] turn[r].reply = "malformed" ->
                    \E next \in IF turn[r].malformed THEN {"final"} ELSE {"attempt", "final"} :
                        Become(r, [accepted EXCEPT !.phase = next, !.malformed = TRUE])
             [] OTHER -> Become(r, [accepted EXCEPT !.phase = "tool"])
        /\ UNCHANGED <<vars, responses>>

\* Mutant of RunHostTool: a call whose effects are unknown is not recorded.
RunHostToolUnrecorded(r) ==
    /\ In(r, "tool")
    /\ turn[r].reply = "host"
    /\ \E unknown \in BOOLEAN :
        Become(r, [turn[r] EXCEPT !.phase = IF unknown THEN "final" ELSE "record",
                                  !.unrecorded = TRUE])
    /\ UNCHANGED <<vars, responses>>

\* A tool of the host runs; whether its effects are known is found out.
RunHostTool(r) ==
    /\ In(r, "tool")
    /\ turn[r].reply = "host"
    /\ \E unknown \in BOOLEAN :
        Become(r, [turn[r] EXCEPT !.phase = "record", !.unrecorded = TRUE,
                                  !.unknown = unknown])
    /\ UNCHANGED <<vars, responses>>

\* A call that is rejected before it runs.  The guard of a rejected session
\* tool is read again like that of a successful one.
RejectTool(r) ==
    /\ In(r, "tool")
    /\ turn[r].reply \in {"rejected"} \cup SessionTools
    /\ Become(r, [turn[r] EXCEPT
            !.phase = IF turn[r].reply = "rejected" THEN "record" ELSE "advance",
            !.reply = IF @ = "rejected" THEN @ ELSE "rejected_session_tool"])
    /\ UNCHANGED <<vars, responses>>

\* _write_plan: judged by the mode of the turn; an unchanged text writes
\* nothing, a new one is read back with everything else in the file.
RunWritePlan(r) ==
    /\ In(r, "tool")
    /\ turn[r].reply = "write_plan"
    /\ turn[r].frozen = "plan"
    /\ \E text \in Texts :
        IF Projection(log).text = text
        THEN Go(r, "advance") /\ UNCHANGED vars
        ELSE /\ WritePlan(r, text)
             /\ Become(r, [turn[r] EXCEPT !.phase = "advance", !.memory = Leaf(log')])
    /\ UNCHANGED responses

PlanState(state) == <<state.mode, state.text, state.revision, state.pre>>

\* _prepare_exit_plan_tool: the plan to approve is the one in memory, when
\* the file agrees with it.
ShowPlan(r) ==
    LET memory == StateAt(log, turn[r].memory)
    IN  /\ In(r, "tool")
        /\ turn[r].reply = "exit_plan"
        /\ turn[r].frozen = "plan"
        /\ IF PlanState(memory) = PlanState(Projection(log)) /\ memory.revision > 0
           THEN Recapture(r) /\ Go(r, "approve")
           ELSE /\ Become(r, [turn[r] EXCEPT
                        !.phase = "advance",
                        !.reply = "rejected_session_tool",
                        !.memory = IF PlanState(memory) = PlanState(Projection(log))
                                   THEN @ ELSE Leaf(log)])
                /\ UNCHANGED vars
        /\ UNCHANGED responses

\* The user approved.  The turn goes on in the mode that was restored.
ApprovePlan(r) ==
    /\ In(r, "approve")
    /\ ExitPlanMode(r)
    /\ Become(r, [turn[r] EXCEPT !.phase = "advance", !.memory = Leaf(log'),
                                 !.frozen = Projection(log').mode])
    /\ UNCHANGED responses

DeclinePlan(r) ==
    /\ In(r, "approve")
    /\ Become(r, [turn[r] EXCEPT !.phase = "advance", !.reply = "rejected_session_tool"])
    /\ UNCHANGED <<vars, responses>>

\* The user approved what the file no longer says: the tool fails.
RefuseApproval(r) ==
    /\ In(r, "approve")
    /\ ~Expected(r)
    /\ Become(r, [turn[r] EXCEPT !.phase = "advance", !.memory = Leaf(log)])
    /\ UNCHANGED <<vars, responses>>

\* _advance_session_guard_after_session_tool: whatever leaf the file has now
\* becomes the guard's; only the model is compared.
AdvanceGuard(r) ==
    /\ In(r, "advance")
    /\ BoundToClient(r)
    /\ Recapture(r)
    /\ Go(r, "record")
    /\ UNCHANGED responses

\* Where the loop goes after a tool: a call whose effects are unknown and the
\* second rejection of one kind close the turn.
AfterTool(t) ==
    IF t.unknown THEN {[t EXCEPT !.phase = "final"]}
    ELSE IF t.reply \in {"rejected", "rejected_session_tool"}
    THEN {[t EXCEPT !.phase = "attempt"],
          [t EXCEPT !.phase = IF t.corrected THEN "final" ELSE "attempt",
                    !.corrected = TRUE]}
    ELSE {[t EXCEPT !.phase = "attempt", !.steps = @ + 1]}

\* The call and its result are appended as one entry.
RecordTool(r) ==
    /\ In(r, "record")
    /\ AppendMessages(r, ToolExchange)
    /\ \E after \in AfterTool(turn[r]) :
        Become(r, [after EXCEPT !.unrecorded = FALSE, !.unknown = FALSE])
    /\ Respond(r, TRUE)

\* Mutant of CommitFinal: the turn is closed again when it is finalized.
CommitFinalTwice(r) ==
    /\ In(r, "final")
    /\ AppendMessages(r, Message("assistant"))
    /\ Go(r, "terminal")
    /\ Respond(r, turn[r].reply = "final")

\* The closing message: the model's answer, or why there is none.
CommitFinal(r) ==
    /\ In(r, "final")
    /\ AppendMessages(r, Message("assistant"))
    /\ Go(r, "checkpoint")
    /\ Respond(r, turn[r].reply = "final")

\* Mutant of CommitTerminal: a blocked runtime closes its turn.
CommitTerminalBlocked(r) ==
    /\ In(r, "terminal")
    /\ AppendTerminal(r)
    /\ Go(r, "checkpoint")
    /\ UNCHANGED responses

\* The closing message of a turn that failed has no guard, and neither has
\* the task checkpoint.  A blocked runtime writes neither.
CommitTerminal(r) ==
    /\ In(r, "terminal")
    /\ IF turn[r].blocked THEN UNCHANGED vars ELSE AppendTerminal(r)
    /\ Go(r, "checkpoint")
    /\ UNCHANGED responses

CommitCheckpoint(r) ==
    /\ In(r, "checkpoint")
    /\ IF turn[r].blocked THEN UNCHANGED vars ELSE AppendTaskCheckpoint(r)
    /\ Become(r, [turn[r] EXCEPT !.phase = "idle", !.reply = "none", !.basis = 0])
    /\ UNCHANGED responses

\* A guard that is read compares the model; one that is validated or used to
\* append compares the leaf as well.
ChangeFound(r) ==
    \/ In(r, "attempt") /\ HasBudget(r) /\ ~BoundToClient(r)
    \/ In(r, "advance") /\ ~BoundToClient(r)
    \/ /\ turn[r].phase \in {"prompt", "build", "send", "received", "record", "final"}
       /\ ~GuardHolds(r)

\* The runtime that finds the Session changed is blocked; the turn is
\* finalized once its first message is in the file.
FindChange(r) ==
    /\ ChangeFound(r)
    /\ Become(r, [turn[r] EXCEPT !.phase = IF @ = "prompt" THEN "idle" ELSE "terminal",
                                 !.blocked = TRUE])
    /\ UNCHANGED <<vars, responses>>

-----------------------------------------------------------------------------
(* What breaks a turn off: Ctrl-C, which can come between any two lines, and *)
(* errors of the disk, when a file is read, appended to or replaced.  An     *)
(* append that raises leaves the file as it was, or, when what comes after   *)
(* the write raises, with the line in it.                                    *)

\* What is left of a turn whose loop is gone.
Broken(t, phase) ==
    [NewTurn EXCEPT !.phase = phase, !.number = t.number, !.client = t.client,
                    !.memory = t.memory, !.frozen = t.frozen,
                    !.unrecorded = t.unrecorded, !.cut = TRUE, !.blocked = t.blocked]

\* The phases inside the try of _run.
Looping == {"attempt", "build", "compact", "send", "call", "recover", "mark", "received",
            "tool", "approve", "advance", "record", "final"}

\* The user's message is appended before the try: nothing closes such a turn.
BreakPrompt(r) ==
    /\ In(r, "prompt")
    /\ AppendMessages(r, Message("user")) \/ UNCHANGED vars
    /\ Become(r, Broken(turn[r], "idle"))
    /\ UNCHANGED responses

\* The turn is closed with the reason, unless the error is one of a file of the
\* run that may have been replaced all the same (primary_exception.committed).
\* A tool that was running may have done part of its work.
BreakLoop(r) ==
    /\ turn[r].phase \in Looping
    /\ \E next \in {"terminal", "checkpoint"} :
        Become(r, [Broken(turn[r], next) EXCEPT
            !.unrecorded = @ \/ (In(r, "tool") /\ turn[r].reply = "host")])
    /\ UNCHANGED <<vars, responses>>

\* The answer is in the file, and the turn is closed a second time: the append
\* is inside the try.
BreakFinal(r) ==
    /\ In(r, "final")
    /\ AppendMessages(r, Message("assistant"))
    /\ Become(r, Broken(turn[r], "terminal"))
    /\ Respond(r, turn[r].reply = "final")

\* _finalize_run goes on when a step of it raises (attempt), and ends on Ctrl-C.
BreakClosing(r) ==
    /\ turn[r].phase \in {"terminal", "checkpoint"}
    /\ \/ In(r, "terminal") /\ Become(r, Broken(turn[r], "checkpoint"))
       \/ Become(r, [Broken(turn[r], "idle") EXCEPT !.cut = turn[r].cut \/ In(r, "terminal")])
    /\ UNCHANGED <<vars, responses>>

Break(r) == BreakPrompt(r) \/ BreakLoop(r) \/ BreakFinal(r) \/ BreakClosing(r)

-----------------------------------------------------------------------------
(* The steps of a turn *)

\* One request, its answer and what becomes of it.
AnswerStep(r) ==
    \/ CommitPrompt(r)
    \/ NextAttempt(r)
    \/ BuildRequest(r)
    \/ SendRequest(r)
    \/ ReceiveReply(r)
    \/ FailModel(r)
    \/ ActOnReply(r)
    \/ RunHostTool(r)
    \/ RejectTool(r)
    \/ RecordTool(r)
    \/ CommitFinal(r)
    \/ CommitTerminal(r)
    \/ CommitCheckpoint(r)
    \/ FindChange(r)

PlanStep(r) ==
    \/ RunWritePlan(r)
    \/ ShowPlan(r)
    \/ ApprovePlan(r)
    \/ DeclinePlan(r)
    \/ RefuseApproval(r)
    \/ AdvanceGuard(r)

\* A request that is sent again, or made shorter first.
RetryStep(r) ==
    \/ RetryTransport(r)
    \/ ExceedBudget(r)
    \/ CompactRequest(r)
    \/ FailToCompact(r)
    \/ RefuseLength(r)
    \/ RecoverLength(r)
    \/ MarkRecovered(r)

TurnStep(r) == AnswerStep(r) \/ PlanStep(r) \/ RetryStep(r)

-----------------------------------------------------------------------------
(* Commands *)

\* set_model: agent.session and the file must agree on the model, and another
\* one is asked for.
StartSwitch(r) ==
    /\ In(r, "idle")
    /\ Models # {turn[r].client}
    /\ StateAt(log, turn[r].memory).model = Projection(log).model
    /\ Recapture(r)
    /\ Go(r, "switch")

SwitchModel(r) ==
    /\ In(r, "switch")
    /\ \E model \in Models :
        /\ SetProviderModel(r, model)
        /\ Become(r, [turn[r] EXCEPT !.phase = "idle", !.client = model,
                                     !.memory = Leaf(log')])

RefuseSwitch(r) ==
    /\ In(r, "switch")
    /\ ~Expected(r)
    /\ Go(r, "idle")
    /\ UNCHANGED vars

\* update_permissions, followed by a reload of agent.session.
ChangeMode(r) ==
    /\ In(r, "idle")
    /\ \E mode \in Modes : UpdatePermissions(r, mode, None, "none")
    /\ Become(r, [turn[r] EXCEPT !.memory = Leaf(log')])

\* The Session is resumed by a new process: its client is built for the model
\* in the file, and its identity is recorded when it is another.  A Session
\* that is bound to no model is refused.
Reopen(r) ==
    /\ In(r, "idle")
    /\ turn[r].blocked
    /\ Projection(log).model # None
    /\ Recapture(r)
    /\ Become(r, [NewTurn EXCEPT !.phase = "resume", !.memory = Leaf(log), !.cut = turn[r].cut,
                                 !.client = Projection(log).model])

PersistIdentity(r) ==
    /\ In(r, "resume")
    /\ IF Projection(log).identity = r THEN UNCHANGED vars ELSE PersistResumed(r)
    /\ Go(r, "idle")

GiveCommand(r) ==
    /\ commands < MaxCommands
    /\ commands' = commands + 1
    /\ StartSwitch(r) \/ ChangeMode(r) \/ Reopen(r)
    /\ UNCHANGED responses

FinishCommand(r) ==
    /\ SwitchModel(r) \/ RefuseSwitch(r) \/ PersistIdentity(r)
    /\ UNCHANGED responses

\* `pony session` commands and plan editors.
OutsiderStep(w) ==
    \/ Observe(w) /\ UNCHANGED commands
    \/ /\ commands < MaxCommands
       /\ commands' = commands + 1
       /\ \/ \E target \in 0..Leaf(log) : Rewind(w, target)
          \/ \E text \in Texts : EditPlan(w, text)
          \/ \E entry \in 1..Leaf(log) : LabelEntry(w, entry)

-----------------------------------------------------------------------------
(* Specification *)

Credit(w) == author' = author \o [i \in 1..(Len(log') - Len(log)) |-> w]

RuntimeStep(r) ==
    /\ TurnStep(r) \/ FinishCommand(r)
    /\ Credit(r)
    /\ UNCHANGED commands

\* What a user does, a message, Ctrl-C, a command, and what happens to a turn.
UserStep(r) ==
    \/ (StartTurn(r) \/ RefuseTurn(r) \/ Break(r)) /\ Credit(r) /\ UNCHANGED commands
    \/ GiveCommand(r) /\ Credit(r)

AgentNext ==
    \/ \E r \in Runtimes : RuntimeStep(r) \/ UserStep(r)
    \/ \E w \in Writers \ Runtimes :
        OutsiderStep(w) /\ Credit(w) /\ UNCHANGED <<turn, responses>>

AgentSpec == AgentInit /\ [][AgentNext]_agentVars

\* A request, a tool and the user's decision end, by their timeouts at the
\* latest, and the loop goes on; nobody has to give a command.
FairSpec == AgentSpec /\ \A r \in Runtimes : WF_agentVars(RuntimeStep(r))

-----------------------------------------------------------------------------
(* Properties *)

Turns == [phase : {"idle", "prompt", "attempt", "build", "compact", "send",
                   "call", "recover", "mark", "received", "tool", "approve",
                   "advance", "record", "final", "terminal", "checkpoint",
                   "switch", "resume"},
          number : 0..MaxTurns, steps : 0..MaxSteps, attempts : 0..MaxAttempts,
          retries : 0..MaxRetries, compactions : 0..MaxCompactions,
          malformed : BOOLEAN, corrected : BOOLEAN, recovered : BOOLEAN,
          reply : Replies \cup {"none", "rejected_session_tool"},
          basis : Nat, client : Models, memory : Nat, frozen : Modes,
          unrecorded : BOOLEAN, unknown : BOOLEAN,
          cut : BOOLEAN, blocked : BOOLEAN]

\* What each runtime remembers is in range: the budgets of the loop hold, and
\* agent.session and the last request are about entries of the file.
AgentTypeOK ==
    /\ turn \in [Runtimes -> Turns]
    /\ \A r \in Runtimes : turn[r].basis <= Len(log) /\ turn[r].memory <= Len(log)
    /\ author \in Seq(Writers) /\ Len(author) = Len(log)

\* Every step of the runtimes is one of the store's.
StoreSpec == Spec

\* An answer or the call of a host tool is appended right behind the entry
\* its request was built on, whoever else appends meanwhile: no stale
\* response joins a conversation the model has not seen.
FreshResponse ==
    \A x \in responses : x.reply \notin SessionReplies => x.at = x.basis + 1

\* The same for every response, calls of session tools included: only the
\* runtime itself wrote between the request and the response.
StaleResponseRefused ==
    \A x \in responses : \A i \in x.basis + 1..x.at : author[i] = x.by

\* A response stands where the Session is bound to the model that gave it,
\* although the model can be switched while it answers.
ResponseBinding ==
    \A x \in responses : StateAt(log, x.at).model = x.model

\* The messages runtime r appended with this role.
Said(r, role) ==
    {i \in DOMAIN log : author[i] = r /\ log[i].kind = "message"
                                     /\ log[i].data.role = role}

\* A turn is closed by one message, whichever way it ends.  A blocked runtime
\* leaves its turn open.  So can Ctrl-C and an error of the disk (cut), when they
\* meet the user's message or the closing one; and when they meet the append of
\* the answer, the turn is closed twice, never more often.
TurnAnsweredOnce ==
    \A r \in Runtimes :
        LET last == MaxOf(Said(r, "user") \cup {0})
            answers == {i \in Said(r, "assistant") : last < i}
        IN  /\ Cardinality(answers) <= IF turn[r].cut THEN 2 ELSE 1
            /\ In(r, "idle") /\ ~turn[r].blocked /\ ~turn[r].cut /\ turn[r].number > 0
                 => answers # {}

\* A tool call that ran is in the file before the model is asked again or
\* answers.  When it cannot be recorded, because the Session changed, the append
\* failed or Ctrl-C came, the turn ends without another request; nothing keeps
\* the next turn from going on without it.
EffectsAreRecorded ==
    \A r \in Runtimes :
        turn[r].unrecorded =>
            \/ In(r, "record")
            \/ /\ turn[r].phase \in {"terminal", "checkpoint", "idle", "switch"}
               /\ turn[r].blocked \/ turn[r].cut

\* A runtime that found the Session changed adds nothing to its conversation
\* any more: no closing message, no checkpoint, no further turn.
BlockedTurnWritesNothing ==
    [][\A r \in Runtimes :
        turn[r].blocked =>
            \A i \in Len(log) + 1..Len(log') :
                author'[i] = r =>
                    log'[i].kind \notin {"message", "tool_exchange", "task_checkpoint"}
      ]_agentVars

\* The user leaves plan mode with the plan that was shown, whatever happened
\* to it while the user was asked.
PlanApprovedAsShown ==
    [][\A r \in Runtimes :
        In(r, "approve") /\ turn[r].frozen = "plan" /\ turn'[r].frozen # "plan" =>
            PlanState(Projection(log)) = PlanState(StateAt(log, turn[r].memory))
      ]_agentVars

\* Every turn ends, whatever the model replies and whoever else writes.
TurnEnds == \A r \in Runtimes : ~In(r, "idle") ~> In(r, "idle")
=============================================================================
