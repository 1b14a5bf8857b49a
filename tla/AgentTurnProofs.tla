--------------------------- MODULE AgentTurnProofs ---------------------------
(***************************************************************************)
(* Theorems about AgentTurn for every set of runtimes, outsiders, models   *)
(* and plan texts, every budget and every length of the file.              *)
(***************************************************************************)
EXTENDS AgentTurn, SessionStoreProofs, FiniteSetTheorems

-----------------------------------------------------------------------------
(* Every step of a runtime or an outsider is a step of the store. *)

StoreStep(w) == WriterStep(w) \/ UNCHANGED vars

LEMMA RecaptureIsStore ==
  ASSUME TypeOK, NEW r \in Writers, Recapture(r)
  PROVE  StoreStep(r)
<1>1. CASE seen[r] = Leaf(log)
  <2>1. seen' = seen
    BY <1>1 DEF Recapture, TypeOK
  <2> QED BY <2>1 DEF Recapture, StoreStep, vars
<1>2. CASE seen[r] # Leaf(log)
  BY <1>2 DEF Recapture, Observe, WriterStep, StoreStep
<1> QED BY <1>1, <1>2

LEMMA TurnIsStore ==
  ASSUME TypeOK, NEW r \in Writers, TurnStep(r)
  PROVE  StoreStep(r)
<1>1. CASE CommitPrompt(r)
  BY <1>1 DEF CommitPrompt, TurnBodies, WriterStep, StoreStep
<1>2. CASE NextAttempt(r)
  BY <1>2, RecaptureIsStore DEF NextAttempt, StoreStep
<1>3. CASE BuildRequest(r)
  BY <1>3 DEF BuildRequest, WriterStep, StoreStep
<1>4. CASE RecordTool(r)
  BY <1>4 DEF RecordTool, TurnBodies, WriterStep, StoreStep
<1>5. CASE CommitFinal(r)
  BY <1>5 DEF CommitFinal, TurnBodies, WriterStep, StoreStep
<1>6. CASE CommitTerminal(r)
  BY <1>6 DEF CommitTerminal, WriterStep, StoreStep
<1>7. CASE CommitCheckpoint(r)
  BY <1>7 DEF CommitCheckpoint, WriterStep, StoreStep
<1>8. CASE RunWritePlan(r)
  BY <1>8 DEF RunWritePlan, WriterStep, StoreStep
<1>9. CASE ShowPlan(r)
  BY <1>9, RecaptureIsStore DEF ShowPlan, StoreStep
<1>10. CASE ApprovePlan(r)
  BY <1>10 DEF ApprovePlan, WriterStep, StoreStep
<1>11. CASE AdvanceGuard(r)
  BY <1>11, RecaptureIsStore DEF AdvanceGuard
<1>12. CASE CompactRequest(r)
  BY <1>12 DEF CompactRequest, WriterStep, StoreStep
<1>13. CASE RecoverLength(r)
  BY <1>13 DEF RecoverLength, WriterStep, StoreStep
<1>14. CASE MarkRecovered(r)
  BY <1>14 DEF MarkRecovered, WriterStep, StoreStep
<1>15. CASE SendRequest(r) \/ ReceiveReply(r) \/ FailModel(r) \/ ActOnReply(r)
            \/ RunHostTool(r) \/ RejectTool(r) \/ FindChange(r)
  BY <1>15 DEF SendRequest, ReceiveReply, FailModel, ActOnReply, RunHostTool,
               RejectTool, FindChange, StoreStep
<1>16. CASE DeclinePlan(r) \/ RefuseApproval(r) \/ RetryTransport(r)
            \/ ExceedBudget(r) \/ FailToCompact(r) \/ RefuseLength(r)
  BY <1>16 DEF DeclinePlan, RefuseApproval, RetryTransport, ExceedBudget,
               FailToCompact, RefuseLength, StoreStep
<1> QED BY <1>1, <1>2, <1>3, <1>4, <1>5, <1>6, <1>7, <1>8, <1>9, <1>10, <1>11,
           <1>12, <1>13, <1>14, <1>15, <1>16
        DEF TurnStep, AnswerStep, PlanStep, RetryStep

LEMMA CommandIsStore ==
  ASSUME TypeOK, NEW r \in Writers, FinishCommand(r) \/ GiveCommand(r)
  PROVE  StoreStep(r)
<1>1. CASE SwitchModel(r)
  BY <1>1 DEF SwitchModel, WriterStep, StoreStep
<1>2. CASE RefuseSwitch(r)
  BY <1>2 DEF RefuseSwitch, StoreStep
<1>3. CASE PersistIdentity(r)
  BY <1>3 DEF PersistIdentity, WriterStep, StoreStep
<1>4. CASE StartSwitch(r)
  BY <1>4, RecaptureIsStore DEF StartSwitch
<1>5. CASE ChangeMode(r)
  BY <1>5 DEF ChangeMode, WriterStep, StoreStep
<1>6. CASE Reopen(r)
  BY <1>6, RecaptureIsStore DEF Reopen
<1> QED BY <1>1, <1>2, <1>3, <1>4, <1>5, <1>6 DEF FinishCommand, GiveCommand

LEMMA UserIsStore ==
  ASSUME TypeOK, NEW r \in Writers, UserStep(r)
  PROVE  StoreStep(r)
<1>1. CASE StartTurn(r)
  BY <1>1, RecaptureIsStore DEF StartTurn
<1>2. CASE RefuseTurn(r)
  BY <1>2 DEF RefuseTurn, StoreStep
<1>3. CASE BreakPrompt(r)
  BY <1>3 DEF BreakPrompt, TurnBodies, WriterStep, StoreStep
<1>4. CASE BreakLoop(r) \/ BreakClosing(r)
  BY <1>4 DEF BreakLoop, BreakClosing, StoreStep
<1>5. CASE BreakFinal(r)
  BY <1>5 DEF BreakFinal, TurnBodies, WriterStep, StoreStep
<1> QED BY <1>1, <1>2, <1>3, <1>4, <1>5, CommandIsStore DEF UserStep, Break

LEMMA OutsiderIsStore ==
  ASSUME NEW w \in Writers, OutsiderStep(w)
  PROVE  StoreStep(w)
<1>1. CASE Observe(w)
  BY <1>1 DEF WriterStep, StoreStep
<1>2. CASE \E target \in 0..Leaf(log) : Rewind(w, target)
  BY <1>2 DEF WriterStep, StoreStep
<1>3. CASE \E text \in Texts : EditPlan(w, text)
  BY <1>3 DEF WriterStep, StoreStep
<1>4. CASE \E entry \in 1..Leaf(log) : LabelEntry(w, entry)
  BY <1>4 DEF WriterStep, StoreStep
<1> QED BY <1>1, <1>2, <1>3, <1>4 DEF OutsiderStep

LEMMA AgentStepIsStore ==
  ASSUME TypeOK, [AgentNext]_agentVars
  PROVE  [Next]_vars /\ TypeOK' /\ Extension(log, log')
<1>1. ASSUME UNCHANGED agentVars
      PROVE  [Next]_vars
  <2>1. log' = log /\ torn' = torn /\ seen' = seen
    BY <1>1 DEF agentVars, vars
  <2> QED BY <2>1 DEF vars
<1>2. ASSUME NEW r \in Runtimes, RuntimeStep(r) \/ UserStep(r)
      PROVE  [Next]_vars
  <2>1. r \in Writers
    BY AgentTurnAssumption
  <2>2. StoreStep(r)
    BY <1>2, <2>1, TurnIsStore, CommandIsStore, UserIsStore DEF RuntimeStep
  <2> QED BY <2>1, <2>2 DEF StoreStep, Next
<1>3. ASSUME NEW w \in Writers \ Runtimes, OutsiderStep(w)
      PROVE  [Next]_vars
  BY <1>3, OutsiderIsStore DEF StoreStep, Next
<1>4. [Next]_vars
  BY <1>1, <1>2, <1>3 DEF AgentNext
<1> QED BY <1>4, NextExtends

\* The runtimes and outsiders of AgentTurn do nothing to the Session file that
\* SessionStore does not describe: what is proved of the store holds while
\* agent turns, commands and editors run on it (loop.py, application.py).
THEOREM Implementation == AgentSpec => StoreSpec
<1>1. AgentInit => Init /\ TypeOK
  BY InitType DEF AgentInit
<1>2. TypeOK /\ [AgentNext]_agentVars => TypeOK' /\ [Next]_vars
  BY AgentStepIsStore
<1> QED BY <1>1, <1>2, PTL DEF AgentSpec, StoreSpec, Spec

-----------------------------------------------------------------------------
(* What a runtime that runs a turn knows of the file. *)

Working == {"build", "compact", "send", "call", "recover", "mark", "received",
            "tool", "approve", "advance", "record"}
Asking == {"prompt", "attempt", "build", "compact", "send", "call", "recover", "mark"}
Acting == {"tool", "approve", "advance", "record"}
Over == {"terminal", "checkpoint", "idle", "switch"}

\* The leaf s is one of the file, bound to the model of the client.
Guard(t, s, l) == s \in 0..Len(l) /\ StateAt(l, s).model = t.client

\* The inductive part: from the moment a request is sent to the moment its
\* answer is appended, the runtime holds the leaf it sent the request with.
RuntimeInv(t, s, l) ==
    /\ t \in Turns /\ t.basis <= Len(l) /\ t.memory <= Len(l)
    /\ t.phase \in Working => t.steps < MaxSteps
    /\ t.phase \in Asking \cup Acting => t.reply # "final"
    /\ t.phase \in {"approve", "advance"} => t.reply \in SessionReplies
    /\ t.phase \in {"call", "received", "tool"} \/ (t.phase = "final" /\ t.reply = "final")
          => Guard(t, s, l) /\ t.basis = s
    /\ t.phase = "record" =>
          Guard(t, s, l) /\ (t.reply \notin SessionReplies => t.basis = s)
    /\ t.unrecorded => t.phase = "record" \/ (t.phase \in Over /\ (t.blocked \/ t.cut))
    /\ t.phase = "approve" =>
          s \in 0..Len(l) /\ PlanState(StateAt(l, s)) = PlanState(StateAt(l, t.memory))
    /\ t.blocked => t.phase \in Over

LEMMA BudgetType == MaxAttempts \in Nat /\ MaxRetries \in Nat /\ MaxCompactions \in Nat
<1>1. ASSUME NEW a \in Nat, NEW b \in Nat
      PROVE  MaxOf({a, b}) \in Nat
  <2>1. \E x \in {a, b} : \A y \in {a, b} : y <= x
    BY <1>1
  <2>2. MaxOf({a, b}) \in {a, b}
    BY <2>1 DEF MaxOf
  <2> QED BY <1>1, <2>2
<1>2. MaxSteps * 3 \in Nat /\ MaxSteps + 4 \in Nat
  BY AgentTurnAssumption
<1> QED BY <1>1, <1>2 DEF MaxAttempts, MaxRetries, MaxCompactions

LEMMA StateStable ==
  ASSUME NEW l1, NEW l2, WellFormed(l1), Extension(l1, l2)
  PROVE  /\ Len(l1) \in Nat /\ Len(l2) \in Nat /\ Len(l1) <= Len(l2)
         /\ \A n \in 0..Len(l1) : StateAt(l2, n) = StateAt(l1, n)
  BY ExtensionReflexive DEF Extension, StateAt

\* Nothing another party writes takes from a runtime what it knows.
LEMMA OthersKeepRuntime ==
  ASSUME NEW t, NEW s, NEW l1, NEW l2, WellFormed(l1), Extension(l1, l2),
         RuntimeInv(t, s, l1)
  PROVE  RuntimeInv(t, s, l2)
<1>1. /\ Len(l1) \in Nat /\ Len(l2) \in Nat /\ Len(l1) <= Len(l2)
      /\ \A n \in 0..Len(l1) : StateAt(l2, n) = StateAt(l1, n)
  BY StateStable
<1>2. t.basis \in Nat /\ t.memory \in Nat
  BY DEF RuntimeInv, Turns
<1>3. Guard(t, s, l1) => Guard(t, s, l2)
  BY <1>1 DEF Guard
<1>4. t.memory \in 0..Len(l1)
  BY <1>1, <1>2 DEF RuntimeInv
<1> QED BY <1>1, <1>2, <1>3, <1>4 DEF RuntimeInv

LEMMA TurnUpdate ==
  ASSUME NEW r \in Runtimes, turn \in [Runtimes -> Turns], NEW new, Become(r, new)
  PROVE  /\ turn'[r] = new
         /\ \A q \in Runtimes \ {r} : turn'[q] = turn[q]
         /\ new \in Turns => turn' \in [Runtimes -> Turns]
  BY DEF Become

Keeps(t, u) ==
    /\ u.basis = t.basis /\ u.memory = t.memory /\ u.client = t.client
    /\ u.reply = t.reply /\ u.unrecorded = t.unrecorded /\ u.blocked = t.blocked

Phases == {"idle", "prompt", "attempt", "build", "compact", "send", "call", "recover",
           "mark", "received", "tool", "approve", "advance", "record", "final",
           "terminal", "checkpoint", "switch", "resume"}

LEMMA PhaseUpdate ==
  ASSUME NEW t \in Turns, NEW phase \in Phases
  PROVE  /\ [t EXCEPT !.phase = phase] \in Turns
         /\ Keeps(t, [t EXCEPT !.phase = phase])
         /\ [t EXCEPT !.phase = phase].phase = phase
         /\ [t EXCEPT !.phase = phase].steps = t.steps
         /\ [t EXCEPT !.phase = phase].frozen = t.frozen
         /\ [t EXCEPT !.phase = phase].cut = t.cut
<1>1. [t EXCEPT !.phase = phase] \in Turns
  BY DEF Turns, Phases
<1>2. /\ Keeps(t, [t EXCEPT !.phase = phase])
      /\ [t EXCEPT !.phase = phase].phase = phase
      /\ [t EXCEPT !.phase = phase].steps = t.steps
      /\ [t EXCEPT !.phase = phase].frozen = t.frozen
      /\ [t EXCEPT !.phase = phase].cut = t.cut
  BY DEF Turns, Keeps
<1> QED BY <1>1, <1>2

Unguarded == Phases \ ({"call", "received"} \cup Acting)

\* A runtime that holds no answer needs no guard.
LEMMA UnguardedState ==
  ASSUME NEW u \in Turns, NEW s, NEW l,
         u.basis <= Len(l), u.memory <= Len(l), u.phase \in Unguarded,
         u.phase \in Working => u.steps < MaxSteps,
         u.phase \in Asking \cup {"final"} => u.reply # "final",
         u.unrecorded => u.phase \in Over /\ (u.blocked \/ u.cut),
         u.blocked => u.phase \in Over
  PROVE  RuntimeInv(u, s, l)
  BY DEF RuntimeInv, Unguarded, Acting

LEMMA PlacesStay ==
  ASSUME NEW t, NEW s, NEW l1, NEW l2, WellFormed(l1), Extension(l1, l2),
         RuntimeInv(t, s, l1)
  PROVE  t.basis <= Len(l2) /\ t.memory <= Len(l2)
<1>1. Len(l1) \in Nat /\ Len(l2) \in Nat /\ Len(l1) <= Len(l2)
  BY StateStable
<1>2. t.basis \in Nat /\ t.memory \in Nat
  BY DEF RuntimeInv, Turns
<1> QED BY <1>1, <1>2 DEF RuntimeInv

LEMMA UnguardedMove ==
  ASSUME NEW t, NEW s, NEW l1, NEW l2, WellFormed(l1), Extension(l1, l2),
         RuntimeInv(t, s, l1), NEW u \in Turns, NEW s2, Keeps(t, u),
         t.phase \in Asking \cup {"received"},
         u.phase \in {"attempt", "build", "compact", "send", "recover", "mark",
                      "final", "terminal"},
         u.phase \in Working => u.steps < MaxSteps,
         u.reply # "final" \/ u.phase = "terminal"
  PROVE  RuntimeInv(u, s2, l2)
<1>1. u.basis <= Len(l2) /\ u.memory <= Len(l2)
  BY PlacesStay DEF Keeps
<1>2. ~t.blocked /\ ~t.unrecorded
  BY DEF RuntimeInv, Asking, Over
<1>3. ~u.unrecorded
  BY <1>2 DEF Keeps
<1>4. u.phase \in Unguarded /\ (u.phase \in Asking \cup {"final"} => u.reply # "final")
  BY DEF Unguarded, Phases, Acting, Asking
<1>5. ~u.blocked
  BY <1>2 DEF Keeps
<1> QED BY <1>1, <1>3, <1>4, <1>5, UnguardedState

LEMMA AskingStep ==
  ASSUME TypeOK, Extension(log, log'), turn \in [Runtimes -> Turns],
         NEW r \in Runtimes, RuntimeInv(turn[r], seen[r], log),
         \/ CommitPrompt(r) \/ NextAttempt(r) \/ BuildRequest(r) \/ FailModel(r)
         \/ RetryStep(r)
  PROVE  RuntimeInv(turn'[r], seen'[r], log')
<1> DEFINE t == turn[r]
           u == turn'[r]
<1> SUFFICES RuntimeInv(u, seen'[r], log')
  OBVIOUS
<1>1. t \in Turns /\ WellFormed(log) /\ RuntimeInv(t, seen[r], log)
  BY DEF TypeOK
<1> HIDE DEF t, u
<1>2. MaxAttempts \in Nat /\ MaxRetries \in Nat /\ MaxCompactions \in Nat /\ MaxSteps \in Nat
  BY BudgetType, AgentTurnAssumption
<1>3. /\ t.attempts \in 0..MaxAttempts /\ t.retries \in 0..MaxRetries
      /\ t.compactions \in 0..MaxCompactions
  BY <1>1 DEF Turns
<1>4. /\ t.phase \in Working => t.steps < MaxSteps
      /\ t.phase \in Asking => t.reply # "final"
  BY <1>1 DEF RuntimeInv
<1>5. ASSUME u \in Turns, Keeps(t, u), t.phase \in Asking,
             u.phase \in {"attempt", "build", "compact", "send", "recover", "mark",
                          "final", "terminal"},
             u.phase \in Working => u.steps < MaxSteps
      PROVE  RuntimeInv(u, seen'[r], log')
  <2>1. u.reply # "final"
    BY <1>4, <1>5 DEF Keeps
  <2> QED BY <1>1, <1>5, <2>1, UnguardedMove
<1>6. ASSUME NEW phase \in {"attempt", "build", "compact", "send", "recover", "mark",
                            "final", "terminal"},
             u = [t EXCEPT !.phase = phase], t.phase \in Asking,
             phase \in Working => t.phase \in Working
      PROVE  RuntimeInv(u, seen'[r], log')
  <2>1. phase \in Phases
    BY DEF Phases
  <2>2. u \in Turns /\ Keeps(t, u) /\ u.phase = phase /\ u.steps = t.steps
    BY <1>1, <1>6, <2>1, PhaseUpdate
  <2> QED BY <1>4, <1>5, <1>6, <2>2
<1>7. CASE CommitPrompt(r)
  <2>1. t.phase = "prompt" /\ u = [t EXCEPT !.phase = "attempt", !.cut = FALSE]
    BY <1>7, TurnUpdate DEF CommitPrompt, In, t, u
  <2>2. u \in Turns
    BY <1>1, <2>1 DEF Turns
  <2>3. Keeps(t, u) /\ u.phase = "attempt"
    BY <1>1, <2>1 DEF Turns, Keeps
  <2> QED BY <1>5, <2>1, <2>2, <2>3 DEF Asking, Working
<1>8. CASE NextAttempt(r)
  <2>1. CASE HasBudget(r)
    <3>1. /\ t.phase = "attempt"
          /\ u = [t EXCEPT !.phase = "build", !.compactions = 0, !.attempts = @ + 1]
      BY <1>8, <2>1, TurnUpdate DEF NextAttempt, In, t, u
    <3>2. t.steps < MaxSteps /\ t.attempts < MaxAttempts
      BY <2>1 DEF HasBudget, t
    <3>3. t.attempts + 1 \in 0..MaxAttempts /\ 0 \in 0..MaxCompactions
      BY <1>2, <1>3, <3>2
    <3>4. u \in Turns
      BY <1>1, <3>1, <3>3, Zenon DEF Turns
    <3>5. Keeps(t, u) /\ u.phase = "build" /\ u.steps = t.steps
      BY <1>1, <3>1 DEF Turns, Keeps
    <3> QED BY <1>5, <3>1, <3>2, <3>4, <3>5 DEF Asking
  <2>2. CASE ~HasBudget(r)
    <3>1. t.phase = "attempt" /\ u = [t EXCEPT !.phase = "final"]
      BY <1>8, <2>2, TurnUpdate DEF NextAttempt, In, Go, t, u
    <3> QED BY <1>6, <3>1 DEF Asking, Working
  <2> QED BY <2>1, <2>2
<1>9. CASE BuildRequest(r)
  <2>1. t.phase = "build" /\ u = [t EXCEPT !.phase = "send"]
    BY <1>9, TurnUpdate DEF BuildRequest, In, Go, t, u
  <2> QED BY <1>6, <2>1 DEF Asking, Working
<1>10. CASE FailModel(r)
  <2>1. t.phase \in {"call", "recover"} /\ u = [t EXCEPT !.phase = "terminal"]
    BY <1>10, TurnUpdate DEF FailModel, Go, t, u
  <2> QED BY <1>6, <2>1 DEF Asking, Working
<1>11. CASE RetryTransport(r)
  <2>1. /\ t.phase = "call" /\ t.retries < MaxRetries
        /\ u = [t EXCEPT !.phase = "attempt", !.retries = @ + 1]
    BY <1>11, TurnUpdate DEF RetryTransport, In, t, u
  <2>2. t.retries + 1 \in 0..MaxRetries
    BY <1>2, <1>3, <2>1
  <2>3. u \in Turns
    BY <1>1, <2>1, <2>2, Zenon DEF Turns
  <2>4. Keeps(t, u) /\ u.phase = "attempt"
    BY <1>1, <2>1 DEF Turns, Keeps
  <2> QED BY <1>5, <2>1, <2>3, <2>4 DEF Asking, Working
<1>12. CASE ExceedBudget(r)
  <2>1. /\ t.phase = "build"
        /\ \/ /\ t.compactions < MaxCompactions
              /\ u = [t EXCEPT !.phase = "compact", !.compactions = @ + 1]
           \/ u = [t EXCEPT !.phase = "terminal"]
    BY <1>12, TurnUpdate DEF ExceedBudget, In, Go, t, u
  <2>2. CASE u = [t EXCEPT !.phase = "terminal"]
    BY <1>6, <2>1, <2>2 DEF Asking, Working
  <2>3. CASE t.compactions < MaxCompactions
             /\ u = [t EXCEPT !.phase = "compact", !.compactions = @ + 1]
    <3>1. t.compactions + 1 \in 0..MaxCompactions
      BY <1>2, <1>3, <2>3
    <3>2. u \in Turns
      BY <1>1, <2>3, <3>1, Zenon DEF Turns
    <3>3. Keeps(t, u) /\ u.phase = "compact" /\ u.steps = t.steps
      BY <1>1, <2>3 DEF Turns, Keeps
    <3> QED BY <1>4, <1>5, <2>1, <3>2, <3>3 DEF Asking, Working
  <2> QED BY <2>1, <2>2, <2>3
<1>13. CASE CompactRequest(r) \/ FailToCompact(r)
  <2>1. /\ t.phase = "compact"
        /\ \E next \in {"build", "terminal"} : u = [t EXCEPT !.phase = next]
    BY <1>13, TurnUpdate DEF CompactRequest, FailToCompact, In, Go, t, u
  <2> QED BY <1>6, <2>1 DEF Asking, Working
<1>14. CASE RefuseLength(r) \/ RecoverLength(r)
  <2>1. /\ t.phase \in {"call", "recover"}
        /\ \E next \in {"recover", "mark"} : u = [t EXCEPT !.phase = next]
    BY <1>14, TurnUpdate DEF RefuseLength, RecoverLength, In, Go, t, u
  <2> QED BY <1>6, <2>1 DEF Asking, Working
<1>15. CASE MarkRecovered(r)
  <2>1. /\ t.phase = "mark"
        /\ \/ u = [t EXCEPT !.phase = "attempt", !.recovered = TRUE]
           \/ u = [t EXCEPT !.phase = "terminal"]
    BY <1>15, TurnUpdate DEF MarkRecovered, In, Go, t, u
  <2>2. CASE u = [t EXCEPT !.phase = "terminal"]
    BY <1>6, <2>1, <2>2 DEF Asking, Working
  <2>3. CASE u = [t EXCEPT !.phase = "attempt", !.recovered = TRUE]
    <3>1. u \in Turns
      BY <1>1, <2>3 DEF Turns
    <3>2. Keeps(t, u) /\ u.phase = "attempt"
      BY <1>1, <2>3 DEF Turns, Keeps
    <3> QED BY <1>5, <2>1, <3>1, <3>2 DEF Asking, Working
  <2> QED BY <2>1, <2>2, <2>3
<1> QED BY <1>7, <1>8, <1>9, <1>10, <1>11, <1>12, <1>13, <1>14, <1>15 DEF RetryStep

LEMMA AnsweredStep ==
  ASSUME TypeOK, Extension(log, log'), turn \in [Runtimes -> Turns],
         NEW r \in Runtimes, RuntimeInv(turn[r], seen[r], log),
         \/ SendRequest(r) \/ ReceiveReply(r) \/ ActOnReply(r)
         \/ RunHostTool(r) \/ RejectTool(r) \/ RecordTool(r)
  PROVE  RuntimeInv(turn'[r], seen'[r], log')
<1> DEFINE t == turn[r]
           u == turn'[r]
<1> SUFFICES RuntimeInv(u, seen'[r], log')
  OBVIOUS
<1>1. t \in Turns /\ WellFormed(log) /\ RuntimeInv(t, seen[r], log)
  BY DEF TypeOK
<1>2. /\ t.steps \in 0..MaxSteps /\ MaxSteps \in Nat
      /\ 0 \in 0..MaxRetries /\ Len(log) \in Nat
  BY <1>1, BudgetType, AgentTurnAssumption, ProjectionType DEF Turns
<1> HIDE DEF t, u
<1>3. CASE SendRequest(r)
  <2>1. /\ t.phase = "send" /\ u = [t EXCEPT !.phase = "call", !.basis = seen[r]]
        /\ seen[r] = Len(log) /\ StateAt(log, Len(log)).model = t.client
        /\ seen' = seen /\ log' = log
    BY <1>3, TurnUpdate DEF SendRequest, In, GuardHolds, Expected, BoundToClient,
                            Projection, Leaf, vars, t, u
  <2>2. u \in Turns
    BY <1>1, <1>2, <2>1 DEF Turns
  <2>3. /\ u.phase = "call" /\ u.basis = seen[r] /\ u.memory = t.memory
        /\ u.client = t.client /\ u.steps = t.steps /\ u.reply = t.reply
        /\ u.unrecorded = t.unrecorded /\ u.cut = t.cut
        /\ u.blocked = t.blocked
    BY <1>1, <2>1 DEF Turns
  <2>4. Guard(u, seen[r], log)
    BY <1>2, <2>1, <2>3 DEF Guard
  <2>5. seen[r] <= Len(log) /\ seen'[r] = seen[r]
    BY <1>2, <2>1
  <2> QED BY <1>1, <2>1, <2>2, <2>3, <2>4, <2>5 DEF RuntimeInv, Asking, Acting, Working, Over
<1>4. CASE ReceiveReply(r)
  <2>1. PICK reply \in Replies : Become(r, [t EXCEPT !.phase = "received", !.reply = reply])
    BY <1>4 DEF ReceiveReply, t
  <2>2. /\ t.phase = "call" /\ u = [t EXCEPT !.phase = "received", !.reply = reply]
        /\ seen' = seen /\ log' = log
    BY <1>4, <2>1, TurnUpdate DEF ReceiveReply, In, vars, t, u
  <2>3. u \in Turns
    BY <1>1, <2>2 DEF Turns
  <2>4. /\ u.phase = "received" /\ u.basis = t.basis /\ u.memory = t.memory
        /\ u.client = t.client /\ u.steps = t.steps
        /\ u.unrecorded = t.unrecorded /\ u.cut = t.cut
        /\ u.blocked = t.blocked
    BY <1>1, <2>2 DEF Turns
  <2> QED BY <1>1, <2>2, <2>3, <2>4 DEF RuntimeInv, Asking, Acting, Working, Over, Guard
<1>5. CASE ActOnReply(r)
  <2>1. t.phase = "received" /\ seen' = seen /\ log' = log
    BY <1>5 DEF ActOnReply, In, vars, t
  <2>2. CASE t.reply = "final"
    <3>1. u = [t EXCEPT !.retries = 0, !.phase = "final"]
      BY <1>5, <2>2, TurnUpdate DEF ActOnReply, t, u
    <3>2. u \in Turns
      BY <1>1, <1>2, <3>1 DEF Turns
    <3>3. Keeps(t, u) /\ u.phase = "final"
      BY <1>1, <3>1 DEF Turns, Keeps
    <3> QED BY <1>1, <2>1, <3>2, <3>3 DEF RuntimeInv, Asking, Acting, Working, Over, Guard, Keeps
  <2>3. CASE t.reply = "malformed"
    <3>1. PICK next \in {"attempt", "final"} :
            Become(r, [[t EXCEPT !.retries = 0] EXCEPT !.phase = next, !.malformed = TRUE])
      BY <1>5, <2>3 DEF ActOnReply, t
    <3>2. u = [t EXCEPT !.retries = 0, !.phase = next, !.malformed = TRUE]
      BY <3>1, TurnUpdate DEF t, u
    <3>3. u \in Turns
      BY <1>1, <1>2, <3>2 DEF Turns
    <3>4. Keeps(t, u) /\ u.phase \in {"attempt", "final"}
      BY <1>1, <3>2 DEF Turns, Keeps
    <3>5. u.reply # "final" /\ u.phase \notin Working
      BY <2>3, <3>4 DEF Keeps, Working
    <3> QED BY <1>1, <2>1, <3>3, <3>4, <3>5, UnguardedMove
  <2>4. CASE t.reply \notin {"final", "malformed"}
    <3>1. u = [t EXCEPT !.retries = 0, !.phase = "tool"]
      BY <1>5, <2>4, TurnUpdate DEF ActOnReply, t, u
    <3>2. u \in Turns
      BY <1>1, <1>2, <3>1 DEF Turns
    <3>3. Keeps(t, u) /\ u.phase = "tool" /\ u.steps = t.steps
      BY <1>1, <3>1 DEF Turns, Keeps
    <3> QED BY <1>1, <2>1, <2>4, <3>2, <3>3
            DEF RuntimeInv, Asking, Acting, Working, Over, Guard, Keeps
  <2> QED BY <2>2, <2>3, <2>4
<1>6. CASE RunHostTool(r)
  <2>1. PICK unknown \in BOOLEAN :
          Become(r, [t EXCEPT !.phase = "record", !.unrecorded = TRUE, !.unknown = unknown])
    BY <1>6 DEF RunHostTool, t
  <2>2. /\ t.phase = "tool" /\ seen' = seen /\ log' = log
        /\ u = [t EXCEPT !.phase = "record", !.unrecorded = TRUE, !.unknown = unknown]
    BY <1>6, <2>1, TurnUpdate DEF RunHostTool, In, vars, t, u
  <2>3. u \in Turns
    BY <1>1, <2>2 DEF Turns
  <2>4. /\ u.phase = "record" /\ u.basis = t.basis /\ u.memory = t.memory
        /\ u.client = t.client /\ u.steps = t.steps /\ u.reply = t.reply
        /\ u.cut = t.cut /\ u.blocked = t.blocked
    BY <1>1, <2>2 DEF Turns
  <2> QED BY <1>1, <2>2, <2>3, <2>4 DEF RuntimeInv, Asking, Acting, Working, Over, Guard
<1>7. CASE RejectTool(r)
  <2>1. /\ t.phase = "tool" /\ seen' = seen /\ log' = log
        /\ t.reply \in {"rejected"} \cup SessionTools
        /\ u = [t EXCEPT !.phase = IF t.reply = "rejected" THEN "record" ELSE "advance",
                         !.reply = IF @ = "rejected" THEN @ ELSE "rejected_session_tool"]
    BY <1>7, TurnUpdate DEF RejectTool, In, vars, t, u
  <2>2. u \in Turns
    BY <1>1, <2>1 DEF Turns
  <2>3. /\ u.basis = t.basis /\ u.memory = t.memory
        /\ u.client = t.client /\ u.steps = t.steps
        /\ u.unrecorded = t.unrecorded
        /\ u.cut = t.cut /\ u.blocked = t.blocked
        /\ u.phase = (IF t.reply = "rejected" THEN "record" ELSE "advance")
        /\ u.reply = (IF t.reply = "rejected" THEN "rejected" ELSE "rejected_session_tool")
    BY <1>1, <2>1 DEF Turns
  <2> QED BY <1>1, <2>1, <2>2, <2>3
          DEF RuntimeInv, Asking, Acting, Working, Over, Guard, SessionReplies
<1>8. CASE RecordTool(r)
  <2>1. PICK after \in AfterTool(t) :
          Become(r, [after EXCEPT !.unrecorded = FALSE, !.unknown = FALSE])
    BY <1>8 DEF RecordTool, t
  <2>2. t.phase = "record" /\ u = [after EXCEPT !.unrecorded = FALSE, !.unknown = FALSE]
    BY <1>8, <2>1, TurnUpdate DEF RecordTool, In, t, u
  <2>3. t.steps + 1 \in 0..MaxSteps
    BY <1>1, <1>2, <2>2 DEF RuntimeInv, Working
  <2>4. /\ after \in Turns /\ after.phase \in {"attempt", "final"}
        /\ Keeps(t, after)
    <3>1. CASE \E next \in {"attempt", "final"}, corrected \in BOOLEAN :
                 after = [t EXCEPT !.phase = next, !.corrected = corrected]
      <4>1. PICK next \in {"attempt", "final"}, corrected \in BOOLEAN :
                   after = [t EXCEPT !.phase = next, !.corrected = corrected]
        BY <3>1
      <4>2. after \in Turns
        BY <1>1, <4>1 DEF Turns
      <4>3. after.phase = next /\ Keeps(t, after)
        BY <1>1, <4>1 DEF Turns, Keeps
      <4> QED BY <4>2, <4>3
    <3>2. CASE \E next \in {"attempt", "final"} : after = [t EXCEPT !.phase = next]
      <4>1. PICK next \in {"attempt", "final"} : after = [t EXCEPT !.phase = next]
        BY <3>2
      <4>2. next \in Phases
        BY DEF Phases
      <4> QED BY <1>1, <4>1, <4>2, PhaseUpdate
    <3>3. CASE after = [t EXCEPT !.phase = "attempt", !.steps = @ + 1]
      <4>1. after \in Turns
        BY <1>1, <2>3, <3>3 DEF Turns
      <4>2. after.phase = "attempt" /\ Keeps(t, after)
        BY <1>1, <3>3 DEF Turns, Keeps
      <4> QED BY <4>1, <4>2
    <3> QED BY <2>1, <3>1, <3>2, <3>3 DEF AfterTool
  <2>5. u \in Turns
    BY <2>2, <2>4 DEF Turns
  <2>6. /\ u.phase = after.phase /\ u.basis = after.basis /\ u.memory = after.memory
        /\ u.reply = after.reply /\ u.blocked = after.blocked /\ u.unrecorded = FALSE
    BY <2>2, <2>4 DEF Turns
  <2>7. u.basis <= Len(log') /\ u.memory <= Len(log')
    BY <1>1, <2>4, <2>6, PlacesStay DEF Keeps
  <2>8. u.reply # "final" /\ ~u.blocked
    BY <1>1, <2>2, <2>4, <2>6 DEF RuntimeInv, Acting, Over, Keeps
  <2>9. u.phase \in Unguarded /\ u.phase \notin Working
    BY <2>4, <2>6 DEF Unguarded, Phases, Acting, Working
  <2> QED BY <2>5, <2>6, <2>7, <2>8, <2>9, UnguardedState
<1> QED BY <1>3, <1>4, <1>5, <1>6, <1>7, <1>8

LEMMA PlanStepKeeps ==
  ASSUME TypeOK, TypeOK', Extension(log, log'), turn \in [Runtimes -> Turns],
         NEW r \in Runtimes, RuntimeInv(turn[r], seen[r], log), PlanStep(r)
  PROVE  RuntimeInv(turn'[r], seen'[r], log')
<1> DEFINE t == turn[r]
           u == turn'[r]
<1> SUFFICES RuntimeInv(u, seen'[r], log')
  OBVIOUS
<1>1. /\ t \in Turns /\ WellFormed(log) /\ RuntimeInv(t, seen[r], log)
      /\ Len(log) \in Nat /\ Len(log') \in Nat /\ Len(log) <= Len(log')
      /\ Leaf(log) = Len(log) /\ Leaf(log') = Len(log')
      /\ Projection(log') \in States
  BY StateStable, ProjectionType DEF TypeOK
<1>2. r \in Writers /\ seen \in [Writers -> -1..Len(log)]
  BY AgentTurnAssumption DEF TypeOK
<1> HIDE DEF t, u
\* The plan tools end in "advance": what they leave is an answer to be recorded.
<1>3. ASSUME u \in Turns, t.phase \in {"tool", "approve"}, u.phase = "advance",
             u.reply \in SessionReplies, u.steps = t.steps,
             u.basis = t.basis, u.memory <= Len(log'),
             u.unrecorded = t.unrecorded, u.cut = t.cut,
             u.blocked = t.blocked
      PROVE  RuntimeInv(u, seen'[r], log')
  <2>1. u.basis <= Len(log')
    BY <1>1, <1>3, PlacesStay
  <2>2. u.reply # "final"
    BY <1>3 DEF SessionReplies, SessionTools
  <2> QED BY <1>1, <1>3, <2>1, <2>2 DEF RuntimeInv, Working, Asking, Acting, Over
<1>4. t.memory <= Len(log') /\ Len(log) <= Len(log')
  BY <1>1, PlacesStay
<1>5. t.phase = "approve" => t.reply \in SessionReplies
  BY <1>1 DEF RuntimeInv
<1>6. CASE RunWritePlan(r)
  <2>1. /\ t.phase = "tool" /\ t.reply = "write_plan"
        /\ \/ u = [t EXCEPT !.phase = "advance"]
           \/ u = [t EXCEPT !.phase = "advance", !.memory = Leaf(log')]
    BY <1>6, TurnUpdate DEF RunWritePlan, In, Go, t, u
  <2>2. CASE u = [t EXCEPT !.phase = "advance"]
    <3>1. /\ u \in Turns /\ u.phase = "advance" /\ Keeps(t, u) /\ u.steps = t.steps
          /\ u.cut = t.cut
      BY <1>1, <2>2, PhaseUpdate DEF Phases
    <3>2. u.reply \in SessionReplies
      BY <2>1, <3>1 DEF Keeps, SessionReplies, SessionTools
    <3> QED BY <1>3, <1>4, <2>1, <3>1, <3>2 DEF Keeps
  <2>3. CASE u = [t EXCEPT !.phase = "advance", !.memory = Leaf(log')]
    <3>1. u \in Turns
      BY <1>1, <2>3 DEF Turns
    <3>2. /\ u.phase = "advance" /\ u.reply = t.reply /\ u.steps = t.steps
          /\ u.basis = t.basis /\ u.memory = Len(log')
          /\ u.unrecorded = t.unrecorded /\ u.cut = t.cut
          /\ u.blocked = t.blocked
      BY <1>1, <2>3 DEF Turns
    <3>3. u.reply \in SessionReplies /\ u.memory <= Len(log')
      BY <1>1, <2>1, <3>2 DEF SessionReplies, SessionTools
    <3> QED BY <1>3, <2>1, <3>1, <3>2, <3>3
  <2> QED BY <2>1, <2>2, <2>3
<1>7. CASE ShowPlan(r)
  <2> DEFINE same == PlanState(StateAt(log, t.memory)) = PlanState(Projection(log))
  <2>1. t.phase = "tool" /\ t.reply = "exit_plan"
    BY <1>7 DEF ShowPlan, In, t
  <2>2. CASE same /\ StateAt(log, t.memory).revision > 0
    <3>1. /\ u = [t EXCEPT !.phase = "approve"]
          /\ seen' = [seen EXCEPT ![r] = Len(log)] /\ log' = log
      BY <1>1, <1>7, <2>2, TurnUpdate DEF ShowPlan, Recapture, Go, t, u
    <3>2. u \in Turns /\ u.phase = "approve" /\ Keeps(t, u) /\ u.steps = t.steps
      BY <1>1, <3>1, PhaseUpdate DEF Phases
    <3>3. seen'[r] = Len(log)
      BY <1>2, <3>1
    <3>4. PlanState(StateAt(log, seen'[r])) = PlanState(StateAt(log, u.memory))
      BY <1>1, <2>2, <3>2, <3>3 DEF Keeps, Projection
    <3> QED BY <1>1, <2>1, <3>1, <3>2, <3>3, <3>4
            DEF RuntimeInv, Working, Asking, Acting, Over, Keeps, SessionReplies, SessionTools
  <2>3. CASE ~(same /\ StateAt(log, t.memory).revision > 0)
    <3>1. u = [t EXCEPT !.phase = "advance", !.reply = "rejected_session_tool",
                        !.memory = IF same THEN @ ELSE Leaf(log)]
      BY <1>7, <2>3, TurnUpdate DEF ShowPlan, t, u
    <3>2. u \in Turns
      BY <1>1, <3>1 DEF Turns
    <3>3. /\ u.phase = "advance" /\ u.reply = "rejected_session_tool" /\ u.steps = t.steps
          /\ u.basis = t.basis /\ u.memory \in {t.memory, Len(log)}
          /\ u.unrecorded = t.unrecorded /\ u.cut = t.cut
          /\ u.blocked = t.blocked
      BY <1>1, <3>1 DEF Turns
    <3>4. u.reply \in SessionReplies /\ u.memory <= Len(log')
      BY <1>1, <1>4, <3>3 DEF SessionReplies
    <3> QED BY <1>3, <2>1, <3>2, <3>3, <3>4
  <2> QED BY <2>2, <2>3
<1>8. CASE ApprovePlan(r)
  <2>1. /\ t.phase = "approve"
        /\ u = [t EXCEPT !.phase = "advance", !.memory = Leaf(log'),
                         !.frozen = Projection(log').mode]
    BY <1>8, TurnUpdate DEF ApprovePlan, In, t, u
  <2>2. Projection(log').mode \in Modes /\ Leaf(log') \in Nat
    BY <1>1 DEF States
  <2>3. u \in Turns
    BY <1>1, <2>1, <2>2 DEF Turns
  <2>4. /\ u.phase = "advance" /\ u.reply = t.reply /\ u.steps = t.steps
        /\ u.basis = t.basis /\ u.memory = Len(log')
        /\ u.unrecorded = t.unrecorded /\ u.cut = t.cut
        /\ u.blocked = t.blocked
    BY <1>1, <2>1 DEF Turns
  <2>5. u.memory <= Len(log')
    BY <1>1, <2>4
  <2> QED BY <1>3, <1>5, <2>1, <2>3, <2>4, <2>5
<1>9. CASE DeclinePlan(r)
  <2>1. /\ t.phase = "approve"
        /\ u = [t EXCEPT !.phase = "advance", !.reply = "rejected_session_tool"]
    BY <1>9, TurnUpdate DEF DeclinePlan, In, t, u
  <2>2. u \in Turns
    BY <1>1, <2>1 DEF Turns
  <2>3. /\ u.phase = "advance" /\ u.reply = "rejected_session_tool" /\ u.steps = t.steps
        /\ u.basis = t.basis /\ u.memory = t.memory
        /\ u.unrecorded = t.unrecorded /\ u.cut = t.cut
        /\ u.blocked = t.blocked
    BY <1>1, <2>1 DEF Turns
  <2> QED BY <1>3, <1>4, <2>1, <2>2, <2>3 DEF SessionReplies
<1>10. CASE RefuseApproval(r)
  <2>1. /\ t.phase = "approve"
        /\ u = [t EXCEPT !.phase = "advance", !.memory = Leaf(log)]
    BY <1>10, TurnUpdate DEF RefuseApproval, In, t, u
  <2>2. u \in Turns
    BY <1>1, <2>1 DEF Turns
  <2>3. /\ u.phase = "advance" /\ u.reply = t.reply /\ u.steps = t.steps
        /\ u.basis = t.basis /\ u.memory = Len(log)
        /\ u.unrecorded = t.unrecorded /\ u.cut = t.cut
        /\ u.blocked = t.blocked
    BY <1>1, <2>1 DEF Turns
  <2> QED BY <1>3, <1>4, <1>5, <2>1, <2>2, <2>3
<1>11. CASE AdvanceGuard(r)
  <2>1. /\ t.phase = "advance" /\ u = [t EXCEPT !.phase = "record"]
        /\ seen' = [seen EXCEPT ![r] = Len(log)] /\ log' = log
        /\ StateAt(log, Len(log)).model = t.client
    BY <1>1, <1>11, TurnUpdate
       DEF AdvanceGuard, In, Go, Recapture, BoundToClient, Projection, t, u
  <2>2. u \in Turns /\ u.phase = "record" /\ Keeps(t, u) /\ u.steps = t.steps
    BY <1>1, <2>1, PhaseUpdate DEF Phases
  <2>3. Guard(u, seen'[r], log')
    BY <1>1, <1>2, <2>1, <2>2 DEF Guard, Keeps
  <2> QED BY <1>1, <2>1, <2>2, <2>3 DEF RuntimeInv, Working, Asking, Acting, Over, Keeps
<1> QED BY <1>6, <1>7, <1>8, <1>9, <1>10, <1>11 DEF PlanStep

LEMMA NewTurnType ==
  /\ NewTurn \in Turns /\ NewTurn.basis = 0 /\ NewTurn.memory = 0
  /\ NewTurn.reply = "none" /\ ~NewTurn.unrecorded /\ ~NewTurn.blocked
  /\ NewTurn.phase = "idle"
<1>1. /\ 0 \in 0..MaxTurns /\ 0 \in 0..MaxSteps /\ 0 \in 0..MaxAttempts
      /\ 0 \in 0..MaxRetries /\ 0 \in 0..MaxCompactions
  BY BudgetType, AgentTurnAssumption
<1>2. FirstModel \in Models /\ "default" \in Modes
  BY SessionStoreAssumption, SessionTreeAssumption
<1>3. NewTurn \in Turns
  BY <1>1, <1>2 DEF NewTurn, Turns
<1> QED BY <1>3 DEF NewTurn

LEMMA ClosingStep ==
  ASSUME TypeOK, Extension(log, log'), turn \in [Runtimes -> Turns],
         NEW r \in Runtimes, RuntimeInv(turn[r], seen[r], log),
         \/ CommitFinal(r) \/ CommitTerminal(r) \/ CommitCheckpoint(r)
         \/ FindChange(r)
  PROVE  RuntimeInv(turn'[r], seen'[r], log')
<1> DEFINE t == turn[r]
           u == turn'[r]
<1> SUFFICES RuntimeInv(u, seen'[r], log')
  OBVIOUS
<1>1. /\ t \in Turns /\ WellFormed(log) /\ RuntimeInv(t, seen[r], log)
      /\ Len(log') \in Nat
  BY StateStable DEF TypeOK
<1>2. t.basis <= Len(log') /\ t.memory <= Len(log') /\ 0 <= Len(log')
  BY <1>1, PlacesStay
<1> HIDE DEF t, u
<1>3. ASSUME u \in Turns, u.basis <= Len(log'), u.memory <= Len(log'),
             u.phase \in {"idle", "terminal", "checkpoint"},
             u.unrecorded => u.blocked \/ u.cut
      PROVE  RuntimeInv(u, seen'[r], log')
  <2>1. /\ u.phase \in Unguarded /\ u.phase \notin Working
        /\ u.phase \notin Asking \cup {"final"} /\ u.phase \in Over
    BY <1>3 DEF Unguarded, Phases, Acting, Working, Asking, Over
  <2> QED BY <1>3, <2>1, UnguardedState
<1>4. ASSUME t.phase # "record"
      PROVE  t.unrecorded => t.blocked \/ t.cut
  BY <1>1, <1>4 DEF RuntimeInv
<1>5. CASE CommitFinal(r) \/ CommitTerminal(r)
  <2>1. t.phase \in {"final", "terminal"} /\ u = [t EXCEPT !.phase = "checkpoint"]
    BY <1>5, TurnUpdate DEF CommitFinal, CommitTerminal, In, Go, t, u
  <2>2. u \in Turns /\ u.phase = "checkpoint" /\ Keeps(t, u) /\ u.cut = t.cut
    BY <1>1, <2>1, PhaseUpdate DEF Phases
  <2> QED BY <1>2, <1>3, <1>4, <2>1, <2>2 DEF Keeps
<1>6. CASE CommitCheckpoint(r)
  <2>1. /\ t.phase = "checkpoint"
        /\ u = [t EXCEPT !.phase = "idle", !.reply = "none", !.basis = 0]
    BY <1>6, TurnUpdate DEF CommitCheckpoint, In, t, u
  <2>2. u \in Turns
    BY <1>1, <2>1 DEF Turns
  <2>3. /\ u.phase = "idle" /\ u.basis = 0 /\ u.memory = t.memory
        /\ u.unrecorded = t.unrecorded /\ u.blocked = t.blocked
        /\ u.cut = t.cut
    BY <1>1, <2>1 DEF Turns
  <2> QED BY <1>2, <1>3, <1>4, <2>1, <2>2, <2>3
<1>7. CASE FindChange(r)
  <2>1. PICK next \in {"idle", "terminal"} :
          u = [t EXCEPT !.phase = next, !.blocked = TRUE]
    BY <1>7, TurnUpdate DEF FindChange, t, u
  <2>2. u \in Turns
    BY <1>1, <2>1 DEF Turns
  <2>3. /\ u.phase \in {"idle", "terminal"} /\ u.basis = t.basis /\ u.memory = t.memory
        /\ u.blocked = TRUE
    BY <1>1, <2>1 DEF Turns
  <2> QED BY <1>2, <1>3, <2>2, <2>3
<1> QED BY <1>5, <1>6, <1>7

\* What Broken leaves of a turn.
LEMMA BrokenTurn ==
  ASSUME NEW t \in Turns, NEW phase \in Phases
  PROVE  LET u == Broken(t, phase)
         IN  /\ u \in Turns /\ u.phase = phase /\ u.basis = 0 /\ u.memory = t.memory
             /\ u.reply = "none" /\ u.frozen = t.frozen /\ u.number = t.number
             /\ u.unrecorded = t.unrecorded /\ u.cut = TRUE /\ u.blocked = t.blocked
<1> DEFINE u == Broken(t, phase)
<1>1. NewTurn \in Turns /\ NewTurn.basis = 0 /\ NewTurn.reply = "none"
  BY NewTurnType
<1>2. /\ t.number \in 0..MaxTurns /\ t.client \in Models /\ t.memory \in Nat
      /\ t.frozen \in Modes /\ t.unrecorded \in BOOLEAN /\ t.blocked \in BOOLEAN
  BY DEF Turns
<1>3. u = [NewTurn EXCEPT !.phase = phase, !.number = t.number, !.client = t.client,
                          !.memory = t.memory, !.frozen = t.frozen,
                          !.unrecorded = t.unrecorded, !.cut = TRUE, !.blocked = t.blocked]
  BY DEF Broken
<1> HIDE DEF u
<1>4. u \in Turns
  <2> DEFINE v == [NewTurn EXCEPT !.number = t.number, !.client = t.client,
                                  !.memory = t.memory, !.frozen = t.frozen]
             w == [v EXCEPT !.unrecorded = t.unrecorded, !.cut = TRUE, !.blocked = t.blocked]
  <2>1. v \in Turns
    BY <1>1, <1>2 DEF Turns
  <2>2. u = [w EXCEPT !.phase = phase]
    BY <1>1, <1>3 DEF Turns
  <2> HIDE DEF v
  <2>3. w \in Turns
    BY <1>2, <2>1 DEF Turns
  <2> HIDE DEF w
  <2> QED BY <2>2, <2>3, PhaseUpdate
<1>5. /\ u.phase = phase /\ u.basis = 0 /\ u.memory = t.memory
      /\ u.reply = "none" /\ u.frozen = t.frozen /\ u.number = t.number
      /\ u.unrecorded = t.unrecorded /\ u.cut = TRUE /\ u.blocked = t.blocked
  BY <1>1, <1>3 DEF Turns
<1> QED BY <1>4, <1>5 DEF u

\* A turn that is broken off keeps no answer; what it did not record it knows.
LEMMA BreakStep ==
  ASSUME TypeOK, Extension(log, log'), turn \in [Runtimes -> Turns],
         NEW r \in Runtimes, RuntimeInv(turn[r], seen[r], log), Break(r)
  PROVE  RuntimeInv(turn'[r], seen'[r], log')
<1> DEFINE t == turn[r]
           u == turn'[r]
<1> SUFFICES RuntimeInv(u, seen'[r], log')
  OBVIOUS
<1>1. /\ t \in Turns /\ WellFormed(log) /\ RuntimeInv(t, seen[r], log)
      /\ Len(log') \in Nat
  BY StateStable DEF TypeOK
<1>2. t.memory <= Len(log') /\ 0 <= Len(log')
  BY <1>1, PlacesStay
<1> HIDE DEF t, u
<1>3. ASSUME u \in Turns, u.basis = 0, u.memory = t.memory,
             u.phase \in {"idle", "terminal", "checkpoint"},
             u.unrecorded => u.blocked \/ u.cut
      PROVE  RuntimeInv(u, seen'[r], log')
  <2>1. /\ u.phase \in Unguarded /\ u.phase \notin Working
        /\ u.phase \notin Asking \cup {"final"} /\ u.phase \in Over
    BY <1>3 DEF Unguarded, Phases, Acting, Working, Asking, Over
  <2> QED BY <1>2, <1>3, <2>1, UnguardedState
<1>4. ASSUME NEW phase \in {"idle", "terminal", "checkpoint"}
      PROVE  LET b == Broken(t, phase)
             IN  /\ b \in Turns /\ b.phase = phase /\ b.basis = 0 /\ b.memory = t.memory
                 /\ b.unrecorded = t.unrecorded /\ b.cut = TRUE /\ b.blocked = t.blocked
  <2>1. phase \in Phases
    BY DEF Phases
  <2> QED BY <1>1, <2>1, BrokenTurn
<1>5. ASSUME NEW phase \in {"idle", "terminal", "checkpoint"}, u = Broken(t, phase)
      PROVE  RuntimeInv(u, seen'[r], log')
  BY <1>3, <1>4, <1>5
<1>6. CASE BreakPrompt(r)
  <2>1. u = Broken(t, "idle")
    BY <1>6, TurnUpdate DEF BreakPrompt, t, u
  <2> QED BY <1>5, <2>1
<1>7. CASE BreakFinal(r)
  <2>1. u = Broken(t, "terminal")
    BY <1>7, TurnUpdate DEF BreakFinal, t, u
  <2> QED BY <1>5, <2>1
<1>8. CASE BreakLoop(r)
  <2>1. PICK next \in {"terminal", "checkpoint"}, lost \in BOOLEAN :
          u = [Broken(t, next) EXCEPT !.unrecorded = lost]
    <3>1. PICK next \in {"terminal", "checkpoint"} :
            Become(r, [Broken(t, next) EXCEPT
                        !.unrecorded = @ \/ (In(r, "tool") /\ t.reply = "host")])
      BY <1>8 DEF BreakLoop, t
    <3>2. u = [Broken(t, next) EXCEPT
                 !.unrecorded = @ \/ (In(r, "tool") /\ t.reply = "host")]
      BY <3>1, TurnUpdate DEF t, u
    <3> DEFINE b == Broken(t, next)
               lost == b.unrecorded \/ (In(r, "tool") /\ t.reply = "host")
    <3>3. u = [b EXCEPT !.unrecorded = lost] /\ lost \in BOOLEAN
      BY <3>2
    <3> QED BY <3>3
  <2> DEFINE b == Broken(t, next)
  <2>2. b \in Turns /\ b.phase = next /\ b.basis = 0 /\ b.memory = t.memory /\ b.cut = TRUE
    BY <1>4
  <2>3. u = [b EXCEPT !.unrecorded = lost]
    BY <2>1
  <2> HIDE DEF b
  <2>4. u \in Turns
    BY <2>2, <2>3 DEF Turns
  <2>5. u.phase = next /\ u.basis = 0 /\ u.memory = t.memory /\ u.cut = TRUE
    BY <2>2, <2>3 DEF Turns
  <2> QED BY <1>3, <2>4, <2>5
<1>9. CASE BreakClosing(r)
  <2>1. CASE Become(r, Broken(t, "checkpoint"))
    <3>1. u = Broken(t, "checkpoint")
      BY <2>1, TurnUpdate DEF t, u
    <3> QED BY <1>5, <3>1
  <2>2. CASE Become(r, [Broken(t, "idle") EXCEPT !.cut = t.cut \/ In(r, "terminal")])
    <3> DEFINE b == Broken(t, "idle")
               cut == t.cut \/ In(r, "terminal")
    <3>1. u = [b EXCEPT !.cut = cut] /\ cut \in BOOLEAN
      BY <2>2, TurnUpdate DEF t, u
    <3>2. /\ b \in Turns /\ b.phase = "idle" /\ b.basis = 0 /\ b.memory = t.memory
          /\ b.unrecorded = t.unrecorded /\ b.blocked = t.blocked
      BY <1>4
    <3>3. t.unrecorded => t.blocked \/ cut
      <4>1. t.phase # "record"
        BY <1>9 DEF BreakClosing, t
      <4> QED BY <1>1, <4>1 DEF RuntimeInv
    <3> HIDE DEF b, cut
    <3>4. u \in Turns
      BY <3>1, <3>2 DEF Turns
    <3>5. /\ u.phase = "idle" /\ u.basis = 0 /\ u.memory = t.memory
          /\ u.unrecorded = t.unrecorded /\ u.blocked = t.blocked /\ u.cut = cut
      BY <3>1, <3>2 DEF Turns
    <3> QED BY <1>3, <3>3, <3>4, <3>5
  <2> QED BY <1>9, <2>1, <2>2 DEF BreakClosing, t
<1> QED BY <1>6, <1>7, <1>8, <1>9 DEF Break

LEMMA IdleStep ==
  ASSUME TypeOK, TypeOK', Extension(log, log'), turn \in [Runtimes -> Turns],
         NEW r \in Runtimes, RuntimeInv(turn[r], seen[r], log),
         StartTurn(r) \/ RefuseTurn(r) \/ GiveCommand(r) \/ FinishCommand(r)
  PROVE  RuntimeInv(turn'[r], seen'[r], log')
<1> DEFINE t == turn[r]
           u == turn'[r]
<1> SUFFICES RuntimeInv(u, seen'[r], log')
  OBVIOUS
<1>1. /\ t \in Turns /\ WellFormed(log) /\ RuntimeInv(t, seen[r], log)
      /\ Len(log) \in Nat /\ Len(log') \in Nat /\ Len(log) <= Len(log')
      /\ Leaf(log) = Len(log) /\ Leaf(log') = Len(log')
      /\ Projection(log) \in States
  BY StateStable, ProjectionType DEF TypeOK
<1>2. t.basis <= Len(log') /\ t.memory <= Len(log') /\ 0 <= Len(log')
  BY <1>1, PlacesStay
<1> HIDE DEF t, u
<1>3. ASSUME u \in Turns, u.basis <= Len(log'), u.memory <= Len(log'),
             u.phase \in {"idle", "prompt", "switch", "resume"},
             u.reply # "final" \/ u.phase # "prompt",
             u.unrecorded => u.phase \in {"idle", "switch"} /\ (u.blocked \/ u.cut),
             u.blocked => u.phase \in {"idle", "switch"}
      PROVE  RuntimeInv(u, seen'[r], log')
  <2>1. /\ u.phase \in Unguarded /\ u.phase \notin Working
        /\ u.phase \in Asking \cup {"final"} => u.reply # "final"
        /\ u.phase \in {"idle", "switch"} => u.phase \in Over
    BY <1>3 DEF Unguarded, Phases, Acting, Working, Asking, Over
  <2> QED BY <1>3, <2>1, UnguardedState
<1>4. t.phase # "record" => (t.unrecorded => t.blocked \/ t.cut)
  BY <1>1 DEF RuntimeInv
<1>5. CASE StartTurn(r)
  <2> DEFINE frozen == StateAt(log, t.memory).mode
  <2>1. /\ t.number < MaxTurns
        /\ u = [NewTurn EXCEPT !.phase = "prompt", !.number = t.number + 1,
                               !.client = t.client, !.memory = t.memory, !.cut = t.cut,
                               !.frozen = frozen]
    BY <1>5, TurnUpdate DEF StartTurn, t, u
  <2>2. t.number + 1 \in 0..MaxTurns
    <3>1. t.number \in 0..MaxTurns
      BY <1>1 DEF Turns
    <3> QED BY <2>1, <3>1, AgentTurnAssumption
  <2>3. frozen \in Modes
    <3>1. t.memory \in 0..Len(log)
      BY <1>1 DEF RuntimeInv, Turns
    <3> QED BY <1>1, <3>1, StateAtType DEF States
  <2>4. t.client \in Models /\ t.memory \in Nat /\ t.cut \in BOOLEAN
    BY <1>1 DEF Turns
  <2> HIDE DEF frozen
  <2>5. u \in Turns
    BY <2>1, <2>2, <2>3, <2>4, NewTurnType DEF Turns
  <2>6. /\ u.phase = "prompt" /\ u.basis = 0 /\ u.memory = t.memory /\ u.reply = "none"
        /\ ~u.unrecorded /\ ~u.blocked
    BY <2>1, NewTurnType DEF Turns
  <2> QED BY <1>2, <1>3, <2>5, <2>6
<1>6. CASE RefuseTurn(r)
  <2>1. t.phase = "idle" /\ u = [t EXCEPT !.blocked = TRUE]
    BY <1>6, TurnUpdate DEF RefuseTurn, In, t, u
  <2>2. u \in Turns
    BY <1>1, <2>1 DEF Turns
  <2>3. u.phase = "idle" /\ u.basis = t.basis /\ u.memory = t.memory /\ u.blocked = TRUE
    BY <1>1, <2>1 DEF Turns
  <2> QED BY <1>2, <1>3, <2>2, <2>3
<1>7. CASE StartSwitch(r) \/ RefuseSwitch(r) \/ PersistIdentity(r)
  <2>1. /\ t.phase \in {"idle", "switch", "resume"}
        /\ \E phase \in {"idle", "switch"} : u = [t EXCEPT !.phase = phase]
    BY <1>7, TurnUpdate DEF StartSwitch, RefuseSwitch, PersistIdentity, In, Go, t, u
  <2>2. PICK phase \in {"idle", "switch"} : u = [t EXCEPT !.phase = phase]
    BY <2>1
  <2>3. phase \in Phases
    BY DEF Phases
  <2>4. u \in Turns /\ u.phase = phase /\ Keeps(t, u) /\ u.cut = t.cut
    BY <1>1, <2>2, <2>3, PhaseUpdate
  <2> QED BY <1>2, <1>3, <1>4, <2>1, <2>4 DEF Keeps
<1>8. CASE SwitchModel(r)
  <2>1. PICK model \in Models :
          Become(r, [t EXCEPT !.phase = "idle", !.client = model, !.memory = Leaf(log')])
    BY <1>8 DEF SwitchModel, t
  <2>2. /\ t.phase = "switch"
        /\ u = [t EXCEPT !.phase = "idle", !.client = model, !.memory = Leaf(log')]
    BY <1>8, <2>1, TurnUpdate DEF SwitchModel, In, t, u
  <2>3. u \in Turns
    BY <1>1, <2>2 DEF Turns
  <2>4. /\ u.phase = "idle" /\ u.basis = t.basis /\ u.memory = Len(log')
        /\ u.unrecorded = t.unrecorded /\ u.cut = t.cut
        /\ u.blocked = t.blocked
    BY <1>1, <2>2 DEF Turns
  <2>5. u.memory <= Len(log')
    BY <1>1, <2>4
  <2> QED BY <1>2, <1>3, <1>4, <2>2, <2>3, <2>4, <2>5
<1>9. CASE ChangeMode(r)
  <2>1. t.phase = "idle" /\ u = [t EXCEPT !.memory = Leaf(log')]
    BY <1>9, TurnUpdate DEF ChangeMode, In, t, u
  <2>2. u \in Turns
    BY <1>1, <2>1 DEF Turns
  <2>3. /\ u.phase = "idle" /\ u.basis = t.basis /\ u.memory = Len(log')
        /\ u.unrecorded = t.unrecorded /\ u.cut = t.cut
        /\ u.blocked = t.blocked
    BY <1>1, <2>1 DEF Turns
  <2>4. u.memory <= Len(log')
    BY <1>1, <2>3
  <2> QED BY <1>2, <1>3, <1>4, <2>1, <2>2, <2>3, <2>4
<1>10. CASE Reopen(r)
  <2>1. /\ u = [NewTurn EXCEPT !.phase = "resume", !.memory = Leaf(log), !.cut = t.cut,
                               !.client = Projection(log).model]
        /\ Projection(log).model # None
    BY <1>10, TurnUpdate DEF Reopen, t, u
  <2>2. Projection(log).model \in Models /\ t.cut \in BOOLEAN
    BY <1>1, <2>1 DEF States, Turns
  <2>3. u \in Turns
    BY <1>1, <2>1, <2>2, NewTurnType DEF Turns
  <2>4. /\ u.phase = "resume" /\ u.basis = 0 /\ u.memory = Len(log)
        /\ ~u.unrecorded /\ ~u.blocked
    BY <1>1, <2>1, NewTurnType DEF Turns
  <2> QED BY <1>1, <1>2, <1>3, <2>3, <2>4
<1> QED BY <1>5, <1>6, <1>7, <1>8, <1>9, <1>10 DEF GiveCommand, FinishCommand

-----------------------------------------------------------------------------
(* What a runtime leaves to the others. *)

LEMMA WriteIsOwn ==
  ASSUME NEW w, NEW e, NEW after, Write(w, e, after), seen \in [Writers -> -1..Len(log)]
  PROVE  \A q \in Writers \ {w} : seen'[q] = seen[q]
  BY DEF Write, Complete, Die

LEMMA StoreStepIsOwn ==
  ASSUME TypeOK, NEW w \in Writers, StoreStep(w)
  PROVE  \A q \in Writers \ {w} : seen'[q] = seen[q]
<1>1. seen \in [Writers -> -1..Len(log)]
  BY DEF TypeOK
<1>2. ASSUME NEW e, NEW after, Write(w, e, after)
      PROVE  \A q \in Writers \ {w} : seen'[q] = seen[q]
  BY <1>1, <1>2, WriteIsOwn
<1>3. CASE UNCHANGED vars \/ Observe(w) \/ Refuse(w)
  BY <1>1, <1>3 DEF vars, Observe, Refuse
<1>4. CASE \E body \in TurnBodies : AppendMessages(w, body)
  BY <1>2, <1>4 DEF AppendMessages
<1>5. CASE AppendState(w) \/ AppendTerminal(w) \/ PersistResumed(w) \/ ResumeInPlanMode(w)
  BY <1>2, <1>5 DEF AppendState, AppendTerminal, PersistResumed, ResumeInPlanMode
<1>6. CASE \E model \in Models : SetProviderModel(w, model)
  BY <1>2, <1>6 DEF SetProviderModel
<1>7. ASSUME NEW mode, NEW tool, NEW behavior, UpdatePermissions(w, mode, tool, behavior)
      PROVE  \A q \in Writers \ {w} : seen'[q] = seen[q]
  BY <1>2, <1>7 DEF UpdatePermissions
<1>8. CASE \E text \in Texts : WritePlan(w, text) \/ EditPlan(w, text)
  BY <1>2, <1>8 DEF WritePlan, EditPlan
<1>9. CASE ExitPlanMode(w) \/ MarkRecovery(w) \/ AppendTaskCheckpoint(w) \/ Reset(w)
  BY <1>2, <1>9 DEF ExitPlanMode, MarkRecovery, AppendTaskCheckpoint, Reset
<1>10. CASE \E kept \in 1..Leaf(log) : Compact(w, kept)
  BY <1>2, <1>10 DEF Compact
<1>11. CASE \E target \in 0..Leaf(log) : Rewind(w, target)
  BY <1>2, <1>11 DEF Rewind
<1>12. CASE \E target \in 1..Leaf(log) : RewindWithSummary(w, target)
  BY <1>2, <1>12 DEF RewindWithSummary
<1>13. CASE \E entry \in 1..Leaf(log) : LabelEntry(w, entry)
  BY <1>2, <1>13 DEF LabelEntry
<1> QED BY <1>3, <1>4, <1>5, <1>6, <1>7, <1>8, <1>9, <1>10, <1>11, <1>12, <1>13
        DEF StoreStep, WriterStep

LEMMA StepIsOwn ==
  ASSUME NEW r \in Runtimes, RuntimeStep(r) \/ UserStep(r)
  PROVE  \E new : Become(r, new)
<1>1. CASE CommitPrompt(r) \/ NextAttempt(r) \/ BuildRequest(r) \/ SendRequest(r)
           \/ ReceiveReply(r) \/ FailModel(r)
  BY <1>1 DEF CommitPrompt, NextAttempt, BuildRequest, SendRequest, ReceiveReply,
              FailModel, Go
<1>2. CASE ActOnReply(r)
  <2>1. CASE turn[r].reply = "final"
    BY <1>2, <2>1 DEF ActOnReply
  <2>2. CASE turn[r].reply = "malformed"
    BY <1>2, <2>2 DEF ActOnReply
  <2>3. CASE turn[r].reply \notin {"final", "malformed"}
    BY <1>2, <2>3 DEF ActOnReply
  <2> QED BY <2>1, <2>2, <2>3
<1>3. CASE RunHostTool(r) \/ RejectTool(r) \/ RecordTool(r) \/ CommitFinal(r)
           \/ CommitTerminal(r) \/ CommitCheckpoint(r) \/ FindChange(r)
  BY <1>3 DEF RunHostTool, RejectTool, RecordTool, CommitFinal, CommitTerminal,
              CommitCheckpoint, FindChange, Go
<1>4. CASE RunWritePlan(r) \/ ShowPlan(r) \/ ApprovePlan(r) \/ DeclinePlan(r)
           \/ RefuseApproval(r) \/ AdvanceGuard(r)
  BY <1>4 DEF RunWritePlan, ShowPlan, ApprovePlan, DeclinePlan, RefuseApproval,
              AdvanceGuard, Go
<1>5. CASE RetryTransport(r) \/ ExceedBudget(r) \/ CompactRequest(r) \/ FailToCompact(r)
           \/ RefuseLength(r) \/ RecoverLength(r) \/ MarkRecovered(r)
  BY <1>5 DEF RetryTransport, ExceedBudget, CompactRequest, FailToCompact,
              RefuseLength, RecoverLength, MarkRecovered, Go
<1>6. CASE StartTurn(r) \/ RefuseTurn(r) \/ StartSwitch(r)
           \/ SwitchModel(r) \/ RefuseSwitch(r) \/ ChangeMode(r) \/ Reopen(r)
           \/ PersistIdentity(r)
  BY <1>6 DEF StartTurn, RefuseTurn, StartSwitch, SwitchModel, RefuseSwitch,
              ChangeMode, Reopen, PersistIdentity, Go
<1>7. CASE Break(r)
  BY <1>7 DEF Break, BreakPrompt, BreakLoop, BreakFinal, BreakClosing
<1> QED BY <1>1, <1>2, <1>3, <1>4, <1>5, <1>6, <1>7
        DEF RuntimeStep, UserStep, TurnStep, AnswerStep, PlanStep, RetryStep,
            GiveCommand, FinishCommand

-----------------------------------------------------------------------------
(* What was answered. *)

\* A response stands in the file, right behind the request it answers unless a
\* session tool wrote in between, and where its model is bound.
Joined(x, l) ==
    /\ x.at \in 1..Len(l)
    /\ StateAt(l, x.at).model = x.model
    /\ x.reply \notin SessionReplies => x.at = x.basis + 1

LEMMA MessagesKeepModel ==
  ASSUME NEW l, WellFormed(l), NEW body \in TurnBodies, NEW identity \in Writers
  PROVE  /\ Len(l) + 1 \in 1..Len(MessagesLog(l, body, identity))
         /\ StateAt(MessagesLog(l, body, identity), Len(l) + 1).model = Projection(l).model
<1> DEFINE said == Add(l, Leaf(l), body)
           e == MessagesLog(l, body, identity)
           i == Len(l) + 1
<1>1. body \in PlainBodies /\ body \in Bodies
  BY BodyConstructors DEF TurnBodies, PlainBodies
<1>2. Leaf(l) \in 0..Len(l) /\ Leaf(l) = Len(l) /\ Len(l) \in Nat
  BY ProjectionType
<1>3. /\ WellFormed(said) /\ Len(said) = i
      /\ said[i].state = ApplyEntry(StateAt(l, Leaf(l)), body, i)
  BY <1>1, <1>2, AddWellFormed
<1> HIDE DEF said
<1>4. Extension(said, e)
  BY <1>3, AddIfExtends, BodyConstructors DEF MessagesLog, said
<1>5. Len(e) \in Nat /\ Len(said) <= Len(e) /\ StateAt(e, i) = StateAt(said, i)
  BY <1>2, <1>3, <1>4, StateStable
<1>6. StateAt(said, i) = ApplyEntry(Projection(l), body, i)
  BY <1>2, <1>3 DEF StateAt, Projection
<1>7. ApplyEntry(Projection(l), body, i) = Projection(l)
  <2>1. body.kind \in {"message", "tool_exchange"}
    BY DEF TurnBodies, Message, ToolExchange
  <2> QED BY <2>1 DEF ApplyEntry
<1> HIDE DEF e
<1>8. i \in 1..Len(e) /\ StateAt(e, i).model = Projection(l).model
  BY <1>2, <1>3, <1>5, <1>6, <1>7
<1> QED BY <1>8 DEF e

LEMMA NewResponseJoins ==
  ASSUME TypeOK, NEW r \in Runtimes, RuntimeInv(turn[r], seen[r], log),
         NEW body \in TurnBodies, AppendMessages(r, body),
         turn[r].phase = "record" \/ (turn[r].phase = "final" /\ turn[r].reply = "final")
  PROVE  Joined(Response(r), log')
<1> DEFINE t == turn[r]
           e == MessagesLog(log, body, r)
           x == Response(r)
<1>1. r \in Writers /\ WellFormed(log) /\ Leaf(log) = Len(log) /\ Len(log) \in Nat
  BY AgentTurnAssumption, ProjectionType DEF TypeOK
<1>2. Write(r, e, Leaf(e)) /\ seen[r] = Len(log)
  BY <1>1 DEF AppendMessages, Expected
<1>3. log' = e
  BY <1>2, AgentTurnAssumption DEF Write, Complete, Die
<1>4. /\ Len(log) + 1 \in 1..Len(e)
      /\ StateAt(e, Len(log) + 1).model = Projection(log).model
  BY <1>1, MessagesKeepModel
<1>5. /\ StateAt(log, seen[r]).model = t.client
      /\ t.reply \notin SessionReplies => t.basis = seen[r]
  BY DEF RuntimeInv, Guard
<1>6. Projection(log).model = t.client
  BY <1>1, <1>2, <1>5 DEF Projection
<1>7. x.at = Len(log) + 1 /\ x.model = t.client /\ x.reply = t.reply /\ x.basis = t.basis
  BY <1>1 DEF Response
<1> HIDE DEF x, t, e
<1>8. x.reply \notin SessionReplies => x.at = x.basis + 1
  BY <1>1, <1>2, <1>5, <1>7
<1> QED BY <1>3, <1>4, <1>6, <1>7, <1>8 DEF Joined, x

LEMMA StepResponds ==
  ASSUME TypeOK, NEW r \in Runtimes, RuntimeInv(turn[r], seen[r], log),
         RuntimeStep(r) \/ UserStep(r)
  PROVE  \A x \in responses' : x \in responses \/ Joined(x, log')
<1>1. CASE RecordTool(r)
  <2>1. In(r, "record") /\ AppendMessages(r, ToolExchange) /\ Respond(r, TRUE)
    BY <1>1 DEF RecordTool
  <2>2. Joined(Response(r), log')
    BY <2>1, NewResponseJoins DEF In, TurnBodies
  <2> QED BY <2>1, <2>2 DEF Respond
<1>2. CASE CommitFinal(r)
  <2>1. /\ In(r, "final") /\ AppendMessages(r, Message("assistant"))
        /\ Respond(r, turn[r].reply = "final")
    BY <1>2 DEF CommitFinal
  <2>2. turn[r].reply = "final" => Joined(Response(r), log')
    BY <2>1, NewResponseJoins DEF In, TurnBodies
  <2> QED BY <2>1, <2>2 DEF Respond
<1>3. CASE CommitPrompt(r) \/ NextAttempt(r) \/ BuildRequest(r) \/ SendRequest(r)
           \/ ReceiveReply(r) \/ FailModel(r) \/ ActOnReply(r)
  BY <1>3 DEF CommitPrompt, NextAttempt, BuildRequest, SendRequest, ReceiveReply,
              FailModel, ActOnReply
<1>4. CASE RunHostTool(r) \/ RejectTool(r)
           \/ CommitTerminal(r) \/ CommitCheckpoint(r) \/ FindChange(r)
  BY <1>4 DEF RunHostTool, RejectTool, CommitTerminal, CommitCheckpoint, FindChange
<1>5. CASE RunWritePlan(r) \/ ShowPlan(r) \/ ApprovePlan(r) \/ DeclinePlan(r)
           \/ RefuseApproval(r) \/ AdvanceGuard(r)
  BY <1>5 DEF RunWritePlan, ShowPlan, ApprovePlan, DeclinePlan, RefuseApproval, AdvanceGuard
<1>6. CASE RetryTransport(r) \/ ExceedBudget(r) \/ CompactRequest(r) \/ FailToCompact(r)
           \/ RefuseLength(r) \/ RecoverLength(r) \/ MarkRecovered(r)
  BY <1>6 DEF RetryTransport, ExceedBudget, CompactRequest, FailToCompact,
              RefuseLength, RecoverLength, MarkRecovered
<1>7. CASE StartTurn(r) \/ RefuseTurn(r) \/ GiveCommand(r) \/ FinishCommand(r)
  BY <1>7 DEF StartTurn, RefuseTurn, GiveCommand, FinishCommand
<1>8. CASE BreakFinal(r)
  <2>1. /\ In(r, "final") /\ AppendMessages(r, Message("assistant"))
        /\ Respond(r, turn[r].reply = "final")
    BY <1>8 DEF BreakFinal
  <2>2. turn[r].reply = "final" => Joined(Response(r), log')
    BY <2>1, NewResponseJoins DEF In, TurnBodies
  <2> QED BY <2>1, <2>2 DEF Respond
<1>9. CASE BreakPrompt(r) \/ BreakLoop(r) \/ BreakClosing(r)
  BY <1>9 DEF BreakPrompt, BreakLoop, BreakClosing
<1> QED BY <1>1, <1>2, <1>3, <1>4, <1>5, <1>6, <1>7, <1>8, <1>9
        DEF RuntimeStep, UserStep, TurnStep, AnswerStep, PlanStep, RetryStep, Break

-----------------------------------------------------------------------------
(* Theorems *)

Authored == author \in Seq(Writers) /\ Len(author) = Len(log)

\* The inductive invariant: every runtime keeps its guard, and every response
\* joined the conversation it answers.
AgentInv ==
    /\ TypeOK /\ Authored
    /\ turn \in [Runtimes -> Turns]
    /\ \A r \in Runtimes : RuntimeInv(turn[r], seen[r], log)
    /\ \A x \in responses : Joined(x, log)

LEMMA CreditKeepsAuthors ==
  ASSUME TypeOK, TypeOK', Extension(log, log'), Authored, NEW w \in Writers, Credit(w)
  PROVE  Authored'
<1>1. Len(log) \in Nat /\ Len(log') \in Nat /\ Len(log) <= Len(log')
  BY StateStable DEF TypeOK
<1> DEFINE k == Len(log') - Len(log)
           credit == [i \in 1..k |-> w]
<1>2. k \in Nat /\ Len(log) + k = Len(log')
  BY <1>1
<1> HIDE DEF k
<1>3. credit \in Seq(Writers) /\ Len(credit) = k
  BY <1>2
<1>4. author' = author \o credit
  BY DEF Credit, k
<1> HIDE DEF credit
<1>5. author \in Seq(Writers) /\ Len(author) = Len(log)
  BY DEF Authored
<1>6. author \o credit \in Seq(Writers) /\ Len(author \o credit) = Len(author) + Len(credit)
  BY <1>3, <1>5
<1>7. author' \in Seq(Writers) /\ Len(author') = Len(log')
  BY <1>2, <1>3, <1>4, <1>5, <1>6
<1> QED BY <1>7 DEF Authored

LEMMA JoinedStays ==
  ASSUME TypeOK, Extension(log, log'), NEW x, Joined(x, log)
  PROVE  Joined(x, log')
<1>1. /\ Len(log) \in Nat /\ Len(log') \in Nat /\ Len(log) <= Len(log')
      /\ \A n \in 0..Len(log) : StateAt(log', n) = StateAt(log, n)
  BY StateStable DEF TypeOK
<1>2. x.at \in 0..Len(log) /\ x.at \in 1..Len(log')
  BY <1>1 DEF Joined
<1> QED BY <1>1, <1>2 DEF Joined

LEMMA InitAgent == AgentInit => AgentInv
<1> SUFFICES ASSUME AgentInit PROVE AgentInv
  OBVIOUS
<1>1. TypeOK /\ Leaf(log) = Len(log) /\ Len(log) \in Nat
  BY InitType, ProjectionType DEF AgentInit, TypeOK
<1>2. Authored
  BY <1>1, SessionStoreAssumption DEF AgentInit, Authored
<1>3. ASSUME NEW r \in Runtimes
      PROVE  turn[r] \in Turns /\ RuntimeInv(turn[r], seen[r], log)
  <2>1. turn[r] = [NewTurn EXCEPT !.memory = Len(log)]
    BY <1>1 DEF AgentInit
  <2>2. turn[r] \in Turns
    BY <1>1, <2>1, NewTurnType DEF Turns
  <2>3. /\ turn[r].basis = 0 /\ turn[r].memory = Len(log) /\ turn[r].phase = "idle"
        /\ ~turn[r].unrecorded /\ ~turn[r].blocked
    BY <2>1, NewTurnType DEF Turns
  <2>4. /\ turn[r].phase \in Unguarded /\ turn[r].phase \notin Working
        /\ turn[r].phase \notin Asking \cup {"final"}
    BY <2>3 DEF Unguarded, Phases, Acting, Working, Asking
  <2> QED BY <1>1, <2>2, <2>3, <2>4, UnguardedState
<1>4. turn \in [Runtimes -> Turns]
  BY <1>3 DEF AgentInit
<1>5. responses = {}
  BY DEF AgentInit
<1> QED BY <1>1, <1>2, <1>3, <1>4, <1>5 DEF AgentInv

LEMMA NextAgent == AgentInv /\ [AgentNext]_agentVars => AgentInv'
<1> SUFFICES ASSUME AgentInv, [AgentNext]_agentVars PROVE AgentInv'
  OBVIOUS
<1>1. TypeOK /\ TypeOK' /\ Extension(log, log') /\ WellFormed(log)
  BY AgentStepIsStore DEF AgentInv, TypeOK
<1>2. \A x \in responses : Joined(x, log')
  BY <1>1, JoinedStays DEF AgentInv
<1>3. ASSUME NEW r \in Runtimes, turn'[r] = turn[r], seen'[r] = seen[r]
      PROVE  RuntimeInv(turn'[r], seen'[r], log')
  BY <1>1, <1>3, OthersKeepRuntime DEF AgentInv
<1>4. CASE UNCHANGED agentVars
  <2>1. /\ turn' = turn /\ seen' = seen /\ log' = log /\ author' = author
        /\ responses' = responses
    BY <1>4 DEF agentVars, vars
  <2>2. Authored'
    BY <2>1 DEF AgentInv, Authored
  <2> QED BY <1>1, <1>2, <1>3, <2>1, <2>2 DEF AgentInv
<1>5. ASSUME NEW r \in Runtimes, RuntimeStep(r) \/ UserStep(r)
      PROVE  AgentInv'
  <2>1. r \in Writers
    BY AgentTurnAssumption
  <2>2. StoreStep(r)
    BY <1>1, <1>5, <2>1, TurnIsStore, CommandIsStore, UserIsStore DEF RuntimeStep
  <2>3. \A q \in Writers \ {r} : seen'[q] = seen[q]
    BY <1>1, <2>1, <2>2, StoreStepIsOwn
  <2>4. PICK new : Become(r, new)
    BY <1>5, StepIsOwn
  <2>5. turn'[r] = new /\ \A q \in Runtimes \ {r} : turn'[q] = turn[q]
    BY <2>4, TurnUpdate DEF AgentInv
  <2>6. RuntimeInv(turn'[r], seen'[r], log')
    <3>1. /\ RuntimeInv(turn[r], seen[r], log) /\ turn \in [Runtimes -> Turns]
          /\ r \in Runtimes
      BY DEF AgentInv
    <3>2. CASE \/ CommitPrompt(r) \/ NextAttempt(r) \/ BuildRequest(r) \/ FailModel(r)
               \/ RetryStep(r)
      BY <1>1, <3>1, <3>2, AskingStep
    <3>3. CASE \/ SendRequest(r) \/ ReceiveReply(r) \/ ActOnReply(r)
               \/ RunHostTool(r) \/ RejectTool(r) \/ RecordTool(r)
      BY <1>1, <3>1, <3>3, AnsweredStep
    <3>4. CASE PlanStep(r)
      BY <1>1, <3>1, <3>4, PlanStepKeeps
    <3>5. CASE \/ CommitFinal(r) \/ CommitTerminal(r) \/ CommitCheckpoint(r)
               \/ FindChange(r)
      BY <1>1, <3>1, <3>5, ClosingStep
    <3>6. CASE StartTurn(r) \/ RefuseTurn(r) \/ GiveCommand(r) \/ FinishCommand(r)
      BY <1>1, <3>1, <3>6, IdleStep
    <3>7. CASE Break(r)
      BY <1>1, <3>1, <3>7, BreakStep
    <3> QED BY <1>5, <3>2, <3>3, <3>4, <3>5, <3>6, <3>7
            DEF RuntimeStep, UserStep, TurnStep, AnswerStep
  <2>7. turn' \in [Runtimes -> Turns]
    BY <2>4, <2>5, <2>6, TurnUpdate DEF AgentInv, RuntimeInv
  <2>8. \A q \in Runtimes : RuntimeInv(turn'[q], seen'[q], log')
    BY <1>3, <2>3, <2>5, <2>6, AgentTurnAssumption
  <2>9. \A x \in responses' : Joined(x, log')
    <3>1. RuntimeInv(turn[r], seen[r], log)
      BY DEF AgentInv
    <3> QED BY <1>1, <1>2, <1>5, <3>1, StepResponds
  <2>10. Authored'
    <3>1. Credit(r) /\ Authored
      BY <1>5 DEF RuntimeStep, UserStep, AgentInv
    <3> QED BY <1>1, <2>1, <3>1, CreditKeepsAuthors
  <2> QED BY <1>1, <2>7, <2>8, <2>9, <2>10 DEF AgentInv
<1>6. ASSUME NEW w \in Writers \ Runtimes, OutsiderStep(w), Credit(w),
             UNCHANGED <<turn, responses>>
      PROVE  AgentInv'
  <2>1. StoreStep(w)
    BY <1>6, OutsiderIsStore
  <2>2. \A q \in Runtimes : seen'[q] = seen[q] /\ turn'[q] = turn[q]
    BY <1>1, <1>6, <2>1, StoreStepIsOwn, AgentTurnAssumption
  <2>3. Authored'
    <3>1. Authored
      BY DEF AgentInv
    <3> QED BY <1>1, <1>6, <3>1, CreditKeepsAuthors
  <2> QED BY <1>1, <1>2, <1>3, <1>6, <2>2, <2>3 DEF AgentInv
<1> QED BY <1>4, <1>5, <1>6 DEF AgentNext

LEMMA AgentMeaning ==
  AgentInv => /\ AgentTypeOK /\ FreshResponse /\ ResponseBinding /\ EffectsAreRecorded
<1>1. AgentInv => AgentTypeOK
  BY DEF AgentInv, AgentTypeOK, Authored, RuntimeInv
<1>2. AgentInv => FreshResponse /\ ResponseBinding
  BY DEF AgentInv, Joined, FreshResponse, ResponseBinding
<1>3. AgentInv => EffectsAreRecorded
  BY DEF AgentInv, RuntimeInv, Over, EffectsAreRecorded, In
<1> QED BY <1>1, <1>2, <1>3

\* The budgets of the loop hold and what a runtime remembers is about entries
\* of the file, for every reply of the models and every other writer.
THEOREM AgentTypeCorrect == AgentSpec => []AgentTypeOK
  BY InitAgent, NextAgent, AgentMeaning, PTL DEF AgentSpec

\* An answer and the call of a host tool stand right behind the entry their
\* request was built on: however many runtimes, commands and editors write
\* while the model answers, no stale response joins the conversation
\* (_validate_session_guard and append_messages in loop.py).
THEOREM ResponsesAreFresh == AgentSpec => []FreshResponse
  BY InitAgent, NextAgent, AgentMeaning, PTL DEF AgentSpec

\* A response stands where the Session is bound to the model that gave it,
\* although any runtime may switch the model while it is given.
THEOREM ResponsesAreBound == AgentSpec => []ResponseBinding
  BY InitAgent, NextAgent, AgentMeaning, PTL DEF AgentSpec

\* A turn asks for nothing more and answers nothing while the call of a host
\* tool that ran is missing in the file: it is over, because the Session changed
\* or because an error of the disk or Ctrl-C broke it off (_commit_session and
\* _apply_tool_action in loop.py).
THEOREM EffectsRecorded == AgentSpec => []EffectsAreRecorded
  BY InitAgent, NextAgent, AgentMeaning, PTL DEF AgentSpec

-----------------------------------------------------------------------------
(* Action properties *)

\* From the question whether to approve a plan, nothing but the approval takes
\* the turn out of plan mode.
LEMMA OnlyApprovalLeavesPlan ==
  ASSUME turn \in [Runtimes -> Turns], NEW r \in Runtimes, In(r, "approve"),
         RuntimeStep(r) \/ UserStep(r)
  PROVE  turn'[r].frozen = turn[r].frozen \/ ExitPlanMode(r)
<1>1. turn[r] \in Turns /\ turn[r].phase = "approve"
  BY DEF In
<1>2. CASE ApprovePlan(r)
  BY <1>2 DEF ApprovePlan
<1>3. CASE DeclinePlan(r)
  <2>1. turn'[r] = [turn[r] EXCEPT !.phase = "advance", !.reply = "rejected_session_tool"]
    BY <1>3, TurnUpdate DEF DeclinePlan
  <2> QED BY <1>1, <2>1 DEF Turns
<1>4. CASE RefuseApproval(r)
  <2>1. turn'[r] = [turn[r] EXCEPT !.phase = "advance", !.memory = Leaf(log)]
    BY <1>4, TurnUpdate DEF RefuseApproval
  <2> QED BY <1>1, <2>1 DEF Turns
<1>5. CASE Break(r)
  <2>1. BreakLoop(r)
    BY <1>1, <1>5 DEF Break, BreakPrompt, BreakFinal, BreakClosing, In
  <2>2. PICK next \in {"terminal", "checkpoint"} :
          Become(r, [Broken(turn[r], next) EXCEPT
                      !.unrecorded = @ \/ (In(r, "tool") /\ turn[r].reply = "host")])
    BY <2>1 DEF BreakLoop
  <2>3. turn'[r] = [Broken(turn[r], next) EXCEPT
                      !.unrecorded = @ \/ (In(r, "tool") /\ turn[r].reply = "host")]
    BY <2>2, TurnUpdate
  <2>4. next \in Phases
    BY DEF Phases
  <2>5. Broken(turn[r], next) \in Turns /\ Broken(turn[r], next).frozen = turn[r].frozen
    BY <1>1, <2>4, BrokenTurn
  <2> QED BY <2>3, <2>5 DEF Turns
<1>6. ~FindChange(r)
  BY <1>1 DEF FindChange, ChangeFound, In
<1>7. ~AnswerStep(r)
  BY <1>1, <1>6
     DEF AnswerStep, CommitPrompt, NextAttempt, BuildRequest, SendRequest, ReceiveReply,
         FailModel, ActOnReply, RunHostTool, RejectTool, RecordTool, CommitFinal,
         CommitTerminal, CommitCheckpoint, In
<1>8. ~RetryStep(r) /\ ~RunWritePlan(r) /\ ~ShowPlan(r) /\ ~AdvanceGuard(r)
  BY <1>1 DEF RetryStep, RetryTransport, ExceedBudget, CompactRequest, FailToCompact,
              RefuseLength, RecoverLength, MarkRecovered, RunWritePlan, ShowPlan,
              AdvanceGuard, In
<1>9. ~FinishCommand(r) /\ ~GiveCommand(r) /\ ~StartTurn(r) /\ ~RefuseTurn(r)
  BY <1>1 DEF FinishCommand, SwitchModel, RefuseSwitch, PersistIdentity, GiveCommand,
              StartSwitch, ChangeMode, Reopen, StartTurn, RefuseTurn, In
<1> QED BY <1>2, <1>3, <1>4, <1>5, <1>7, <1>8, <1>9
        DEF RuntimeStep, UserStep, TurnStep, PlanStep

\* A step of one runtime or outsider leaves the turns of the others alone.
LEMMA OthersKeepTurn ==
  ASSUME AgentInv, NEW r \in Runtimes, [AgentNext]_agentVars, turn'[r] # turn[r]
  PROVE  RuntimeStep(r) \/ UserStep(r)
<1>1. turn' # turn
  OBVIOUS
<1>2. ~UNCHANGED agentVars
  BY <1>1 DEF agentVars
<1>3. ASSUME NEW q \in Runtimes, RuntimeStep(q) \/ UserStep(q), q # r
      PROVE  FALSE
  <2>1. PICK new : Become(q, new)
    BY <1>3, StepIsOwn
  <2> QED BY <1>3, <2>1, TurnUpdate DEF AgentInv
<1> QED BY <1>1, <1>2, <1>3 DEF AgentNext

LEMMA ApprovedAsShown ==
  ASSUME AgentInv, [AgentNext]_agentVars, NEW r \in Runtimes,
         In(r, "approve"), turn[r].frozen = "plan", turn'[r].frozen # "plan"
  PROVE  PlanState(Projection(log)) = PlanState(StateAt(log, turn[r].memory))
<1>1. RuntimeStep(r) \/ UserStep(r)
  BY OthersKeepTurn
<1>2. ExitPlanMode(r)
  BY <1>1, OnlyApprovalLeavesPlan DEF AgentInv
<1>3. Projection(log) = StateAt(log, seen[r])
  BY <1>2 DEF ExitPlanMode, Expected, Projection
<1>4. PlanState(StateAt(log, seen[r])) = PlanState(StateAt(log, turn[r].memory))
  BY DEF AgentInv, RuntimeInv, In
<1> QED BY <1>3, <1>4

\* The user leaves plan mode with the plan that was shown, however often it
\* was edited, rewound or reset while the user was asked
\* (_prepare_exit_plan_tool in application.py, exit_plan_mode of the store).
THEOREM ApprovalIsOfThePlanShown == AgentSpec => PlanApprovedAsShown
<1>1. AgentInv /\ [AgentNext]_agentVars =>
        [\A r \in Runtimes :
            In(r, "approve") /\ turn[r].frozen = "plan" /\ turn'[r].frozen # "plan" =>
                PlanState(Projection(log)) = PlanState(StateAt(log, turn[r].memory))
        ]_agentVars
  BY ApprovedAsShown
<1> QED BY <1>1, InitAgent, NextAgent, PTL DEF AgentSpec, PlanApprovedAsShown

-----------------------------------------------------------------------------
(* What a step adds to the file *)

\* The file l2 adds no entry of these kinds to the file l1.
Without(kinds, l1, l2) == \A i \in Len(l1) + 1..Len(l2) : l2[i].kind \notin kinds

LEMMA AddedLine ==
  ASSUME NEW l, WellFormed(l), NEW p, NEW body
  PROVE  /\ Len(l) \in Nat /\ Len(Add(l, p, body)) = Len(l) + 1
         /\ \A j \in 1..Len(l) : Add(l, p, body)[j] = l[j]
         /\ Add(l, p, body)[Len(l) + 1].kind = body.kind
         /\ Add(l, p, body)[Len(l) + 1].data = body.data
<1> DEFINE entry == [parent |-> p, kind |-> body.kind, data |-> body.data,
                     path |-> PathTo(l, p) \cup {Len(l) + 1},
                     state |-> ApplyEntry(StateAt(l, p), body, Len(l) + 1)]
<1>1. l \in Seq(Entries \cup {entry}) /\ Len(l) \in Nat
  BY DEF WellFormed
<1>2. Add(l, p, body) = Append(l, entry)
  BY DEF Add
<1>3. entry.kind = body.kind /\ entry.data = body.data
  OBVIOUS
<1> HIDE DEF entry
<1>4. /\ Len(Append(l, entry)) = Len(l) + 1 /\ Append(l, entry)[Len(l) + 1] = entry
      /\ \A j \in 1..Len(l) : Append(l, entry)[j] = l[j]
  BY <1>1
<1> QED BY <1>1, <1>2, <1>3, <1>4

LEMMA AddWithout ==
  ASSUME NEW l, WellFormed(l), NEW p, NEW body, NEW kinds, body.kind \notin kinds
  PROVE  Without(kinds, l, Add(l, p, body))
<1> DEFINE e == Add(l, p, body)
<1>1. Len(l) \in Nat /\ Len(e) = Len(l) + 1 /\ e[Len(l) + 1].kind = body.kind
  BY AddedLine
<1> HIDE DEF e
<1>2. Without(kinds, l, e)
  BY <1>1 DEF Without
<1> QED BY <1>2 DEF e

LEMMA PermissionsWithout ==
  ASSUME NEW l, WellFormed(l), NEW mode, NEW kinds, "permission_mode_change" \notin kinds
  PROVE  Without(kinds, l, PermissionsLog(l, mode, None, Projection(l).rules))
<1>1. ModeChange(mode, None).kind = "permission_mode_change"
  BY DEF ModeChange
<1>2. Without(kinds, l, Add(l, Leaf(l), ModeChange(mode, None)))
  BY <1>1, AddWithout
<1>3. Without(kinds, l, l)
  BY ProjectionType DEF Without
<1> QED BY <1>2, <1>3 DEF PermissionsLog, AddIf

\* append_messages adds the message, and behind it the identity of its writer
\* when it is another.
LEMMA MessagesAdded ==
  ASSUME NEW l, WellFormed(l), NEW body \in TurnBodies, NEW identity \in Writers
  PROVE  LET e == MessagesLog(l, body, identity)
         IN  /\ Len(l) \in Nat /\ Len(e) \in Nat /\ Len(l) < Len(e)
             /\ e[Len(l) + 1].kind = body.kind /\ e[Len(l) + 1].data = body.data
             /\ \A i \in Len(l) + 2..Len(e) : e[i].kind = "session_info"
<1> DEFINE said == Add(l, Leaf(l), body)
           info == Info(None, identity, None)
           told == Add(said, Leaf(said), info)
<1>1. /\ Len(l) \in Nat /\ Len(said) = Len(l) + 1
      /\ said[Len(l) + 1].kind = body.kind /\ said[Len(l) + 1].data = body.data
  BY AddedLine
<1>2. WellFormed(said)
  <2>1. body \in Bodies
    BY BodyConstructors DEF TurnBodies, PlainBodies
  <2> QED BY <2>1, AddWellFormed, ProjectionType
<1>3. info.kind = "session_info"
  BY DEF Info
<1>4. MessagesLog(l, body, identity) = said \/ MessagesLog(l, body, identity) = told
  BY DEF MessagesLog, AddIf
<1> HIDE DEF said, info
<1>5. /\ Len(told) = Len(said) + 1 /\ told[Len(said) + 1].kind = info.kind
      /\ \A j \in 1..Len(said) : told[j] = said[j]
  BY <1>2, AddedLine
<1> HIDE DEF told
<1>6. Len(l) + 1 \in 1..Len(said)
  BY <1>1
<1>7. told[Len(l) + 1] = said[Len(l) + 1]
  BY <1>5, <1>6
<1>8. \A i \in Len(l) + 2..Len(told) : told[i].kind = "session_info"
  BY <1>1, <1>3, <1>5
<1>9. \A i \in Len(l) + 2..Len(said) : FALSE
  BY <1>1
<1> QED BY <1>1, <1>4, <1>5, <1>7, <1>8, <1>9

\* Without a crash a write appends all of its lines.
LEMMA WriteIsWhole ==
  ASSUME NEW w, NEW e, NEW after, Write(w, e, after)
  PROVE  log' = e
  BY AgentTurnAssumption DEF Write, Complete, Die

\* The lines a step appends are those of the party that takes it.
LEMMA CreditIsOwn ==
  ASSUME TypeOK, TypeOK', Extension(log, log'), Authored, NEW w \in Writers, Credit(w),
         NEW i \in Len(log) + 1..Len(log')
  PROVE  author'[i] = w
<1>1. Len(log) \in Nat /\ Len(log') \in Nat /\ Len(log) <= Len(log')
  BY StateStable DEF TypeOK
<1> DEFINE k == Len(log') - Len(log)
           credit == [j \in 1..k |-> w]
<1>2. k \in Nat /\ i \in Len(log) + 1..Len(log) + k /\ i - Len(log) \in 1..k
  BY <1>1
<1>3. author' = author \o credit
  BY DEF Credit
<1> HIDE DEF k
<1>4. credit \in Seq(Writers) /\ Len(credit) = k /\ credit[i - Len(log)] = w
  BY <1>2
<1> HIDE DEF credit
<1>5. author \in Seq(Writers) /\ Len(author) = Len(log)
  BY DEF Authored
<1>6. (author \o credit)[i] = credit[i - Len(author)]
  BY <1>1, <1>2, <1>4, <1>5
<1> QED BY <1>3, <1>4, <1>5, <1>6

-----------------------------------------------------------------------------
(* A blocked runtime *)

Conversation == {"message", "tool_exchange", "task_checkpoint"}

\* The file l2 adds nothing to the conversation in the file l1.
Quiet(l1, l2) == Without(Conversation, l1, l2)

LEMMA BlockedStepIsQuiet ==
  ASSUME TypeOK, NEW r \in Runtimes, RuntimeInv(turn[r], seen[r], log), turn[r].blocked,
         RuntimeStep(r) \/ UserStep(r)
  PROVE  Quiet(log, log')
<1>1. turn[r].phase \in {"idle", "terminal", "checkpoint", "switch"}
  BY DEF RuntimeInv, Over
<1>2. WellFormed(log) /\ Len(log) \in Nat /\ r \in Writers
  BY ProjectionType, AgentTurnAssumption DEF TypeOK
<1>3. log' = log => Quiet(log, log')
  BY <1>2 DEF Quiet, Without
<1>4. CASE CommitTerminal(r) \/ CommitCheckpoint(r) \/ FindChange(r) \/ RefuseTurn(r)
           \/ BreakLoop(r) \/ BreakClosing(r) \/ RefuseSwitch(r)
  BY <1>3, <1>4 DEF CommitTerminal, CommitCheckpoint, FindChange, RefuseTurn, BreakLoop,
                    BreakClosing, RefuseSwitch, vars
<1>5. CASE StartSwitch(r) \/ Reopen(r)
  BY <1>3, <1>5 DEF StartSwitch, Reopen, Recapture
<1>6. CASE SwitchModel(r)
  <2>1. PICK model \in Models : SetProviderModel(r, model)
    BY <1>6 DEF SwitchModel
  <2>2. log' = Add(log, Leaf(log), Info(model, None, None))
    BY <2>1, WriteIsWhole DEF SetProviderModel
  <2>3. Info(model, None, None).kind \notin Conversation
    BY DEF Info, Conversation
  <2> QED BY <1>2, <2>2, <2>3, AddWithout DEF Quiet
<1>7. CASE ChangeMode(r)
  <2>1. PICK mode \in Modes : UpdatePermissions(r, mode, None, "none")
    BY <1>7 DEF ChangeMode
  <2>2. log' = PermissionsLog(log, mode, None, Projection(log).rules)
    BY <2>1, WriteIsWhole DEF UpdatePermissions
  <2> QED BY <1>2, <2>2, PermissionsWithout DEF Quiet, Conversation
<1>8. ~StartTurn(r) /\ ~PersistIdentity(r) /\ ~BreakPrompt(r) /\ ~BreakFinal(r)
  BY <1>1 DEF StartTurn, PersistIdentity, BreakPrompt, BreakFinal, In
<1>9. /\ ~CommitPrompt(r) /\ ~NextAttempt(r) /\ ~BuildRequest(r) /\ ~SendRequest(r)
      /\ ~ReceiveReply(r) /\ ~FailModel(r) /\ ~ActOnReply(r) /\ ~RunHostTool(r)
      /\ ~RejectTool(r) /\ ~RecordTool(r) /\ ~CommitFinal(r)
  BY <1>1 DEF CommitPrompt, NextAttempt, BuildRequest, SendRequest, ReceiveReply,
              FailModel, ActOnReply, RunHostTool, RejectTool, RecordTool, CommitFinal, In
<1>10. ~PlanStep(r) /\ ~RetryStep(r)
  BY <1>1 DEF PlanStep, RunWritePlan, ShowPlan, ApprovePlan, DeclinePlan, RefuseApproval,
              AdvanceGuard, RetryStep, RetryTransport, ExceedBudget, CompactRequest,
              FailToCompact, RefuseLength, RecoverLength, MarkRecovered, In
<1> QED BY <1>4, <1>5, <1>6, <1>7, <1>8, <1>9, <1>10
        DEF RuntimeStep, UserStep, TurnStep, AnswerStep, GiveCommand, FinishCommand, Break

LEMMA BlockedIsQuiet ==
  ASSUME AgentInv, [AgentNext]_agentVars, NEW r \in Runtimes, turn[r].blocked,
         NEW i \in Len(log) + 1..Len(log'), author'[i] = r
  PROVE  log'[i].kind \notin Conversation
<1>1. TypeOK /\ TypeOK' /\ Extension(log, log') /\ Len(log) \in Nat /\ Authored
  BY AgentStepIsStore, ProjectionType DEF AgentInv, TypeOK
<1>2. CASE UNCHANGED agentVars
  BY <1>1, <1>2 DEF agentVars, vars
<1>3. ASSUME NEW q \in Runtimes, RuntimeStep(q) \/ UserStep(q)
      PROVE  log'[i].kind \notin Conversation
  <2>1. author'[i] = q
    BY <1>1, <1>3, CreditIsOwn, AgentTurnAssumption DEF RuntimeStep, UserStep
  <2>2. q = r
    BY <2>1
  <2>3. Quiet(log, log')
    BY <1>1, <1>3, <2>2, BlockedStepIsQuiet DEF AgentInv
  <2> QED BY <2>3 DEF Quiet, Without
<1>4. ASSUME NEW w \in Writers \ Runtimes, Credit(w)
      PROVE  FALSE
  BY <1>1, <1>4, CreditIsOwn
<1> QED BY <1>2, <1>3, <1>4 DEF AgentNext

\* A runtime that found the Session changed adds no message, tool call or
\* checkpoint to it, whatever its user does (_block_session_writes in loop.py).
THEOREM BlockedRuntimeIsQuiet == AgentSpec => BlockedTurnWritesNothing
<1>1. AgentInv /\ [AgentNext]_agentVars =>
        [\A r \in Runtimes :
            turn[r].blocked =>
                \A i \in Len(log) + 1..Len(log') :
                    author'[i] = r =>
                        log'[i].kind \notin {"message", "tool_exchange", "task_checkpoint"}
        ]_agentVars
  BY BlockedIsQuiet DEF Conversation
<1> QED BY <1>1, InitAgent, NextAgent, PTL DEF AgentSpec, BlockedTurnWritesNothing

-----------------------------------------------------------------------------
(* How a turn is answered *)

\* The phases between the user's message and the one that answers it.
Open == Looping \cup {"terminal"}

\* The turn t was answered, nothing broke it off, and the next one has not begun.
Closed(t) ==
    /\ ~t.blocked /\ ~t.cut
    /\ t.phase = "checkpoint" \/ (t.phase \in {"idle", "switch"} /\ t.number > 0)

\* The answers behind every question.
Later(asked, answered) == {i \in answered : \A q \in asked : q < i}

AtMostOne(S) == \E i : S \subseteq {i}
AtMostTwo(S) == \E i, j : S \subseteq {i, j}

\* The inductive part: while the loop of a turn runs, its question is the last
\* word; a turn that is broken off while its answer is appended has one answer
\* before it is closed; a turn that is over has an answer behind its question.
Dialogue(t, asked, answered) ==
    /\ t.phase \in Looping => Later(asked, answered) = {}
    /\ t.phase = "terminal" => AtMostOne(Later(asked, answered))
    /\ t.phase = "terminal" /\ ~t.cut => Later(asked, answered) = {}
    /\ AtMostTwo(Later(asked, answered))
    /\ ~t.cut => AtMostOne(Later(asked, answered))
    /\ Closed(t) => Later(asked, answered) # {}
    /\ t.phase = "resume" => t.number = 0
    /\ asked # {} => \E m \in asked : \A q \in asked : q <= m

DialogueInv ==
    \A r \in Runtimes : Dialogue(turn[r], Said(r, "user"), Said(r, "assistant"))

\* The step from t to u says nothing: the loop goes on or ends, is broken off,
\* or what is over stays as it was.
Follows(t, u) ==
    \/ t.phase \in Looping /\ u.phase \in Open
    \/ t.phase \in Looping /\ u.phase = "checkpoint" /\ u.cut
    \/ /\ u.phase \notin Open
       /\ ~u.cut => ~t.cut
       /\ Closed(u) => Closed(t)
       /\ u.phase = "resume" => u.number = 0

\* The step from t to u asks the question of a turn.
Asks(t, u) == u.phase = "attempt" \/ (u.phase = "idle" /\ u.cut)

\* The step from t to u answers: the loop ends with an answer, which is followed
\* by another one when the append of it is broken off, or a turn that ended
\* without one is closed.
Answers(t, u) ==
    \/ t.phase \in Looping /\ u.phase = "checkpoint"
    \/ t.phase \in Looping /\ u.phase = "terminal" /\ u.cut
    \/ t.phase = "terminal" /\ u.phase = "checkpoint" /\ (u.cut <=> t.cut)

Silent(l1, l2) == Without({"message"}, l1, l2)

\* The first entry that l2 adds to l1 is a message of this role, the only one.
Says(role, l1, l2) ==
    /\ Len(l1) < Len(l2)
    /\ l2[Len(l1) + 1].kind = "message" /\ l2[Len(l1) + 1].data.role = role
    /\ \A i \in Len(l1) + 2..Len(l2) : l2[i].kind # "message"

\* What a step of its runtime makes of the turn t and of the file.
Spoken(t, u, l1, l2) ==
    \/ Silent(l1, l2) /\ Follows(t, u)
    \/ Says("user", l1, l2) /\ Asks(t, u)
    \/ Says("assistant", l1, l2) /\ Answers(t, u)

\* None is at most one, and one is at most two.
LEMMA FewAnswers ==
  /\ AtMostOne({})
  /\ \A S : AtMostOne(S) => AtMostTwo(S)
  /\ \A n : AtMostOne({n})
  /\ \A S, n : AtMostOne(S) => AtMostTwo(S \cup {n})
<1>1. AtMostOne({})
  BY DEF AtMostOne
<1>2. \A S : AtMostOne(S) => AtMostTwo(S)
  BY DEF AtMostOne, AtMostTwo
<1>3. \A n : AtMostOne({n})
  BY DEF AtMostOne
<1>4. ASSUME NEW S, NEW n, AtMostOne(S)
      PROVE  AtMostTwo(S \cup {n})
  <2>1. PICK i : S \subseteq {i}
    BY <1>4 DEF AtMostOne
  <2>2. S \cup {n} \subseteq {i, n}
    BY <2>1
  <2> QED BY <2>2 DEF AtMostTwo
<1> QED BY <1>1, <1>2, <1>3, <1>4

LEMMA SilentDialogue ==
  ASSUME NEW t, NEW u, NEW asked, NEW answered, Dialogue(t, asked, answered), Follows(t, u)
  PROVE  Dialogue(u, asked, answered)
<1> DEFINE later == Later(asked, answered)
<1>1. /\ t.phase \in Looping => later = {}
      /\ AtMostTwo(later)
      /\ ~t.cut => AtMostOne(later)
      /\ Closed(t) => later # {}
      /\ asked # {} => \E m \in asked : \A q \in asked : q <= m
  BY DEF Dialogue
<1>2. "resume" \notin Open /\ "checkpoint" \notin Open /\ \A phase \in Looping : phase \in Open
  BY DEF Open, Looping
<1>3. \A phase \in Open : phase # "checkpoint" /\ phase # "idle" /\ phase # "switch"
  BY DEF Open, Looping
<1> HIDE DEF later
<1>4. CASE t.phase \in Looping /\ u.phase \in Open
  <2>1. later = {} /\ AtMostOne(later) /\ AtMostTwo(later)
    BY <1>1, <1>4, FewAnswers
  <2>2. ~Closed(u) /\ u.phase # "resume"
    BY <1>2, <1>3, <1>4 DEF Closed
  <2> QED BY <1>1, <2>1, <2>2 DEF Dialogue, later
<1>5. CASE t.phase \in Looping /\ u.phase = "checkpoint" /\ u.cut
  <2>1. later = {} /\ AtMostOne(later) /\ AtMostTwo(later)
    BY <1>1, <1>5, FewAnswers
  <2>2. ~Closed(u) /\ u.phase # "resume"
    BY <1>5 DEF Closed
  <2> QED BY <1>1, <2>1, <2>2 DEF Dialogue, later
<1>6. CASE /\ u.phase \notin Open /\ (~u.cut => ~t.cut) /\ (Closed(u) => Closed(t))
           /\ (u.phase = "resume" => u.number = 0)
  <2>1. u.phase \notin Looping /\ u.phase # "terminal"
    BY <1>6 DEF Open
  <2> QED BY <1>1, <1>6, <2>1 DEF Dialogue, later
<1> QED BY <1>4, <1>5, <1>6 DEF Follows

LEMMA AskedDialogue ==
  ASSUME NEW t, NEW u, NEW asked \in SUBSET Nat, NEW answered \in SUBSET Nat,
         Dialogue(t, asked, answered), NEW n \in Nat,
         \A i \in asked \cup answered : i < n, Asks(t, u)
  PROVE  Dialogue(u, asked \cup {n}, answered)
<1> DEFINE later == Later(asked \cup {n}, answered)
<1>1. ~Closed(u) /\ u.phase # "resume"
  BY DEF Closed, Asks
<1>2. later = {}
  <2>1. ASSUME NEW i \in answered, \A q \in asked \cup {n} : q < i
        PROVE  FALSE
    <3>1. n < i /\ i < n /\ i \in Nat
      BY <2>1
    <3> QED BY <3>1
  <2> QED BY <2>1 DEF Later
<1>3. AtMostOne(later) /\ AtMostTwo(later)
  BY <1>2, FewAnswers
<1>4. \A q \in asked \cup {n} : q <= n
  OBVIOUS
<1> HIDE DEF later
<1> QED BY <1>1, <1>2, <1>3, <1>4 DEF Dialogue, later

LEMMA AnsweredDialogue ==
  ASSUME NEW t, NEW u, NEW asked \in SUBSET Nat, NEW answered \in SUBSET Nat,
         Dialogue(t, asked, answered), NEW n \in Nat,
         \A i \in asked \cup answered : i < n, Answers(t, u)
  PROVE  Dialogue(u, asked, answered \cup {n})
<1> DEFINE before == Later(asked, answered)
           later == Later(asked, answered \cup {n})
<1>1. later = before \cup {n}
  BY DEF Later
<1>2. /\ t.phase \in Looping => before = {}
      /\ t.phase = "terminal" => AtMostOne(before)
      /\ t.phase = "terminal" /\ ~t.cut => before = {}
      /\ asked # {} => \E m \in asked : \A q \in asked : q <= m
  BY DEF Dialogue
<1> HIDE DEF before, later
<1>3. u.phase \in {"checkpoint", "terminal"} /\ u.phase \notin Looping /\ u.phase # "resume"
  BY DEF Answers, Looping
<1>4. later # {}
  BY <1>1
<1>5. AtMostTwo(later)
  BY <1>1, <1>2, FewAnswers DEF Answers
<1>6. before = {} => AtMostOne(later)
  BY <1>1, FewAnswers
<1>7. ~u.cut => AtMostOne(later)
  BY <1>2, <1>6 DEF Answers
<1>8. u.phase = "terminal" => u.cut /\ AtMostOne(later)
  BY <1>2, <1>6 DEF Answers
<1> QED BY <1>2, <1>3, <1>4, <1>5, <1>7, <1>8 DEF Dialogue, later

\* The messages of a runtime after a step that this party takes.
LEMMA SaidAfter ==
  ASSUME TypeOK, TypeOK', Extension(log, log'), Authored, Authored', NEW w \in Writers,
         Credit(w), NEW r, NEW role
  PROVE  /\ Said(r, role)' = Said(r, role) \cup
              {i \in Len(log) + 1..Len(log') :
                  r = w /\ log'[i].kind = "message" /\ log'[i].data.role = role}
         /\ \A i \in Said(r, role) : i \in Nat /\ i < Len(log) + 1
<1>1. /\ Len(log) \in Nat /\ Len(log') \in Nat /\ Len(log) <= Len(log')
      /\ \A i \in 1..Len(log) : log'[i] = log[i]
  BY StateStable DEF TypeOK, Extension
<1>2. DOMAIN log = 1..Len(log) /\ DOMAIN log' = 1..Len(log')
  BY DEF TypeOK, WellFormed
<1>3. \A i \in Len(log) + 1..Len(log') : author'[i] = w
  BY CreditIsOwn
<1>4. \A i \in 1..Len(log) : author'[i] = author[i]
  <2> DEFINE credit == [j \in 1..(Len(log') - Len(log)) |-> w]
  <2>1. credit \in Seq(Writers)
    <3>1. Len(log') - Len(log) \in Nat
      BY <1>1
    <3> QED BY <3>1
  <2>2. author' = author \o credit
    BY DEF Credit
  <2> HIDE DEF credit
  <2> QED BY <1>1, <2>1, <2>2 DEF Authored
<1>5. \A i : i \in 1..Len(log') <=> (i \in 1..Len(log) \/ i \in Len(log) + 1..Len(log'))
  BY <1>1
<1>6. \A i : i \in Said(r, role)' <=>
         /\ i \in 1..Len(log') /\ author'[i] = r /\ log'[i].kind = "message"
         /\ log'[i].data.role = role
  BY <1>2 DEF Said
<1>7. \A i : i \in Said(r, role) <=>
         /\ i \in 1..Len(log) /\ author[i] = r /\ log[i].kind = "message"
         /\ log[i].data.role = role
  BY <1>2 DEF Said
<1>8. \A i \in Said(r, role) : i \in Nat /\ i < Len(log) + 1
  BY <1>1, <1>7
<1>9. ASSUME NEW i
      PROVE  i \in Said(r, role)' <=>
                \/ i \in Said(r, role)
                \/ i \in {k \in Len(log) + 1..Len(log') :
                            r = w /\ log'[k].kind = "message" /\ log'[k].data.role = role}
  BY <1>1, <1>3, <1>4, <1>5, <1>6, <1>7
<1> QED BY <1>8, <1>9

LEMMA OthersKeepDialogue ==
  ASSUME TypeOK, TypeOK', Extension(log, log'), Authored, Authored', NEW w \in Writers,
         Credit(w), NEW r \in Runtimes, r # w, turn'[r] = turn[r],
         Dialogue(turn[r], Said(r, "user"), Said(r, "assistant"))
  PROVE  Dialogue(turn'[r], Said(r, "user")', Said(r, "assistant")')
<1>1. ASSUME NEW role
      PROVE  Said(r, role)' = Said(r, role)
  <2> DEFINE new == {i \in Len(log) + 1..Len(log') :
                       r = w /\ log'[i].kind = "message" /\ log'[i].data.role = role}
  <2>1. Said(r, role)' = Said(r, role) \cup new
    BY SaidAfter
  <2>2. new = {}
    OBVIOUS
  <2> QED BY <2>1, <2>2
<1>2. Said(r, "user")' = Said(r, "user") /\ Said(r, "assistant")' = Said(r, "assistant")
  BY <1>1
<1> QED BY <1>2

LEMMA SpokenDialogue ==
  ASSUME TypeOK, TypeOK', Extension(log, log'), Authored, Authored', NEW r \in Runtimes,
         Credit(r), Dialogue(turn[r], Said(r, "user"), Said(r, "assistant")),
         Spoken(turn[r], turn'[r], log, log')
  PROVE  Dialogue(turn'[r], Said(r, "user")', Said(r, "assistant")')
<1> DEFINE n == Len(log) + 1
           asked == Said(r, "user")
           answered == Said(r, "assistant")
           New(role) == {i \in n..Len(log') : log'[i].kind = "message"
                                              /\ log'[i].data.role = role}
<1>1. r \in Writers /\ Len(log) \in Nat /\ Len(log') \in Nat
  BY AgentTurnAssumption, StateStable DEF TypeOK
<1>2. /\ Said(r, "user")' = asked \cup New("user")
      /\ Said(r, "assistant")' = answered \cup New("assistant")
      /\ \A i \in asked \cup answered : i \in Nat /\ i < n
  BY <1>1, SaidAfter
<1>3. asked \in SUBSET Nat /\ answered \in SUBSET Nat /\ n \in Nat
  BY <1>1, <1>2
<1>4. CASE Silent(log, log') /\ Follows(turn[r], turn'[r])
  <2>1. New("user") = {} /\ New("assistant") = {}
    BY <1>4 DEF Silent, Without
  <2> QED BY <1>2, <1>4, <2>1, SilentDialogue
<1>5. ASSUME NEW role, NEW other, other # role, Says(role, log, log')
      PROVE  New(role) = {n} /\ New(other) = {}
  <2>1. /\ n \in n..Len(log') /\ log'[n].kind = "message" /\ log'[n].data.role = role
        /\ \A i \in n..Len(log') : i = n \/ log'[i].kind # "message"
    BY <1>1, <1>5 DEF Says
  <2>2. New(role) = {n}
    BY <2>1
  <2>3. New(other) = {}
    BY <1>5, <2>1
  <2> QED BY <2>2, <2>3
<1>6. CASE Says("user", log, log') /\ Asks(turn[r], turn'[r])
  <2>1. New("user") = {n} /\ New("assistant") = {}
    <3>1. Says("user", log, log') /\ "assistant" # "user"
      BY <1>6
    <3> QED BY <1>5, <3>1
  <2> HIDE DEF n, asked, answered, New
  <2>2. Dialogue(turn'[r], asked \cup {n}, answered)
    BY <1>2, <1>3, <1>6, AskedDialogue DEF asked, answered
  <2>3. Said(r, "user")' = asked \cup {n} /\ Said(r, "assistant")' = answered
    BY <1>2, <2>1
  <2> QED BY <2>2, <2>3
<1>7. CASE Says("assistant", log, log') /\ Answers(turn[r], turn'[r])
  <2>1. New("assistant") = {n} /\ New("user") = {}
    <3>1. Says("assistant", log, log') /\ "user" # "assistant"
      BY <1>7
    <3> QED BY <1>5, <3>1
  <2> HIDE DEF n, asked, answered, New
  <2>2. Dialogue(turn'[r], asked, answered \cup {n})
    BY <1>2, <1>3, <1>7, AnsweredDialogue DEF asked, answered
  <2>3. Said(r, "user")' = asked /\ Said(r, "assistant")' = answered \cup {n}
    BY <1>2, <2>1
  <2> QED BY <2>2, <2>3
<1> QED BY <1>4, <1>6, <1>7 DEF Spoken

\* Between the question and the answer a turn stays open.
LEMMA OpenStep ==
  ASSUME turn \in [Runtimes -> Turns], NEW r \in Runtimes,
         \/ NextAttempt(r) \/ BuildRequest(r) \/ SendRequest(r) \/ ReceiveReply(r)
         \/ FailModel(r) \/ ActOnReply(r) \/ RunHostTool(r) \/ RejectTool(r)
         \/ RecordTool(r) \/ PlanStep(r) \/ RetryStep(r)
  PROVE  turn[r].phase \in Looping /\ turn'[r].phase \in Open
<1> DEFINE t == turn[r]
           u == turn'[r]
<1> SUFFICES t.phase \in Looping /\ u.phase \in Open
  OBVIOUS
<1>1. t \in Turns
  OBVIOUS
<1>2. ASSUME NEW phase, Go(r, phase)
      PROVE  u.phase = phase
  <2>1. u = [t EXCEPT !.phase = phase]
    BY <1>2, TurnUpdate DEF Go
  <2> HIDE DEF t, u
  <2> QED BY <1>1, <2>1 DEF Turns
<1>3. ASSUME NEW new, Become(r, new)
      PROVE  u = new
  BY <1>3, TurnUpdate
<1> HIDE DEF u
<1>4. CASE NextAttempt(r)
  <2>1. CASE HasBudget(r)
    <3>1. u = [t EXCEPT !.phase = "build", !.compactions = 0, !.attempts = @ + 1]
      BY <1>3, <1>4, <2>1 DEF NextAttempt
    <3> QED BY <1>1, <1>4, <3>1 DEF NextAttempt, In, Turns, Open, Looping
  <2>2. CASE ~HasBudget(r)
    <3>1. Go(r, "final") /\ In(r, "attempt")
      BY <1>4, <2>2 DEF NextAttempt
    <3> QED BY <1>2, <3>1 DEF In, Open, Looping
  <2> QED BY <2>1, <2>2
<1>5. CASE BuildRequest(r) \/ FailModel(r) \/ CompactRequest(r)
           \/ RefuseLength(r) \/ RecoverLength(r)
  <2>1. /\ t.phase \in {"build", "call", "recover", "compact"}
        /\ \E next \in {"send", "terminal", "build", "recover", "mark"} : Go(r, next)
    BY <1>5 DEF BuildRequest, FailModel, CompactRequest, RefuseLength, RecoverLength, In
  <2> QED BY <1>2, <2>1 DEF Open, Looping
<1>6. CASE FailToCompact(r)
  BY <1>2, <1>6 DEF FailToCompact, In, Open, Looping
<1>7. CASE SendRequest(r)
  <2>1. u = [t EXCEPT !.phase = "call", !.basis = seen[r]] /\ t.phase = "send"
    BY <1>3, <1>7 DEF SendRequest, In
  <2> QED BY <1>1, <2>1 DEF Turns, Open, Looping
<1>8. CASE ReceiveReply(r)
  <2>1. PICK reply \in Replies : u = [t EXCEPT !.phase = "received", !.reply = reply]
    BY <1>3, <1>8 DEF ReceiveReply
  <2> QED BY <1>1, <1>8, <2>1 DEF ReceiveReply, In, Turns, Open, Looping
<1>9. CASE ActOnReply(r)
  <2> DEFINE accepted == [t EXCEPT !.retries = 0]
  <2>1. accepted \in Turns /\ t.phase = "received"
    <3>1. 0 \in 0..MaxRetries
      BY BudgetType
    <3> QED BY <1>1, <1>9, <3>1 DEF ActOnReply, In, Turns
  <2>2. CASE t.reply = "final"
    <3>1. u = [accepted EXCEPT !.phase = "final"]
      BY <1>3, <1>9, <2>2 DEF ActOnReply
    <3> HIDE DEF accepted
    <3> QED BY <2>1, <3>1 DEF Turns, Open, Looping
  <2>3. CASE t.reply = "malformed"
    <3>1. PICK next \in {"attempt", "final"} :
            Become(r, [accepted EXCEPT !.phase = next, !.malformed = TRUE])
      BY <1>9, <2>3 DEF ActOnReply
    <3>2. u = [accepted EXCEPT !.phase = next, !.malformed = TRUE]
      BY <1>3, <3>1
    <3> HIDE DEF accepted
    <3> QED BY <2>1, <3>2 DEF Turns, Open, Looping
  <2>4. CASE t.reply \notin {"final", "malformed"}
    <3>1. u = [accepted EXCEPT !.phase = "tool"]
      BY <1>3, <1>9, <2>4 DEF ActOnReply
    <3> HIDE DEF accepted
    <3> QED BY <2>1, <3>1 DEF Turns, Open, Looping
  <2> QED BY <2>2, <2>3, <2>4
<1>10. CASE RunHostTool(r)
  <2>1. PICK unknown \in BOOLEAN :
          u = [t EXCEPT !.phase = "record", !.unrecorded = TRUE, !.unknown = unknown]
    BY <1>3, <1>10 DEF RunHostTool
  <2> QED BY <1>1, <1>10, <2>1 DEF RunHostTool, In, Turns, Open, Looping
<1>11. CASE RejectTool(r)
  <2>1. PICK phase \in {"record", "advance"}, reply \in {"rejected", "rejected_session_tool"} :
          u = [t EXCEPT !.phase = phase, !.reply = reply]
    BY <1>3, <1>11 DEF RejectTool
  <2> QED BY <1>1, <1>11, <2>1 DEF RejectTool, In, Turns, Open, Looping
<1>12. CASE RecordTool(r)
  <2>1. PICK after \in AfterTool(t) :
          u = [after EXCEPT !.unrecorded = FALSE, !.unknown = FALSE]
    BY <1>3, <1>12 DEF RecordTool
  <2>2. /\ after.phase \in {"final", "attempt"}
        /\ u.phase = after.phase
    <3>1. \/ after = [t EXCEPT !.phase = "final"]
          \/ after = [t EXCEPT !.phase = "attempt"]
          \/ after = [t EXCEPT !.phase = IF t.corrected THEN "final" ELSE "attempt",
                                !.corrected = TRUE]
          \/ after = [t EXCEPT !.phase = "attempt", !.steps = @ + 1]
      BY <2>1 DEF AfterTool
    <3>2. CASE after = [t EXCEPT !.phase = "final"]
      BY <1>1, <2>1, <3>2 DEF Turns
    <3>3. CASE after = [t EXCEPT !.phase = "attempt"]
      BY <1>1, <2>1, <3>3 DEF Turns
    <3>4. CASE after = [t EXCEPT !.phase = IF t.corrected THEN "final" ELSE "attempt",
                                 !.corrected = TRUE]
      BY <1>1, <2>1, <3>4 DEF Turns
    <3>5. CASE after = [t EXCEPT !.phase = "attempt", !.steps = @ + 1]
      BY <1>1, <2>1, <3>5 DEF Turns
    <3> QED BY <3>1, <3>2, <3>3, <3>4, <3>5
  <2> QED BY <1>12, <2>2 DEF RecordTool, In, Open, Looping
<1>14. CASE RetryTransport(r)
  <2>1. u = [t EXCEPT !.phase = "attempt", !.retries = @ + 1] /\ t.phase = "call"
    BY <1>3, <1>14 DEF RetryTransport, In
  <2> QED BY <1>1, <2>1 DEF Turns, Open, Looping
<1>15. CASE ExceedBudget(r)
  <2>1. t.phase = "build"
    BY <1>15 DEF ExceedBudget, In
  <2>2. \/ u = [t EXCEPT !.phase = "compact", !.compactions = @ + 1]
        \/ u.phase = "terminal"
    BY <1>2, <1>3, <1>15 DEF ExceedBudget
  <2> QED BY <1>1, <2>1, <2>2 DEF Turns, Open, Looping
<1>16. CASE MarkRecovered(r)
  <2>1. t.phase = "mark"
    BY <1>16 DEF MarkRecovered, In
  <2>2. \/ u = [t EXCEPT !.phase = "attempt", !.recovered = TRUE]
        \/ u.phase = "terminal"
    BY <1>2, <1>3, <1>16 DEF MarkRecovered
  <2> QED BY <1>1, <2>1, <2>2 DEF Turns, Open, Looping
<1>17. CASE RunWritePlan(r)
  <2>1. t.phase = "tool"
    BY <1>17 DEF RunWritePlan, In
  <2>2. \/ u = [t EXCEPT !.phase = "advance", !.memory = Leaf(log')]
        \/ u.phase = "advance"
    BY <1>2, <1>3, <1>17 DEF RunWritePlan
  <2> QED BY <1>1, <2>1, <2>2 DEF Turns, Open, Looping
<1>18. CASE ShowPlan(r)
  <2>1. t.phase = "tool"
    BY <1>18 DEF ShowPlan, In
  <2>2. \/ \E memory : u = [t EXCEPT !.phase = "advance", !.reply = "rejected_session_tool",
                                     !.memory = memory]
        \/ u.phase = "approve"
    BY <1>2, <1>3, <1>18 DEF ShowPlan
  <2> QED BY <1>1, <2>1, <2>2 DEF Turns, Open, Looping
<1>19. CASE ApprovePlan(r)
  <2>1. /\ u = [t EXCEPT !.phase = "advance", !.memory = Leaf(log'),
                         !.frozen = Projection(log').mode]
        /\ t.phase = "approve"
    BY <1>3, <1>19 DEF ApprovePlan, In
  <2> QED BY <1>1, <2>1 DEF Turns, Open, Looping
<1>20. CASE DeclinePlan(r)
  <2>1. /\ u = [t EXCEPT !.phase = "advance", !.reply = "rejected_session_tool"]
        /\ t.phase = "approve"
    BY <1>3, <1>20 DEF DeclinePlan, In
  <2> QED BY <1>1, <2>1 DEF Turns, Open, Looping
<1>21. CASE RefuseApproval(r)
  <2>1. /\ u = [t EXCEPT !.phase = "advance", !.memory = Leaf(log)]
        /\ t.phase = "approve"
    BY <1>3, <1>21 DEF RefuseApproval, In
  <2> QED BY <1>1, <2>1 DEF Turns, Open, Looping
<1>22. CASE AdvanceGuard(r)
  <2>1. Go(r, "record") /\ t.phase = "advance"
    BY <1>22 DEF AdvanceGuard, In
  <2> QED BY <1>2, <2>1 DEF Open, Looping
<1> QED BY <1>4, <1>5, <1>6, <1>7, <1>8, <1>9, <1>10, <1>11, <1>12, <1>14, <1>15,
           <1>16, <1>17, <1>18, <1>19, <1>20, <1>21, <1>22 DEF PlanStep, RetryStep

\* The steps that add no message to the file.
LEMMA SilentStep ==
  ASSUME TypeOK, NEW r \in Runtimes,
         \/ NextAttempt(r) \/ BuildRequest(r) \/ SendRequest(r) \/ ReceiveReply(r)
         \/ FailModel(r) \/ ActOnReply(r) \/ RunHostTool(r) \/ RejectTool(r)
         \/ RecordTool(r) \/ PlanStep(r) \/ RetryStep(r)
         \/ BreakLoop(r) \/ BreakClosing(r)
         \/ CommitCheckpoint(r) \/ FindChange(r) \/ StartTurn(r) \/ RefuseTurn(r)
         \/ GiveCommand(r) \/ FinishCommand(r)
  PROVE  Silent(log, log')
<1>1. WellFormed(log) /\ Len(log) \in Nat /\ r \in Writers
  BY ProjectionType, AgentTurnAssumption DEF TypeOK
<1>2. log' = log => Silent(log, log')
  BY <1>1 DEF Silent, Without
<1>3. ASSUME NEW body, body.kind # "message", NEW after,
             Write(r, Add(log, Leaf(log), body), after)
      PROVE  Silent(log, log')
  <2>1. log' = Add(log, Leaf(log), body)
    BY <1>3, WriteIsWhole
  <2> QED BY <1>1, <1>3, <2>1, AddWithout DEF Silent
<1>4. ASSUME NEW model, NEW identity, NEW after,
             Write(r, Add(log, Leaf(log), Info(model, identity, None)), after)
      PROVE  Silent(log, log')
  BY <1>3, <1>4 DEF Info
<1>5. CASE NextAttempt(r) \/ SendRequest(r) \/ ReceiveReply(r) \/ FailModel(r)
           \/ RunHostTool(r) \/ RejectTool(r) \/ FindChange(r)
           \/ RefuseTurn(r) \/ BreakLoop(r) \/ BreakClosing(r)
  BY <1>2, <1>5 DEF NextAttempt, SendRequest, ReceiveReply, FailModel, RunHostTool,
                    RejectTool, FindChange, RefuseTurn, BreakLoop, BreakClosing,
                    Recapture, vars
<1>6. CASE ActOnReply(r)
  BY <1>2, <1>6 DEF ActOnReply, vars
<1>7. CASE BuildRequest(r)
  BY <1>2, <1>4, <1>7 DEF BuildRequest, AppendState, vars
<1>8. CASE RecordTool(r)
  <2> DEFINE e == MessagesLog(log, ToolExchange, r)
  <2>1. ToolExchange \in TurnBodies /\ ToolExchange.kind = "tool_exchange"
    BY DEF TurnBodies, ToolExchange
  <2>2. /\ Len(e) \in Nat /\ e[Len(log) + 1].kind = "tool_exchange"
        /\ \A i \in Len(log) + 2..Len(e) : e[i].kind = "session_info"
    BY <1>1, <2>1, MessagesAdded
  <2>3. log' = e
    BY <1>8, WriteIsWhole DEF RecordTool, AppendMessages
  <2> HIDE DEF e
  <2> QED BY <1>1, <2>2, <2>3 DEF Silent, Without
<1>9. CASE CommitCheckpoint(r)
  <2>1. CASE turn[r].blocked
    BY <1>2, <1>9, <2>1 DEF CommitCheckpoint, vars
  <2>2. CASE ~turn[r].blocked
    <3>1. TaskCheckpoint(r).kind # "message"
      BY DEF TaskCheckpoint
    <3> QED BY <1>3, <1>9, <2>2, <3>1 DEF CommitCheckpoint, AppendTaskCheckpoint
  <2> QED BY <2>1, <2>2
<1>10. CASE StartTurn(r)
  BY <1>2, <1>10 DEF StartTurn, Recapture
<1>11. CASE RunWritePlan(r)
  <2>1. CASE UNCHANGED vars
    BY <1>2, <2>1 DEF vars
  <2>2. ASSUME NEW text, WritePlan(r, text)
        PROVE  Silent(log, log')
    <3>1. \A revision : PlanArtifact(text, revision).kind # "message"
      BY DEF PlanArtifact
    <3> QED BY <1>3, <2>2, <3>1 DEF WritePlan, PlanLog
  <2> QED BY <1>11, <2>1, <2>2 DEF RunWritePlan
<1>12. CASE ApprovePlan(r)
  <2>1. \A target : ModeChange(target, None).kind # "message"
    BY DEF ModeChange
  <2> QED BY <1>3, <1>12, <2>1 DEF ApprovePlan, ExitPlanMode
<1>13. CASE ShowPlan(r) \/ DeclinePlan(r) \/ RefuseApproval(r) \/ AdvanceGuard(r)
  BY <1>2, <1>13 DEF ShowPlan, DeclinePlan, RefuseApproval, AdvanceGuard, Recapture, vars
<1>14. CASE RetryTransport(r) \/ ExceedBudget(r) \/ FailToCompact(r) \/ RefuseLength(r)
  BY <1>2, <1>14 DEF RetryTransport, ExceedBudget, FailToCompact, RefuseLength, vars
<1>15. CASE CompactRequest(r) \/ RecoverLength(r)
  <2>1. PICK kept : Compact(r, kept)
    BY <1>15 DEF CompactRequest, RecoverLength
  <2>2. CompactionPlan(log, seen[r], kept).kind # "message"
    BY DEF CompactionPlan, Compaction
  <2> QED BY <1>3, <2>1, <2>2 DEF Compact
<1>16. CASE MarkRecovered(r)
  <2>1. CASE UNCHANGED vars
    BY <1>2, <2>1 DEF vars
  <2>2. CASE MarkRecovery(r)
    <3>1. ContextRecovery.kind # "message"
      BY DEF ContextRecovery
    <3> QED BY <1>3, <2>2, <3>1 DEF MarkRecovery
  <2> QED BY <1>16, <2>1, <2>2 DEF MarkRecovered
<1>17. CASE GiveCommand(r)
  <2>1. CASE StartSwitch(r) \/ Reopen(r)
    BY <1>2, <2>1 DEF StartSwitch, Reopen, Recapture
  <2>2. CASE ChangeMode(r)
    <3>1. PICK mode \in Modes : UpdatePermissions(r, mode, None, "none")
      BY <2>2 DEF ChangeMode
    <3>2. log' = PermissionsLog(log, mode, None, Projection(log).rules)
      BY <3>1, WriteIsWhole DEF UpdatePermissions
    <3> QED BY <1>1, <3>2, PermissionsWithout DEF Silent
  <2> QED BY <1>17, <2>1, <2>2 DEF GiveCommand
<1>18. CASE FinishCommand(r)
  <2>1. CASE SwitchModel(r)
    BY <1>4, <2>1 DEF SwitchModel, SetProviderModel
  <2>2. CASE RefuseSwitch(r)
    BY <1>2, <2>2 DEF RefuseSwitch, vars
  <2>3. CASE PersistIdentity(r)
    <3>1. CASE UNCHANGED vars
      BY <1>2, <3>1 DEF vars
    <3>2. CASE PersistResumed(r)
      BY <1>4, <3>2 DEF PersistResumed
    <3> QED BY <2>3, <3>1, <3>2 DEF PersistIdentity
  <2> QED BY <1>18, <2>1, <2>2, <2>3 DEF FinishCommand
<1> QED BY <1>5, <1>6, <1>7, <1>8, <1>9, <1>10, <1>11, <1>12, <1>13, <1>14, <1>15,
           <1>16, <1>17, <1>18 DEF PlanStep, RetryStep

\* The steps outside the open part of a turn that add no message.
LEMMA IdleFollows ==
  ASSUME turn \in [Runtimes -> Turns], NEW r \in Runtimes,
         turn[r].phase = "resume" => turn[r].number = 0,
         \/ CommitCheckpoint(r) \/ FindChange(r) \/ StartTurn(r) \/ RefuseTurn(r)
         \/ GiveCommand(r) \/ FinishCommand(r) \/ BreakLoop(r) \/ BreakClosing(r)
  PROVE  Follows(turn[r], turn'[r])
<1> DEFINE t == turn[r]
           u == turn'[r]
<1> SUFFICES Follows(t, u)
  OBVIOUS
<1>1. t \in Turns
  OBVIOUS
<1>2. ASSUME NEW new, Become(r, new)
      PROVE  u = new
  BY <1>2, TurnUpdate
<1>3. t.phase = "resume" => t.number = 0
  OBVIOUS
<1> HIDE DEF t, u
<1>4. ASSUME NEW phase \in {"idle", "switch"}, u = [t EXCEPT !.phase = phase],
             t.phase \in {"idle", "switch", "resume"}
      PROVE  Follows(t, u)
  <2>1. /\ u.phase = phase /\ u.number = t.number /\ u.blocked = t.blocked
        /\ u.cut = t.cut
    BY <1>1, <1>4 DEF Turns
  <2> QED BY <1>3, <1>4, <2>1 DEF Follows, Closed, Open, Looping
<1>5. CASE CommitCheckpoint(r)
  <2>1. t.phase = "checkpoint" /\ u = [t EXCEPT !.phase = "idle", !.reply = "none", !.basis = 0]
    BY <1>2, <1>5 DEF CommitCheckpoint, In, t
  <2>2. u.phase = "idle" /\ u.blocked = t.blocked /\ u.cut = t.cut
    BY <1>1, <2>1 DEF Turns
  <2> QED BY <2>1, <2>2 DEF Follows, Closed, Open, Looping
<1>6. CASE FindChange(r)
  <2>1. /\ t.phase \in Looping \cup {"prompt"}
        /\ u = [t EXCEPT !.phase = IF @ = "prompt" THEN "idle" ELSE "terminal",
                         !.blocked = TRUE]
    BY <1>2, <1>6 DEF FindChange, ChangeFound, In, Looping, t
  <2>2. /\ u.phase = IF t.phase = "prompt" THEN "idle" ELSE "terminal"
        /\ u.blocked /\ u.cut = t.cut
    BY <1>1, <2>1 DEF Turns
  <2> QED BY <2>1, <2>2 DEF Follows, Closed, Open, Looping
<1>7. CASE StartTurn(r)
  <2>1. u.phase = "prompt" /\ u.cut = t.cut
    <3>1. u = [NewTurn EXCEPT !.phase = "prompt", !.number = t.number + 1,
                              !.client = t.client, !.memory = t.memory, !.cut = t.cut,
                              !.frozen = StateAt(log, t.memory).mode]
      BY <1>2, <1>7 DEF StartTurn, t
    <3> QED BY <3>1 DEF NewTurn
  <2> QED BY <2>1 DEF Follows, Closed, Open, Looping
<1>8. CASE RefuseTurn(r)
  <2>1. t.phase = "idle" /\ u = [t EXCEPT !.blocked = TRUE]
    BY <1>2, <1>8 DEF RefuseTurn, In, t
  <2>2. u.phase = "idle" /\ u.blocked /\ u.cut = t.cut
    BY <1>1, <2>1 DEF Turns
  <2> QED BY <2>2 DEF Follows, Closed, Open, Looping
<1>9. CASE StartSwitch(r) \/ RefuseSwitch(r) \/ PersistIdentity(r)
  <2>1. /\ t.phase \in {"idle", "switch", "resume"}
        /\ \E phase \in {"idle", "switch"} : u = [t EXCEPT !.phase = phase]
    BY <1>2, <1>9 DEF StartSwitch, RefuseSwitch, PersistIdentity, In, Go, t
  <2> QED BY <1>4, <2>1
<1>10. CASE SwitchModel(r)
  <2>1. t.phase = "switch"
    BY <1>10 DEF SwitchModel, In, t
  <2>2. PICK model \in Models :
          u = [t EXCEPT !.phase = "idle", !.client = model, !.memory = Leaf(log')]
    BY <1>2, <1>10 DEF SwitchModel, t
  <2>3. u.phase = "idle" /\ u.number = t.number /\ u.blocked = t.blocked /\ u.cut = t.cut
    BY <1>1, <2>2 DEF Turns
  <2> QED BY <2>1, <2>3 DEF Follows, Closed, Open, Looping
<1>11. CASE ChangeMode(r)
  <2>1. t.phase = "idle" /\ u = [t EXCEPT !.memory = Leaf(log')]
    BY <1>2, <1>11 DEF ChangeMode, In, t
  <2>2. u.phase = "idle" /\ u.number = t.number /\ u.blocked = t.blocked /\ u.cut = t.cut
    BY <1>1, <2>1 DEF Turns
  <2> QED BY <2>1, <2>2 DEF Follows, Closed, Open, Looping
<1>12. CASE Reopen(r)
  <2>1. u.phase = "resume" /\ u.number = 0 /\ u.cut = t.cut
    <3>1. PICK memory, client :
            u = [NewTurn EXCEPT !.phase = "resume", !.memory = memory, !.cut = t.cut,
                                !.client = client]
      BY <1>2, <1>12 DEF Reopen, t
    <3> QED BY <3>1 DEF NewTurn
  <2> QED BY <2>1 DEF Follows, Closed, Open, Looping
<1>13. CASE BreakLoop(r)
  <2>1. PICK next \in {"terminal", "checkpoint"} :
          u = [Broken(t, next) EXCEPT !.unrecorded = @ \/ (In(r, "tool") /\ t.reply = "host")]
    BY <1>2, <1>13 DEF BreakLoop, t
  <2> DEFINE b == Broken(t, next)
  <2>2. b \in Turns /\ b.phase = next /\ b.cut = TRUE
    <3>1. next \in Phases
      BY DEF Phases
    <3> QED BY <1>1, <3>1, BrokenTurn
  <2>3. u = [b EXCEPT !.unrecorded = @ \/ (In(r, "tool") /\ t.reply = "host")]
    BY <2>1
  <2> HIDE DEF b
  <2>4. u.phase = next /\ u.cut = TRUE
    BY <2>2, <2>3 DEF Turns
  <2>5. t.phase \in Looping
    BY <1>13 DEF BreakLoop, t
  <2> QED BY <2>4, <2>5 DEF Follows, Open
<1>14. CASE BreakClosing(r)
  <2>1. t.phase \in {"terminal", "checkpoint"}
    BY <1>14 DEF BreakClosing, t
  <2>2. /\ Broken(t, "checkpoint").phase = "checkpoint" /\ Broken(t, "checkpoint").cut = TRUE
        /\ Broken(t, "idle") \in Turns /\ Broken(t, "idle").phase = "idle"
        /\ Broken(t, "idle").blocked = t.blocked
    <3>1. "checkpoint" \in Phases /\ "idle" \in Phases
      BY DEF Phases
    <3> QED BY <1>1, <3>1, BrokenTurn
  <2>3. CASE u = Broken(t, "checkpoint")
    BY <2>2, <2>3 DEF Follows, Closed, Open, Looping
  <2>4. CASE u = [Broken(t, "idle") EXCEPT !.cut = t.cut \/ In(r, "terminal")]
    <3> DEFINE b == Broken(t, "idle")
               cut == t.cut \/ t.phase = "terminal"
    <3>1. u = [b EXCEPT !.cut = cut]
      BY <2>4 DEF In, t
    <3>2. b \in Turns /\ b.phase = "idle" /\ b.blocked = t.blocked
      BY <2>2
    <3> HIDE DEF b
    <3>3. u.phase = "idle" /\ u.cut = cut /\ u.blocked = t.blocked
      BY <3>1, <3>2 DEF Turns
    <3> QED BY <2>1, <3>3 DEF Follows, Closed, Open, Looping
  <2>5. \/ u = Broken(t, "checkpoint")
        \/ u = [Broken(t, "idle") EXCEPT !.cut = t.cut \/ In(r, "terminal")]
    BY <1>2, <1>14 DEF BreakClosing, t
  <2> QED BY <2>3, <2>4, <2>5
<1> QED BY <1>5, <1>6, <1>7, <1>8, <1>9, <1>10, <1>11, <1>12, <1>13, <1>14
        DEF GiveCommand, FinishCommand

\* The messages of a turn: its question opens it, its answer closes it, and
\* nothing else its runtime does adds one.
LEMMA StepSpeaks ==
  ASSUME TypeOK, turn \in [Runtimes -> Turns], NEW r \in Runtimes,
         turn[r].phase = "resume" => turn[r].number = 0,
         RuntimeStep(r) \/ UserStep(r)
  PROVE  Spoken(turn[r], turn'[r], log, log')
<1>1. WellFormed(log) /\ Len(log) \in Nat /\ r \in Writers /\ turn[r] \in Turns
  BY ProjectionType, AgentTurnAssumption DEF TypeOK
<1>2. ASSUME NEW role \in {"user", "assistant"}, NEW after,
             Write(r, MessagesLog(log, Message(role), r), after)
      PROVE  Says(role, log, log')
  <2> DEFINE e == MessagesLog(log, Message(role), r)
  <2>1. /\ Message(role) \in TurnBodies
        /\ Message(role).kind = "message" /\ Message(role).data.role = role
    BY DEF TurnBodies, Message
  <2>2. /\ Len(log) < Len(e) /\ e[Len(log) + 1].kind = "message"
        /\ e[Len(log) + 1].data.role = role
        /\ \A i \in Len(log) + 2..Len(e) : e[i].kind = "session_info"
    BY <1>1, <2>1, MessagesAdded
  <2>3. log' = e
    BY <1>2, WriteIsWhole
  <2> HIDE DEF e
  <2> QED BY <2>2, <2>3 DEF Says
<1>3. ASSUME NEW phase, Go(r, phase)
      PROVE  /\ turn'[r].phase = phase /\ turn'[r].blocked = turn[r].blocked
             /\ turn'[r].cut = turn[r].cut
  <2>1. turn'[r] = [turn[r] EXCEPT !.phase = phase]
    BY <1>3, TurnUpdate DEF Go
  <2> QED BY <1>1, <2>1 DEF Turns
<1>4. CASE \/ NextAttempt(r) \/ BuildRequest(r) \/ SendRequest(r) \/ ReceiveReply(r)
           \/ FailModel(r) \/ ActOnReply(r) \/ RunHostTool(r) \/ RejectTool(r)
           \/ RecordTool(r) \/ PlanStep(r) \/ RetryStep(r)
  <2>1. Follows(turn[r], turn'[r])
    BY <1>4, OpenStep DEF Follows
  <2> QED BY <1>4, <2>1, SilentStep DEF Spoken
<1>5. CASE \/ CommitCheckpoint(r) \/ FindChange(r) \/ StartTurn(r) \/ RefuseTurn(r)
           \/ GiveCommand(r) \/ FinishCommand(r) \/ BreakLoop(r) \/ BreakClosing(r)
  BY <1>5, SilentStep, IdleFollows DEF Spoken
<1>6. CASE CommitPrompt(r)
  <2>1. Says("user", log, log')
    BY <1>2, <1>6 DEF CommitPrompt, AppendMessages
  <2>2. turn'[r].phase = "attempt"
    <3>1. turn'[r] = [turn[r] EXCEPT !.phase = "attempt", !.cut = FALSE]
      BY <1>6, TurnUpdate DEF CommitPrompt
    <3> QED BY <1>1, <3>1 DEF Turns
  <2> QED BY <2>1, <2>2 DEF Spoken, Asks
<1>7. CASE CommitFinal(r)
  <2>1. Says("assistant", log, log')
    BY <1>2, <1>7 DEF CommitFinal, AppendMessages
  <2>2. turn[r].phase \in Looping /\ turn'[r].phase = "checkpoint"
    BY <1>3, <1>7 DEF CommitFinal, In, Looping
  <2> QED BY <2>1, <2>2 DEF Spoken, Answers
<1>8. CASE CommitTerminal(r)
  <2>1. /\ turn[r].phase = "terminal" /\ turn'[r].phase = "checkpoint"
        /\ turn'[r].blocked = turn[r].blocked /\ turn'[r].cut = turn[r].cut
    BY <1>3, <1>8 DEF CommitTerminal, In
  <2>2. CASE turn[r].blocked
    <3>1. log' = log
      BY <1>8, <2>2 DEF CommitTerminal, vars
    <3>2. Silent(log, log')
      BY <1>1, <3>1 DEF Silent, Without
    <3>3. Follows(turn[r], turn'[r])
      BY <2>1, <2>2 DEF Follows, Closed, Open, Looping
    <3> QED BY <3>2, <3>3 DEF Spoken
  <2>3. CASE ~turn[r].blocked
    <3>1. Says("assistant", log, log')
      BY <1>2, <1>8, <2>3 DEF CommitTerminal, AppendTerminal
    <3> QED BY <2>1, <3>1 DEF Spoken, Answers
  <2> QED BY <2>2, <2>3
<1>9. CASE BreakFinal(r)
  <2>1. Says("assistant", log, log')
    BY <1>2, <1>9 DEF BreakFinal, AppendMessages
  <2>2. turn'[r] = Broken(turn[r], "terminal") /\ turn[r].phase \in Looping
    BY <1>9, TurnUpdate DEF BreakFinal, In, Looping
  <2>3. turn'[r].phase = "terminal" /\ turn'[r].cut
    <3>1. "terminal" \in Phases
      BY DEF Phases
    <3>2. Broken(turn[r], "terminal").phase = "terminal" /\ Broken(turn[r], "terminal").cut = TRUE
      BY <1>1, <3>1, BrokenTurn
    <3> QED BY <2>2, <3>2
  <2> QED BY <2>1, <2>2, <2>3 DEF Spoken, Answers
<1>10. CASE BreakPrompt(r)
  <2>1. turn'[r] = Broken(turn[r], "idle") /\ turn[r].phase = "prompt"
    BY <1>10, TurnUpdate DEF BreakPrompt, In
  <2>2. turn'[r].phase = "idle" /\ turn'[r].cut
    <3>1. "idle" \in Phases
      BY DEF Phases
    <3>2. Broken(turn[r], "idle").phase = "idle" /\ Broken(turn[r], "idle").cut = TRUE
      BY <1>1, <3>1, BrokenTurn
    <3> QED BY <2>1, <3>2
  <2>3. CASE AppendMessages(r, Message("user"))
    <3>1. Says("user", log, log')
      BY <1>2, <2>3 DEF AppendMessages
    <3> QED BY <2>2, <3>1 DEF Spoken, Asks
  <2>4. CASE UNCHANGED vars
    <3>1. Silent(log, log')
      BY <1>1, <2>4 DEF Silent, Without, vars
    <3>2. Follows(turn[r], turn'[r])
      BY <2>2 DEF Follows, Closed, Open, Looping
    <3> QED BY <3>1, <3>2 DEF Spoken
  <2> QED BY <1>10, <2>3, <2>4 DEF BreakPrompt
<1> QED BY <1>4, <1>5, <1>6, <1>7, <1>8, <1>9, <1>10
        DEF RuntimeStep, UserStep, TurnStep, AnswerStep, Break

LEMMA InitDialogue == AgentInit => DialogueInv
<1> SUFFICES ASSUME AgentInit, NEW r \in Runtimes
             PROVE  Dialogue(turn[r], Said(r, "user"), Said(r, "assistant"))
  BY DEF DialogueInv
<1> DEFINE empty == <<>>
           body == Info(FirstModel, Creator, NoRules)
           info == Add(empty, 0, body)
           change == ModeChange("auto", None)
           moded == Add(info, Leaf(info), change)
<1>1. WellFormed(empty)
  BY DEF WellFormed
<1>2. Len(empty) = 0
  OBVIOUS
<1>3. body \in Bodies /\ body.kind = "session_info"
  <2>1. body \in Bodies
    BY BodyConstructors, SessionStoreAssumption DEF NoRules, Rules, PlainBodies
  <2> QED BY <2>1 DEF Info
<1> HIDE DEF empty, body
<1>4. WellFormed(info)
  <2>1. 0 \in 0..Len(empty)
    BY <1>2
  <2> QED BY <1>1, <1>3, <2>1, AddWellFormed
<1>5. Len(info) = 1 /\ info[1].kind = "session_info"
  <2>1. Len(info) = Len(empty) + 1 /\ info[Len(empty) + 1].kind = body.kind
    BY <1>1, AddedLine
  <2> HIDE DEF info
  <2> QED BY <1>2, <1>3, <2>1
<1> HIDE DEF info
<1>6. change.kind = "permission_mode_change"
  BY DEF ModeChange
<1>7. log = moded
  <2>1. [Base EXCEPT !.mode = "auto"].mode = "auto"
    BY DEF Base
  <2> QED BY <2>1 DEF AgentInit, Init, NewLog, RestatePermissions, AddIf, info, empty, body
<1> HIDE DEF change
<1>8. /\ Len(moded) = 2 /\ moded[1] = info[1] /\ moded[2].kind = "permission_mode_change"
  <2>1. /\ Len(moded) = Len(info) + 1 /\ moded[Len(info) + 1].kind = change.kind
        /\ \A k \in 1..Len(info) : moded[k] = info[k]
    BY <1>4, AddedLine
  <2> HIDE DEF moded
  <2> QED BY <1>5, <1>6, <2>1
<1> HIDE DEF moded
<1>9. \A i \in DOMAIN log : log[i].kind # "message"
  <2>1. WellFormed(log)
    BY InitType DEF AgentInit, TypeOK
  <2>2. DOMAIN log = 1..2
    BY <1>7, <1>8, <2>1 DEF WellFormed
  <2> QED BY <1>5, <1>7, <1>8, <2>2
<1>10. Said(r, "user") = {} /\ Said(r, "assistant") = {}
  BY <1>9 DEF Said
<1>11. turn[r].phase = "idle" /\ turn[r].number = 0
  BY DEF AgentInit, NewTurn
<1>12. Later({}, {}) = {}
  BY DEF Later
<1> QED BY <1>10, <1>11, <1>12, FewAnswers DEF Dialogue, Closed, Looping

LEMMA NextDialogue ==
  AgentInv /\ DialogueInv /\ [AgentNext]_agentVars => DialogueInv'
<1> SUFFICES ASSUME AgentInv, DialogueInv, [AgentNext]_agentVars, NEW r \in Runtimes
             PROVE  Dialogue(turn'[r], Said(r, "user")', Said(r, "assistant")')
  BY DEF DialogueInv
<1>1. /\ TypeOK /\ TypeOK' /\ Extension(log, log') /\ Authored /\ Authored'
      /\ Dialogue(turn[r], Said(r, "user"), Said(r, "assistant"))
  BY AgentStepIsStore, NextAgent DEF AgentInv, DialogueInv
<1>2. CASE UNCHANGED agentVars
  <2>1. turn' = turn /\ log' = log /\ author' = author
    BY <1>2 DEF agentVars, vars
  <2>2. \A role : Said(r, role)' = Said(r, role)
    BY <2>1 DEF Said
  <2> QED BY <1>1, <2>1, <2>2
<1>3. CASE RuntimeStep(r) \/ UserStep(r)
  <2>1. Credit(r)
    BY <1>3 DEF RuntimeStep, UserStep
  <2>2. turn \in [Runtimes -> Turns] /\ (turn[r].phase = "resume" => turn[r].number = 0)
    BY <1>1 DEF AgentInv, Dialogue
  <2>3. Spoken(turn[r], turn'[r], log, log')
    BY <1>1, <1>3, <2>2, StepSpeaks
  <2> QED BY <1>1, <2>1, <2>3, SpokenDialogue
<1>4. ASSUME ~(RuntimeStep(r) \/ UserStep(r))
      PROVE  turn'[r] = turn[r]
  BY <1>4, OthersKeepTurn
<1>5. ASSUME NEW w \in Writers, w # r, Credit(w), turn'[r] = turn[r]
      PROVE  Dialogue(turn'[r], Said(r, "user")', Said(r, "assistant")')
  BY <1>1, <1>5, OthersKeepDialogue
<1>6. ASSUME NEW q \in Runtimes, RuntimeStep(q) \/ UserStep(q)
      PROVE  Dialogue(turn'[r], Said(r, "user")', Said(r, "assistant")')
  <2>1. Credit(q) /\ q \in Writers
    BY <1>6, AgentTurnAssumption DEF RuntimeStep, UserStep
  <2> QED BY <1>3, <1>4, <1>5, <1>6, <2>1
<1>7. ASSUME NEW w \in Writers \ Runtimes, Credit(w), turn' = turn
      PROVE  Dialogue(turn'[r], Said(r, "user")', Said(r, "assistant")')
  BY <1>5, <1>7
<1> QED BY <1>2, <1>6, <1>7 DEF AgentNext

LEMMA DialogueMeaning == AgentInv /\ DialogueInv => TurnAnsweredOnce
<1> SUFFICES ASSUME AgentInv, DialogueInv, NEW r \in Runtimes
             PROVE  LET last == MaxOf(Said(r, "user") \cup {0})
                        answers == {i \in Said(r, "assistant") : last < i}
                    IN  /\ Cardinality(answers) <= IF turn[r].cut THEN 2 ELSE 1
                        /\ In(r, "idle") /\ ~turn[r].blocked /\ ~turn[r].cut
                             /\ turn[r].number > 0 => answers # {}
  BY DEF TurnAnsweredOnce
<1> DEFINE asked == Said(r, "user")
           answered == Said(r, "assistant")
           last == MaxOf(asked \cup {0})
           answers == {i \in answered : last < i}
<1>1. Dialogue(turn[r], asked, answered)
  BY DEF DialogueInv
<1>2. /\ \A i \in asked : i \in Nat /\ 0 < i
      /\ \A i \in answered : i \in Nat /\ 0 < i
  <2>1. DOMAIN log = 1..Len(log) /\ Len(log) \in Nat
    BY ProjectionType DEF AgentInv, TypeOK, WellFormed
  <2> QED BY <2>1 DEF Said
<1> HIDE DEF asked, answered
<1>3. last \in asked \cup {0} /\ \A q \in asked : q <= last
  <2>1. \E m \in asked \cup {0} : \A q \in asked \cup {0} : q <= m
    <3>1. CASE asked = {}
      BY <3>1
    <3>2. CASE asked # {}
      BY <1>1, <1>2, <3>2 DEF Dialogue
    <3> QED BY <3>1, <3>2
  <2>2. last \in asked \cup {0} /\ \A q \in asked \cup {0} : q <= last
    BY <2>1 DEF MaxOf
  <2> QED BY <2>2
<1> HIDE DEF last
<1>4. answers = Later(asked, answered)
  <2>1. ASSUME NEW i \in answered
        PROVE  last < i <=> \A q \in asked : q < i
    <3>1. last \in Nat /\ i \in Nat /\ 0 < i /\ \A q \in asked : q \in Nat
      BY <1>2, <1>3
    <3> QED BY <1>3, <3>1
  <2> QED BY <2>1 DEF Later
<1> HIDE DEF answers
<1>5. ASSUME AtMostOne(answers)
      PROVE  Cardinality(answers) <= 1
  <2>1. PICK i : answers \subseteq {i}
    BY <1>5 DEF AtMostOne
  <2>2. answers = {} \/ answers = {i}
    BY <2>1
  <2>3. Cardinality({}) = 0 /\ Cardinality({i}) = 1
    BY FS_EmptySet, FS_Singleton, Zenon
  <2> QED BY <2>2, <2>3
<1>6. ASSUME AtMostTwo(answers)
      PROVE  Cardinality(answers) <= 2
  <2>1. PICK i, j : answers \subseteq {i, j}
    BY <1>6 DEF AtMostTwo
  <2>2. IsFiniteSet({i}) /\ Cardinality({i}) = 1
    BY FS_Singleton, Zenon
  <2>3. /\ IsFiniteSet({i} \cup {j})
        /\ Cardinality({i} \cup {j}) = IF j \in {i} THEN Cardinality({i})
                                       ELSE Cardinality({i}) + 1
    BY <2>2, FS_AddElement, Zenon
  <2>4. answers \subseteq {i} \cup {j}
    BY <2>1
  <2>5. /\ IsFiniteSet(answers)
        /\ Cardinality(answers) <= Cardinality({i} \cup {j})
    BY <2>3, <2>4, FS_Subset, Zenon
  <2>6. Cardinality(answers) \in Nat
    BY <2>5, FS_CardinalityType, Zenon
  <2> DEFINE k == Cardinality({i} \cup {j})
             c == Cardinality(answers)
  <2>7. k \in {1, 2} /\ c \in Nat /\ c <= k
    BY <2>2, <2>3, <2>5, <2>6
  <2> HIDE DEF k, c
  <2>8. c <= 2
    BY <2>7
  <2> QED BY <2>8 DEF c
<1>7. ~turn[r].cut => AtMostOne(answers)
  BY <1>1, <1>4 DEF Dialogue
<1>8. AtMostTwo(answers)
  BY <1>1, <1>4 DEF Dialogue
<1>9. ASSUME In(r, "idle"), ~turn[r].blocked, ~turn[r].cut, turn[r].number > 0
      PROVE  answers # {}
  BY <1>1, <1>4, <1>9 DEF Dialogue, Closed, In
<1>10. Cardinality(answers) <= IF turn[r].cut THEN 2 ELSE 1
  BY <1>5, <1>6, <1>7, <1>8
<1> QED BY <1>9, <1>10 DEF asked, answered, last, answers

\* A turn that nothing breaks off is closed by one message, whichever way it
\* ends: the answer, the budget, an error of the model or a malformed reply, in
\* any order with the turns of other runtimes; a blocked runtime leaves its turn
\* open.  Ctrl-C and errors of the disk may leave it open or, when they meet the
\* append of the answer, close it twice, never more often
\* (_commit_final and _finalize_run in loop.py).
THEOREM TurnsAreAnsweredOnce == AgentSpec => []TurnAnsweredOnce
  BY InitAgent, NextAgent, InitDialogue, NextDialogue, DialogueMeaning, PTL DEF AgentSpec
=============================================================================
