----------------------------- MODULE ToolsProofs ----------------------------
(*****************************************************************************)
(* What a tool call reports is what it did, for any number of runtimes in one*)
(* workspace and any history of edits by others; what the commands on the    *)
(* worktree agents merge and keep, for any number of agents; which commands run*)
(* without a question, whatever they are made of; and what running a         *)
(* command, and Git in particular, returns and leaves behind, for any amount of*)
(* output and any configuration of the repository.                           *)
(*****************************************************************************)
EXTENDS ToolExecution, WorktreeAgents, CommandPolicy, Commands, GitCommand, TLAPS

ToolWaiting == {"request", "approve", "lock", "before"}
ToolStatuses == {"none", "rejected", "ok", "error", "partial_success", "interrupted", "unknown"}
Endings == {"none", "ok", "exception", "interrupt", "nonzero"}
ToolCall == [pc : ToolWaiting \cup {"run", "after", "leave", "done"}, name : Tools, before : Nat,
         touched : BOOLEAN, outcome : Endings, observed : BOOLEAN, changed : BOOLEAN,
         status : ToolStatuses, primary : ToolStatuses]

ToolTyped ==
    /\ workspace \in [version : Nat, edits : Nat, replaced : BOOLEAN]
    /\ mutator \in Callers \cup {NoCaller}
    /\ tool \in [Callers -> ToolCall]

\* The lock is held around whatever may write, so between its observations a
\* call meets only its own writes and those of the user.
Alone(e) ==
    /\ tool[e].pc \in {"before", "after", "leave"} => mutator = e
    /\ IsAt(e, "lock") => Effect(tool[e].name) # "read_only"
    /\ IsAt(e, "run") /\ Effect(tool[e].name) # "read_only" => mutator = e
    /\ tool[e].pc \in {"before", "after"} \/ tool[e].touched => Observable(e)
    /\ tool[e].pc \in {"run", "after"} /\ Observable(e) =>
          /\ tool[e].before <= workspace.version
          /\ tool[e].touched => tool[e].before < workspace.version
          /\ workspace.edits = 0 /\ ~tool[e].touched => tool[e].before = workspace.version

\* Nothing is said of a call before it ran and was looked at.
Unsaid(e) ==
    /\ tool[e].pc \in ToolWaiting => ~tool[e].touched
    /\ tool[e].pc \in ToolWaiting \cup {"run"} => tool[e].outcome = "none"
    /\ tool[e].pc \in ToolWaiting \cup {"run", "after"} => ~tool[e].observed /\ ~tool[e].changed

\* What is said of it then.
Told(e) ==
    /\ tool[e].touched =>
         \/ tool[e].changed
         \/ tool[e].status = "unknown"
         \/ tool[e].status = "interrupted" /\ ~tool[e].observed
    /\ tool[e].status = "ok" => tool[e].outcome = "ok" /\ (Observable(e) => tool[e].observed)
    /\ tool[e].outcome \in {"nonzero", "exception"} /\ tool[e].changed =>
         tool[e].status = "partial_success"
ToldSo(e) ==
    /\ IsAt(e, "leave") => Released(e) /\ Told(e)
    /\ tool[e].pc \in {"leave", "done"} /\ tool[e].observed /\ tool[e].touched => tool[e].changed
    /\ Done(e) /\ Released(e) => Told(e)

OwnEffect(e) == tool[e].changed /\ workspace.edits = 0 => tool[e].touched

CallInv(e) == Alone(e) /\ Unsaid(e) /\ ToldSo(e) /\ OwnEffect(e)
ToolInv == ToolTyped /\ \A e \in Callers : CallInv(e)

\* The invariant holds before anything is called.
LEMMA ToolInvInit == ToolInit => ToolInv
<1> SUFFICES ASSUME ToolInit PROVE ToolInv
  OBVIOUS
<1>1. NewCall \in ToolCall
  BY DEF NewCall, ToolCall, ToolWaiting, ToolStatuses, Endings, Tools
<1>2. ToolTyped
  BY <1>1 DEF ToolInit, ToolTyped
<1>3. ASSUME NEW e \in Callers PROVE CallInv(e)
  <2>1. tool[e] = NewCall
    BY DEF ToolInit
  <2> QED BY <2>1 DEF NewCall, CallInv, Alone, Unsaid, ToldSo, OwnEffect, IsAt, Done, ToolWaiting
<1> QED BY <1>2, <1>3 DEF ToolInv

\* A step of one caller, or of the user, keeps what is known of another.
LEMMA OthersKeepCall ==
    ASSUME ToolTyped, ToolTyped', NEW u \in Callers, CallInv(u), UNCHANGED tool[u],
           mutator = u => mutator' = u,
           workspace.version <= workspace'.version, workspace.edits <= workspace'.edits,
           mutator = u => workspace'.version = workspace.version \/ workspace'.edits > 0
    PROVE  CallInv(u)'
<1>1. /\ tool[u].before \in Nat /\ workspace.version \in Nat /\ workspace'.version \in Nat
      /\ workspace.edits \in Nat /\ workspace'.edits \in Nat
  BY DEF ToolTyped, ToolCall
<1>2. (Observable(u)' <=> Observable(u)) /\ (Effect(tool[u].name))' = Effect(tool[u].name)
  BY DEF Observable, Effect
<1>3. Alone(u)'
  <2>1. Observable(u) => Effect(tool[u].name) # "read_only"
    BY DEF Observable
  <2>2. tool[u].pc \in {"run", "after"} /\ Observable(u) => mutator = u
    BY <2>1 DEF CallInv, Alone, IsAt
  <2> QED BY <1>1, <1>2, <2>2 DEF CallInv, Alone, IsAt
<1>4. Unsaid(u)' /\ ToldSo(u)'
  BY <1>2 DEF CallInv, Unsaid, ToldSo, Told, IsAt, Done, Released
<1>5. OwnEffect(u)'
  BY <1>1 DEF CallInv, OwnEffect
<1> QED BY <1>3, <1>4, <1>5 DEF CallInv

\* A step of a caller changes its own call, its hold of the lock, and the
\* workspace only while it holds the lock.
LEMMA CallerKeeps ==
    ASSUME ToolInv, NEW e \in Callers, tool'[e] \in ToolCall,
           tool' = [tool EXCEPT ![e] = tool'[e]],
           mutator' \in Callers \cup {NoCaller},
           mutator' = mutator \/ mutator \in {e, NoCaller},
           \/ workspace' = workspace
           \/ /\ mutator = e /\ workspace' \in [version : Nat, edits : Nat, replaced : BOOLEAN]
              /\ workspace'.version = workspace.version + 1 /\ workspace'.edits = workspace.edits,
           CallInv(e)'
    PROVE  ToolInv'
<1>1. ToolTyped /\ ToolTyped'
  BY DEF ToolInv, ToolTyped
<1>2. /\ workspace.version \in Nat /\ workspace.edits \in Nat
      /\ workspace.version <= workspace'.version /\ workspace.edits <= workspace'.edits
  BY <1>1 DEF ToolTyped
<1>3. ASSUME NEW u \in Callers \ {e} PROVE CallInv(u)'
  <2>1. UNCHANGED tool[u]
    BY <1>1 DEF ToolTyped
  <2>2. mutator = u => mutator' = u /\ workspace' = workspace
    BY ToolAssumption
  <2>3. CallInv(u)
    BY DEF ToolInv
  <2> QED BY <1>1, <1>2, <2>1, <2>2, <2>3, OthersKeepCall
<1> QED BY <1>1, <1>3 DEF ToolInv

\* Until it runs a call only moves on, or ends before it did anything.
LEMMA BeforeRunning ==
    ASSUME ToolInv, NEW e \in Callers,
           RequestTool(e) \/ ApproveShell(e) \/ Approve(e) \/ EnterLock(e) \/ ObserveBefore(e)
    PROVE  ToolInv'
<1>1. ToolTyped /\ CallInv(e) /\ tool[e] \in ToolCall /\ workspace' = workspace
  BY DEF ToolInv, ToolTyped, RequestTool, ApproveShell, Approve, EnterLock, ObserveBefore
<1>2. ASSUME NEW step \in ToolWaiting \cup {"run", "leave", "done"}, NEW s \in ToolStatuses, Result(e, step, s)
      PROVE  tool' = [tool EXCEPT ![e] = [tool[e] EXCEPT !.pc = step, !.status = s, !.primary = s]]
  BY <1>1, <1>2 DEF Result, ToolTyped, ToolCall
<1>3. ASSUME NEW step \in ToolWaiting \cup {"run", "leave", "done"}, Step(e, step)
      PROVE  tool' = [tool EXCEPT ![e] = [tool[e] EXCEPT !.pc = step]]
  BY <1>1, <1>3 DEF Step, ToolTyped, ToolCall
<1>4. CASE RequestTool(e)
  <2>1. CASE Result(e, "done", "rejected")
    <3> DEFINE c == [tool[e] EXCEPT !.pc = "done", !.status = "rejected", !.primary = "rejected"]
    <3>1. tool' = [tool EXCEPT ![e] = c]
      BY <1>2, <2>1 DEF ToolStatuses
    <3>2. c \in ToolCall
      BY <1>1 DEF ToolCall, ToolStatuses
    <3>3. tool'[e] = c /\ mutator' = mutator
      BY <1>1, <1>4, <3>1 DEF ToolTyped, RequestTool
    <3>4. CallInv(e)'
      BY <1>1, <1>4, <3>3 DEF CallInv, Alone, Unsaid, ToldSo, Told, OwnEffect, IsAt, Done, Released, Observable, ToolWaiting, RequestTool, ToolCall
    <3>5. tool' = [tool EXCEPT ![e] = tool'[e]] /\ tool'[e] \in ToolCall
      BY <3>1, <3>2, <3>3
    <3> QED BY <1>1, <3>3, <3>4, <3>5, CallerKeeps DEF ToolTyped
  <2>2. ASSUME NEW t \in Tools, NEW decision \in {"allow", "ask"},
               tool' = [tool EXCEPT ![e].name = t,
                            ![e].pc = IF decision = "ask" THEN "approve"
                                      ELSE IF Effect(t) = "read_only" THEN "run" ELSE "lock"]
        PROVE  ToolInv'
    <3> DEFINE step == IF decision = "ask" THEN "approve"
                       ELSE IF Effect(t) = "read_only" THEN "run" ELSE "lock"
               c == [tool[e] EXCEPT !.name = t, !.pc = step]
    <3>1. tool' = [tool EXCEPT ![e] = c]
      BY <1>1, <2>2 DEF ToolTyped, ToolCall
    <3>2. c \in ToolCall
      BY <1>1 DEF ToolCall, ToolWaiting
    <3>3. tool'[e] = c /\ mutator' = mutator
      BY <1>1, <1>4, <3>1 DEF ToolTyped, RequestTool
    <3>4. /\ tool'[e].pc = step /\ tool'[e].name = t
          /\ tool'[e].touched = tool[e].touched /\ tool'[e].outcome = tool[e].outcome
          /\ tool'[e].observed = tool[e].observed /\ tool'[e].changed = tool[e].changed
      BY <1>1, <3>3 DEF ToolCall
    <3>5. /\ step \in {"approve", "run", "lock"}
          /\ step = "run" => Effect(t) = "read_only"
          /\ step = "lock" => Effect(t) # "read_only"
      OBVIOUS
    <3>6. /\ tool[e].pc = "request" /\ ~tool[e].touched /\ tool[e].outcome = "none"
          /\ ~tool[e].observed /\ ~tool[e].changed
      BY <1>1, <1>4 DEF CallInv, Unsaid, RequestTool, IsAt, ToolWaiting
    <3> HIDE DEF step, c
    <3>7. CallInv(e)'
      BY <3>4, <3>5, <3>6 DEF CallInv, Alone, Unsaid, ToldSo, OwnEffect, IsAt, Done, Observable, ToolWaiting
    <3>8. tool' = [tool EXCEPT ![e] = tool'[e]] /\ tool'[e] \in ToolCall
      BY <3>1, <3>2, <3>3
    <3> QED BY <1>1, <3>3, <3>7, <3>8, CallerKeeps DEF ToolTyped
  <2> QED BY <1>4, <2>1, <2>2 DEF RequestTool
<1>5. ASSUME NEW step \in {"lock", "run"}, Step(e, step), UNCHANGED mutator, IsAt(e, "approve"),
             IF Effect(tool[e].name) = "read_only" THEN step = "run" ELSE step = "lock"
      PROVE  ToolInv'
  <2> DEFINE c == [tool[e] EXCEPT !.pc = step]
  <2>1. tool' = [tool EXCEPT ![e] = c]
    BY <1>3, <1>5 DEF ToolWaiting
  <2>2. c \in ToolCall
    BY <1>1 DEF ToolCall, ToolWaiting
  <2>3. tool'[e] = c
    BY <1>1, <2>1 DEF ToolTyped
  <2>4. CallInv(e)'
    BY <1>1, <1>5, <2>3 DEF CallInv, Alone, Unsaid, ToldSo, OwnEffect, IsAt, Done, Observable, ToolWaiting, ToolCall
  <2>5. tool' = [tool EXCEPT ![e] = tool'[e]] /\ tool'[e] \in ToolCall
    BY <2>1, <2>2, <2>3
  <2> QED BY <1>1, <1>5, <2>4, <2>5, CallerKeeps DEF ToolTyped
<1>6. ASSUME NEW s \in {"rejected", "error"}, NEW step \in {"done", "leave"}, Result(e, step, s),
             UNCHANGED mutator, step = "leave" => mutator = e, tool[e].pc \in ToolWaiting
      PROVE  ToolInv'
  <2> DEFINE c == [tool[e] EXCEPT !.pc = step, !.status = s, !.primary = s]
  <2>1. tool' = [tool EXCEPT ![e] = c]
    BY <1>2, <1>6, ZenonT(60) DEF ToolStatuses
  <2>2. c \in ToolCall
    BY <1>1 DEF ToolCall, ToolStatuses
  <2>3. tool'[e] = c
    BY <1>1, <2>1 DEF ToolTyped
  <2>4. CallInv(e)'
    BY <1>1, <1>6, <2>3 DEF CallInv, Alone, Unsaid, ToldSo, Told, OwnEffect, IsAt, Done, Released, Observable, ToolWaiting, ToolCall
  <2>5. tool' = [tool EXCEPT ![e] = tool'[e]] /\ tool'[e] \in ToolCall
    BY <2>1, <2>2, <2>3
  <2> QED BY <1>1, <1>6, <2>4, <2>5, CallerKeeps DEF ToolTyped
<1>7. CASE ApproveShell(e) \/ Approve(e)
  BY <1>5, <1>6, <1>7 DEF ApproveShell, Approve, IsAt, ToolWaiting, Effect
<1>8. CASE EnterLock(e)
  <2>1. CASE Result(e, "done", "error") /\ UNCHANGED mutator
    BY <1>6, <1>8, <2>1 DEF EnterLock, IsAt, ToolWaiting
  <2>2. CASE mutator = NoCaller /\ mutator' = e /\ Step(e, IF Observable(e) THEN "before" ELSE "run")
    <3> DEFINE step == IF Observable(e) THEN "before" ELSE "run"
               c == [tool[e] EXCEPT !.pc = step]
    <3>1. step \in ToolWaiting \cup {"run"}
      BY DEF ToolWaiting
    <3>2. tool' = [tool EXCEPT ![e] = c]
      BY <1>3, <2>2, <3>1
    <3>3. c \in ToolCall
      BY <1>1, <3>1 DEF ToolCall
    <3>4. tool'[e] = c
      BY <1>1, <3>2 DEF ToolTyped
    <3>5. CallInv(e)'
      BY <1>1, <1>8, <2>2, <3>4 DEF CallInv, Alone, Unsaid, ToldSo, OwnEffect, IsAt, Done, Observable, ToolWaiting, ToolCall, EnterLock
    <3>6. tool' = [tool EXCEPT ![e] = tool'[e]] /\ tool'[e] \in ToolCall
      BY <3>2, <3>3, <3>4
    <3> QED BY <1>1, <2>2, <3>5, <3>6, CallerKeeps DEF ToolTyped
  <2> QED BY <1>8, <2>1, <2>2 DEF EnterLock
<1>9. CASE ObserveBefore(e)
  <2>1. UNCHANGED mutator /\ mutator = e /\ tool[e].pc = "before"
    BY <1>1, <1>9 DEF ObserveBefore, CallInv, Alone, IsAt
  <2>2. CASE Result(e, "leave", "rejected") \/ Result(e, "leave", "error")
    BY <1>6, <2>1, <2>2 DEF ToolWaiting
  <2>3. CASE tool' = [tool EXCEPT ![e].pc = "run", ![e].before = workspace.version]
    <3> DEFINE c == [tool[e] EXCEPT !.pc = "run", !.before = workspace.version]
    <3>1. tool' = [tool EXCEPT ![e] = c]
      BY <1>1, <2>3 DEF ToolTyped, ToolCall
    <3>2. c \in ToolCall /\ workspace.version \in Nat
      BY <1>1 DEF ToolCall, ToolTyped
    <3>3. tool'[e] = c
      BY <1>1, <3>1 DEF ToolTyped
    <3>4. CallInv(e)'
      BY <1>1, <2>1, <3>2, <3>3 DEF CallInv, Alone, Unsaid, ToldSo, OwnEffect, IsAt, Done, Observable, ToolWaiting, ToolCall
    <3>5. tool' = [tool EXCEPT ![e] = tool'[e]] /\ tool'[e] \in ToolCall
      BY <3>1, <3>2, <3>3
    <3> QED BY <1>1, <2>1, <3>4, <3>5, CallerKeeps DEF ToolTyped
  <2> QED BY <1>9, <2>2, <2>3 DEF ObserveBefore
<1> QED BY <1>4, <1>7, <1>8, <1>9
\* The runner writes, ends, and is looked at again, all inside the lock.
LEMMA RunningTool ==
    ASSUME ToolInv, NEW e \in Callers,
           \/ Touch(e) \/ \E outcome \in Outcomes(e) : EndRun(e, outcome)
           \/ ObserveAfter(e) \/ ObservationFails(e)
    PROVE  ToolInv'
<1>1. ToolTyped /\ CallInv(e) /\ tool[e] \in ToolCall /\ UNCHANGED mutator
  BY DEF ToolInv, ToolTyped, Touch, EndRun, ObserveAfter, ObservationFails
<1>2. /\ workspace.version \in Nat /\ workspace.edits \in Nat /\ tool[e].before \in Nat
      /\ (Observable(e) => Effect(tool[e].name) # "read_only")
  BY <1>1 DEF ToolTyped, ToolCall, Observable
<1>3. CASE Touch(e)
  <2>1. tool' = [tool EXCEPT ![e] = [tool[e] EXCEPT !.touched = TRUE]]
    BY <1>1, <1>3 DEF Touch, ToolTyped, ToolCall
  <2>2. tool'[e] = [tool[e] EXCEPT !.touched = TRUE] /\ tool'[e] \in ToolCall
    BY <1>1, <2>1 DEF ToolTyped, ToolCall
  <2>3. /\ mutator = e /\ workspace' \in [version : Nat, edits : Nat, replaced : BOOLEAN]
        /\ workspace'.version = workspace.version + 1 /\ workspace'.edits = workspace.edits
    BY <1>1, <1>2, <1>3 DEF Touch, ToolTyped, CallInv, Alone, IsAt
  <2>4. CallInv(e)'
    BY <1>1, <1>2, <1>3, <2>2, <2>3 DEF Touch, CallInv, Alone, Unsaid, ToldSo, OwnEffect, IsAt, Done, Observable, ToolWaiting, ToolCall
  <2> QED BY <1>1, <2>1, <2>2, <2>3, <2>4, CallerKeeps DEF ToolTyped
<1>4. ASSUME NEW outcome \in Outcomes(e), EndRun(e, outcome)
      PROVE  ToolInv'
  <2> DEFINE now == [tool[e] EXCEPT !.outcome = outcome]
             left == [now EXCEPT !.status = Unobserved(outcome), !.primary = Unobserved(outcome),
                         !.pc = IF Effect(now.name) = "read_only" THEN "done" ELSE "leave"]
  <2>1. outcome \in {"ok", "exception", "interrupt", "nonzero"} /\ Unobserved(outcome) \in {"ok", "error", "interrupted"}
        /\ (Unobserved(outcome) = "ok" => outcome = "ok")
    BY DEF Outcomes, Unobserved
  <2>2. tool' = [tool EXCEPT ![e] = IF Observable(e) THEN [now EXCEPT !.pc = "after"] ELSE left]
        /\ tool[e].pc = "run" /\ workspace' = workspace
    BY <1>4, Zenon DEF EndRun, IsAt
  <2>3. tool'[e] = IF Observable(e) THEN [now EXCEPT !.pc = "after"] ELSE left
    BY <1>1, <2>2 DEF ToolTyped
  <2>4. CASE Observable(e)
    <3>1. tool'[e] = [now EXCEPT !.pc = "after"] /\ tool'[e] \in ToolCall
      BY <1>1, <2>1, <2>3, <2>4 DEF ToolCall, Endings
    <3>2. CallInv(e)'
      BY <1>1, <1>2, <2>1, <2>2, <2>4, <3>1 DEF CallInv, Alone, Unsaid, ToldSo, OwnEffect, IsAt, Done, Observable, ToolWaiting, ToolCall
    <3> QED BY <1>1, <2>2, <2>3, <3>1, <3>2, CallerKeeps DEF ToolTyped
  <2>5. CASE ~Observable(e)
    <3>1. tool'[e] = left
      BY <2>3, <2>5
    <3>2. tool'[e] \in ToolCall
      BY <1>1, <2>1, <3>1, ZenonT(40) DEF ToolCall, Endings, ToolStatuses
    <3>3. /\ tool'[e].name = tool[e].name /\ tool'[e].touched = tool[e].touched
          /\ tool'[e].observed = tool[e].observed /\ tool'[e].changed = tool[e].changed
          /\ tool'[e].outcome = outcome /\ tool'[e].status = Unobserved(outcome)
          /\ tool'[e].primary = Unobserved(outcome)
          /\ tool'[e].pc = IF Effect(tool[e].name) = "read_only" THEN "done" ELSE "leave"
      BY <1>1, <3>1 DEF ToolCall
    <3>4. ~tool[e].touched /\ ~tool[e].observed /\ ~tool[e].changed
      BY <1>1, <2>2, <2>5 DEF CallInv, Alone, Unsaid
    <3> HIDE DEF left, now
    <3>5. CallInv(e)'
      BY <1>1, <2>1, <2>2, <2>5, <3>3, <3>4 DEF CallInv, Alone, Unsaid, ToldSo, Told, OwnEffect, IsAt, Done, Released, Observable, ToolWaiting
    <3>6. tool' = [tool EXCEPT ![e] = tool'[e]]
      BY <2>2, <2>3
    <3> QED BY <1>1, <2>2, <3>2, <3>5, <3>6, CallerKeeps DEF ToolTyped
  <2> QED BY <2>4, <2>5
<1>5. CASE ObserveAfter(e)
  <2> DEFINE changed == workspace.version # tool[e].before
             s == StatusOf(tool[e].outcome, changed)
             c == [tool[e] EXCEPT !.pc = "leave", !.observed = TRUE, !.changed = changed,
                                  !.status = s, !.primary = s]
  <2>1. tool' = [tool EXCEPT ![e] = c] /\ tool[e].pc = "after" /\ workspace' = workspace
    BY <1>1, <1>5 DEF ObserveAfter, IsAt, ToolTyped, ToolCall
  <2>2. changed \in BOOLEAN /\ s \in ToolStatuses /\ c \in ToolCall
    BY <1>1 DEF StatusOf, ToolStatuses, ToolCall
  <2>3. tool'[e] = c
    BY <1>1, <2>1 DEF ToolTyped
  <2>4. /\ tool'[e].name = tool[e].name /\ tool'[e].touched = tool[e].touched
        /\ tool'[e].outcome = tool[e].outcome /\ tool'[e].observed /\ tool'[e].changed = changed
        /\ tool'[e].status = s /\ tool'[e].primary = s /\ tool'[e].pc = "leave"
    BY <1>1, <2>3 DEF ToolCall
  <2>5. /\ tool[e].touched => changed
        /\ changed /\ workspace.edits = 0 => tool[e].touched
        /\ Observable(e) /\ mutator = e
    BY <1>1, <1>2, <2>1 DEF CallInv, Alone
  <2>6. /\ s = "ok" => tool[e].outcome = "ok"
        /\ tool[e].outcome \in {"nonzero", "exception"} /\ changed => s = "partial_success"
    BY DEF StatusOf
  <2> HIDE DEF c, s, changed
  <2>7. CallInv(e)'
    BY <1>1, <2>1, <2>4, <2>5, <2>6 DEF CallInv, Alone, Unsaid, ToldSo, Told, OwnEffect, IsAt, Done, Released, Observable, ToolWaiting
  <2>8. tool' = [tool EXCEPT ![e] = tool'[e]] /\ tool'[e] \in ToolCall
    BY <2>1, <2>2, <2>3
  <2> QED BY <1>1, <2>1, <2>7, <2>8, CallerKeeps DEF ToolTyped
<1>6. CASE ObservationFails(e)
  <2> DEFINE s == IF tool[e].outcome = "interrupt" THEN "interrupted" ELSE "unknown"
             c == [tool[e] EXCEPT !.pc = "leave", !.status = s, !.primary = s]
  <2>1. tool' = [tool EXCEPT ![e] = c] /\ tool[e].pc = "after" /\ workspace' = workspace
    BY <1>1, <1>6 DEF ObservationFails, Result, IsAt, ToolTyped, ToolCall
  <2>2. c \in ToolCall
    BY <1>1 DEF ToolStatuses, ToolCall
  <2>3. tool'[e] = c
    BY <1>1, <2>1 DEF ToolTyped
  <2>4. CallInv(e)'
    BY <1>1, <2>1, <2>3 DEF CallInv, Alone, Unsaid, ToldSo, Told, OwnEffect, IsAt, Done, Released, Observable, ToolWaiting, ToolCall
  <2>5. tool' = [tool EXCEPT ![e] = tool'[e]] /\ tool'[e] \in ToolCall
    BY <2>1, <2>2, <2>3
  <2> QED BY <1>1, <2>1, <2>4, <2>5, CallerKeeps DEF ToolTyped
<1> QED BY <1>3, <1>4, <1>5, <1>6

\* Leaving the lock replaces what is reported, or says it.
LEMMA Leaving ==
    ASSUME ToolInv, NEW e \in Callers, FinalizeFails(e) \/ LeaveLock(e)
    PROVE  ToolInv'
<1>1. ToolTyped /\ CallInv(e) /\ tool[e] \in ToolCall /\ workspace' = workspace /\ tool[e].pc = "leave"
      /\ mutator = e
  BY DEF ToolInv, ToolTyped, FinalizeFails, LeaveLock, IsAt, CallInv, Alone
<1>2. CASE FinalizeFails(e)
  <2> DEFINE s == IF tool[e].changed THEN "partial_success" ELSE "error"
             c == [tool[e] EXCEPT !.pc = "leave", !.status = s, !.primary = s]
  <2>1. tool' = [tool EXCEPT ![e] = c] /\ UNCHANGED mutator /\ tool[e].observed
    BY <1>1, <1>2 DEF FinalizeFails, Result, IsAt, ToolTyped, ToolCall
  <2>2. c \in ToolCall
    BY <1>1 DEF ToolStatuses, ToolCall
  <2>3. tool'[e] = c
    BY <1>1, <2>1 DEF ToolTyped
  <2>4. CallInv(e)'
    BY <1>1, <2>1, <2>3 DEF CallInv, Alone, Unsaid, ToldSo, Told, OwnEffect, IsAt, Done, Released, Observable, ToolWaiting, ToolCall
  <2>5. tool' = [tool EXCEPT ![e] = tool'[e]] /\ tool'[e] \in ToolCall
    BY <2>1, <2>2, <2>3
  <2> QED BY <1>1, <2>1, <2>4, <2>5, CallerKeeps DEF ToolTyped
<1>3. CASE LeaveLock(e)
  <2>1. mutator' = NoCaller
    BY <1>3 DEF LeaveLock
  <2>2. CASE Step(e, "done")
    <3> DEFINE c == [tool[e] EXCEPT !.pc = "done"]
    <3>1. tool' = [tool EXCEPT ![e] = c]
      BY <1>1, <2>2 DEF Step, ToolTyped, ToolCall
    <3>2. c \in ToolCall
      BY <1>1 DEF ToolCall
    <3>3. tool'[e] = c
      BY <1>1, <3>1 DEF ToolTyped
    <3>4. CallInv(e)'
      BY <1>1, <3>3 DEF CallInv, Alone, Unsaid, ToldSo, Told, OwnEffect, IsAt, Done, Released, Observable, ToolWaiting, ToolCall
    <3>5. tool' = [tool EXCEPT ![e] = tool'[e]] /\ tool'[e] \in ToolCall
      BY <3>1, <3>2, <3>3
    <3> QED BY <1>1, <2>1, <3>4, <3>5, CallerKeeps DEF ToolTyped
  <2>3. CASE tool' = [tool EXCEPT ![e].pc = "done",
                         ![e].status = IF tool[e].changed THEN "partial_success" ELSE "error"]
    <3> DEFINE s == IF tool[e].changed THEN "partial_success" ELSE "error"
               c == [tool[e] EXCEPT !.pc = "done", !.status = s]
    <3>1. tool' = [tool EXCEPT ![e] = c]
      BY <1>1, <2>3 DEF ToolTyped, ToolCall
    <3>2. c \in ToolCall
      BY <1>1 DEF ToolCall, ToolStatuses
    <3>3. tool'[e] = c
      BY <1>1, <3>1 DEF ToolTyped
    <3>4. CallInv(e)'
      BY <1>1, <3>3 DEF CallInv, Alone, Unsaid, ToldSo, Told, OwnEffect, IsAt, Done, Released, Observable, ToolWaiting, ToolCall
    <3>5. tool' = [tool EXCEPT ![e] = tool'[e]] /\ tool'[e] \in ToolCall
      BY <3>1, <3>2, <3>3
    <3> QED BY <1>1, <2>1, <3>4, <3>5, CallerKeeps DEF ToolTyped
  <2> QED BY <1>3, <2>2, <2>3 DEF LeaveLock
<1> QED BY <1>2, <1>3

\* Every step keeps the invariant.
LEMMA ToolInvNext ==
    ASSUME ToolInv, [ToolNext]_toolVars
    PROVE  ToolInv'
<1>1. ASSUME NEW e \in Callers, CallStep(e) PROVE ToolInv'
  BY <1>1, BeforeRunning, RunningTool, Leaving DEF CallStep
<1>2. CASE Edit \/ ReplaceRoot \/ UNCHANGED toolVars
  <2> DEFINE edited == [[workspace EXCEPT !.version = workspace.version + 1] EXCEPT !.edits = workspace.edits + 1]
  <2>1. ToolTyped /\ workspace \in [version : Nat, edits : Nat, replaced : BOOLEAN]
    BY DEF ToolInv, ToolTyped
  <2>2. UNCHANGED <<mutator, tool>>
    BY <1>2 DEF Edit, ReplaceRoot, toolVars
  <2>3. \/ workspace' = edited \/ workspace' = [workspace EXCEPT !.replaced = TRUE] \/ workspace' = workspace
    <3>1. CASE Edit
      BY <3>1, Zenon DEF Edit
    <3> QED BY <1>2, <3>1 DEF ReplaceRoot, toolVars
  <2>4. /\ workspace' \in [version : Nat, edits : Nat, replaced : BOOLEAN]
        /\ workspace.version <= workspace'.version /\ workspace.edits <= workspace'.edits
        /\ workspace'.version = workspace.version \/ workspace'.edits > 0
    <3>1. CASE workspace' = edited
      <4>1. edited \in [version : Nat, edits : Nat, replaced : BOOLEAN]
        <5>1. workspace.version + 1 \in Nat /\ workspace.edits + 1 \in Nat
          BY <2>1
        <5>2. [workspace EXCEPT !.version = workspace.version + 1] \in [version : Nat, edits : Nat, replaced : BOOLEAN]
          BY <2>1, <5>1
        <5> QED BY <5>1, <5>2
      <4>2. edited.version = workspace.version + 1
        BY <2>1
      <4>3. edited.edits = workspace.edits + 1
        BY <2>1
      <4>4. workspace.version \in Nat /\ workspace.edits \in Nat
        BY <2>1
      <4> HIDE DEF edited
      <4> QED BY <3>1, <4>1, <4>2, <4>3, <4>4
    <3>2. CASE workspace' = [workspace EXCEPT !.replaced = TRUE]
      <4>1. workspace' \in [version : Nat, edits : Nat, replaced : BOOLEAN]
        BY <2>1, <3>2
      <4>2. workspace'.version = workspace.version
        BY <2>1, <3>2
      <4>3. workspace'.edits = workspace.edits
        BY <2>1, <3>2
      <4> QED BY <2>1, <4>1, <4>2, <4>3
    <3>3. CASE workspace' = workspace
      BY <2>1, <3>3
    <3> QED BY <2>3, <3>1, <3>2, <3>3
  <2>5. ToolTyped'
    BY <2>1, <2>2, <2>4 DEF ToolTyped
  <2>6. ASSUME NEW u \in Callers PROVE CallInv(u)'
    BY <2>1, <2>2, <2>4, <2>5, OthersKeepCall DEF ToolInv
  <2> QED BY <2>5, <2>6 DEF ToolInv
<1> QED BY <1>1, <1>2 DEF ToolNext

\* What is reported follows from the invariant.
LEMMA ToolInvTells == ToolInv => EffectsAreReported /\ EffectsAreOwn /\ FailureIsTold
BY DEF ToolInv, CallInv, ToldSo, Told, OwnEffect, Done, Released, IsAt, EffectsAreReported, EffectsAreOwn, FailureIsTold

\* No tool call hides an effect, claims another's, or reports a failure as
\* success, for any number of runtimes, tools at work and edits
\* (ToolExecutor.execute).
THEOREM ToolsTellEffects == ToolSpec => [](EffectsAreReported /\ EffectsAreOwn /\ FailureIsTold)
BY ToolInvInit, ToolInvNext, ToolInvTells, PTL DEF ToolSpec

-----------------------------------------------------------------------------
(* The worktree agents: what is sealed, merged and removed.                 *)

AgentStages == {"new", "added", "prepared", "works", "seal", "head", "done", "stuck"} \cup Heads
RunnerEnds == {"done", "dead", "refused", "stuck"}
RunnerStages == {"setup", "record", "undo", "children"} \cup RunnerEnds
OpStages == {"none", "merge.check", "merge.merge", "merge.write", "all", "all.merge",
             "clean.tree", "clean.branch", "clean.write", "clean.batch"}
AgentCommits == (Agents \cup {"user"}) \X {"work", "late"}
ManifestType == [status : Statuses \cup {"none"}, head : Heads \cup {"none"},
                 test : {"not_run", "passed", "failed"}]

ParentType == [commits : SUBSET AgentCommits, ever : SUBSET AgentCommits, merging : BOOLEAN,
               outside : Nat, commands : Nat, clash : {"agents", "user"}, unsafe : SUBSET Agents]
TreeType == [there : BOOLEAN, branch : Heads \cup {"none"}, dirty : BOOLEAN]
BatchType == [status : {"none", "running", "review_required", "merged", "cleaned"},
              evidence : [Agents -> ManifestType], head : SUBSET AgentCommits]
RunnerType == [pc : RunnerStages, prepared : SUBSET Agents, agent : [Agents -> AgentStages],
               discarded : SUBSET Agents,
               ended : [Agents -> {"none", "completed", "stopped", "failed"}]]
OpType == [pc : OpStages, agent : Agents \cup {"none"}, discard : BOOLEAN,
           head : SUBSET AgentCommits, todo : SUBSET Agents]

AgentsTyped ==
    /\ parent \in ParentType /\ tree \in [Agents -> TreeType]
    /\ manifest \in [Agents -> ManifestType] /\ batch \in BatchType
    /\ runner \in RunnerType /\ op \in OpType
    /\ op.pc \notin {"none", "all"} => op.agent \in Agents

\* The commands wait for the batch, so until it has ended nothing was merged.
NothingYet(a) == Own(a) \cap parent.ever = {}
OneAfterTheOther ==
    /\ runner.pc \notin RunnerEnds \ {"refused"} => op.pc = "none" /\ \A a \in Agents : NothingYet(a)
    /\ runner.pc \notin RunnerEnds => batch.status # "merged"
    /\ parent.commits \subseteq parent.ever

\* A branch that is never set back keeps what was sealed of it.
Keeps(branch, head) == branch = head \/ branch = "late" \/ head = "base"

\* What is sealed: the branch as it was read, judged, and never set back.
SealedInv(a) ==
    /\ runner.pc \in {"setup", "record", "undo", "refused", "stuck"} => ~Sealed(a)
    /\ runner.pc = "children" /\ Sealed(a) => runner.agent[a] = "done"
    /\ manifest[a].head \in {"work", "late"} => a \notin parent.unsafe
    /\ Sealed(a) => tree[a].branch = "none" \/ Keeps(tree[a].branch, manifest[a].head)
    /\ runner.pc \in {"setup", "record"} => runner.agent[a] \in {"new", "added", "prepared"}
    /\ runner.pc \in {"setup", "record", "children"} /\ runner.agent[a] \notin {"new", "done"} =>
         tree[a].branch # "none"
    /\ runner.pc = "children" /\ runner.agent[a] \in Heads =>
         /\ runner.agent[a] # "base" => a \notin parent.unsafe
         /\ Keeps(tree[a].branch, runner.agent[a])

\* How a child ended, as its manifest and the batch tell.
EndedInv(a) ==
    /\ runner.pc \in {"setup", "record"} => manifest[a].status \in {"none", "created"}
    /\ manifest[a].status = "completed" => runner.ended[a] = "completed"
    /\ runner.pc = "children" /\ manifest[a].status = "completed" => runner.agent[a] = "done"
    /\ batch.evidence[a].status = "completed" => runner.ended[a] = "completed"
    /\ runner.pc \in {"record", "children"} => batch.evidence[a].status # "completed"

RefusedInv ==
    /\ runner.pc = "refused" => batch = NoBatch
    /\ \A a \in Agents :
          /\ runner.pc \in {"setup", "record", "undo", "refused"} /\ runner.agent[a] = "new" =>
               tree[a] = NoTree /\ manifest[a] = NoManifest
          /\ runner.pc = "refused" => runner.agent[a] = "new"

\* The merge of a batch: what is merged of it, what is left, and that what is
\* left conflicts with nothing of it while the parent is not moved.
Left == op.todo \cup (IF op.pc = "all.merge" THEN {op.agent} ELSE {})
BatchMergeInv ==
    op.pc \in {"all", "all.merge"} =>
        /\ op.agent \notin op.todo
        /\ \A a \in Agents :
              /\ runner.ended[a] = "completed" /\ manifest[a].test # "failed"
              /\ a \notin Left => Contained(a, manifest[a].head, parent.ever)
        /\ parent.outside = 0 =>
              /\ op.head = parent.commits
              /\ op.pc = "all.merge" => ~Contained(op.agent, manifest[op.agent].head, parent.commits)
              /\ \A a \in Left : ~Contained(a, manifest[a].head, parent.commits) =>
                    /\ ~Conflicts(a, parent.commits)
                    /\ \A b \in Left \ {a} : ~Conflicts(a, History(b, manifest[b].head))

MergeInv == op.pc = "merge.merge" /\ parent.outside = 0 => ~Conflicts(op.agent, parent.commits)

CleanupInv ==
    op.pc \in {"clean.tree", "clean.branch"} /\ ~op.discard /\ Sealed(op.agent) =>
        Contained(op.agent, manifest[op.agent].head, parent.ever)

AgentsInv ==
    /\ AgentsTyped /\ OneAfterTheOther /\ RefusedInv
    /\ \A a \in Agents : SealedInv(a) /\ EndedInv(a)
    /\ OnlySealedMerged /\ NoWorkLost /\ BatchMergedWhole
    /\ BatchMergeInv /\ MergeInv /\ CleanupInv

\* What the histories of the branches have to do with each other.
LEMMA Histories ==
    /\ \A a \in Agents, h, g \in Heads : Keeps(g, h) => History(a, h) \subseteq History(a, g)
    /\ \A a \in Agents, h \in Heads \cup {"none"} : History(a, h) \subseteq Own(a) /\ History(a, h) \subseteq AgentCommits
    /\ \A a \in Agents : Own(a) \subseteq AgentCommits /\ OfUser \notin Own(a)
    /\ \A a, b \in Agents : a # b => Own(a) \cap Own(b) = {}
    /\ \A a \in Agents : /\ History(a, "base") = {} /\ History(a, "none") = {}
                         /\ History(a, "work") \subseteq History(a, "late")
    /\ OfUser \in AgentCommits
    /\ \A a \in Agents : a # "none" /\ a # "user"
  BY AgentsAssumption DEF Keeps, History, Own, OfUser, AgentCommits, Heads

\* The updates of a worktree.
LEMMA TreeUpdates ==
    ASSUME NEW r \in TreeType, NEW d \in BOOLEAN, NEW h \in Heads \cup {"none"}
    PROVE  /\ [r EXCEPT !.dirty = d, !.branch = h] \in TreeType
           /\ [r EXCEPT !.there = d, !.dirty = d] \in TreeType
           /\ [r EXCEPT !.dirty = d] \in TreeType
           /\ [r EXCEPT !.branch = h] \in TreeType
           /\ r.branch \in Heads \cup {"none"} /\ r.dirty \in BOOLEAN
  BY DEF TreeType

\* What becomes of one worktree keeps the types of all.
LEMMA TreesUpdated ==
    ASSUME NEW f \in [Agents -> TreeType], NEW a \in Agents,
           NEW d \in BOOLEAN, NEW h \in Heads \cup {"none"}
    PROVE  [f EXCEPT ![a].dirty = d, ![a].branch = h] \in [Agents -> TreeType]
  BY DEF TreeType

\* The outcomes of a merge.
LEMMA MergedTyped ==
    ASSUME AgentsTyped, op.agent \in Agents, NEW next \in OpType, next.agent \in Agents,
           Merged(op.agent, next)
    PROVE  /\ (parent \in ParentType)' /\ (op \in OpType)'
           /\ (op.pc \notin {"none", "all"} => op.agent \in Agents)'
<1>0. parent \in ParentType /\ manifest \in [Agents -> ManifestType]
  BY DEF AgentsTyped
<1> USE <1>0
<1> DEFINE H == History(op.agent, manifest[op.agent].head)
<1>1. manifest[op.agent].head \in Heads \cup {"none"}
  BY DEF ManifestType
<1>2. H \subseteq AgentCommits
  BY <1>1, Histories
<1>3. \/ parent' = [parent EXCEPT !.commits = @ \cup H, !.ever = @ \cup H]
      \/ parent' = parent \/ parent' = [parent EXCEPT !.merging = TRUE]
  BY DEF Merged
<1> HIDE DEF H
<1>4. [parent EXCEPT !.commits = @ \cup H, !.ever = @ \cup H] \in ParentType
  BY <1>2 DEF ParentType
<1>5. [parent EXCEPT !.merging = TRUE] \in ParentType
  BY DEF ParentType
<1>6. parent' \in ParentType
  BY <1>3, <1>4, <1>5
<1>7. parent'.commits \subseteq AgentCommits
  BY <1>6 DEF ParentType
<1>8. NoOp \in OpType /\ NoOp.pc = "none" /\ [next EXCEPT !.head = parent'.commits] \in OpType
  BY <1>7 DEF NoOp, OpType, OpStages
<1>9. op' = NoOp \/ op' = [next EXCEPT !.head = parent'.commits]
  BY DEF Merged, EndOp
<1> HIDE DEF NoOp
<1>10. op'.pc \notin {"none", "all"} => op'.agent \in Agents
  BY <1>8, <1>9 DEF OpType
<1> QED BY <1>6, <1>8, <1>9, <1>10

\* Every step keeps the types.
LEMMA AgentsTypedNext == AgentsInv /\ [AgentsNext]_agentsVars => AgentsTyped'
<1> SUFFICES ASSUME AgentsInv, [AgentsNext]_agentsVars PROVE AgentsTyped'
  OBVIOUS
<1>0. /\ AgentsTyped /\ parent \in ParentType /\ tree \in [Agents -> TreeType]
      /\ manifest \in [Agents -> ManifestType] /\ batch \in BatchType
      /\ runner \in RunnerType /\ op \in OpType /\ (op.pc \notin {"none", "all"} => op.agent \in Agents)
  BY DEF AgentsInv, AgentsTyped
<1> USE <1>0, Histories
<1>1. CASE SetupFails
  BY <1>1 DEF AgentsTyped, SetupFails, RunnerType, RunnerStages, RunnerEnds, AgentStages, Heads
<1>2. CASE RecordBatch
  <2>1. (batch \in BatchType)'
    BY <1>2 DEF RecordBatch, BatchType, ManifestType, NoBatch, NoManifest
  <2>2. (runner \in RunnerType)'
    BY <1>2 DEF RecordBatch, RunnerType, RunnerStages, RunnerEnds, AgentStages, Heads
  <2> QED BY <1>2, <2>1, <2>2 DEF RecordBatch, AgentsTyped
<1>3. CASE StartChildren
  BY <1>3 DEF AgentsTyped, StartChildren, RunnerType, RunnerStages, RunnerEnds, AgentStages, Heads
<1>4. CASE EndUndo
  <2>1. (batch \in BatchType)'
    BY <1>4 DEF EndUndo, BatchType, ManifestType, NoBatch, NoManifest
  <2>2. (runner \in RunnerType)'
    BY <1>4 DEF EndUndo, RunnerType, RunnerStages, RunnerEnds, AgentStages, Heads
  <2> QED BY <1>4, <2>1, <2>2 DEF EndUndo, AgentsTyped
<1>5. CASE FinishBatch
  <2>1. (batch \in BatchType)'
    BY <1>5 DEF FinishBatch, BatchType, ManifestType, NoBatch, NoManifest
  <2>2. (runner \in RunnerType)'
    BY <1>5 DEF FinishBatch, RunnerType, RunnerStages, RunnerEnds, AgentStages, Heads
  <2> QED BY <1>5, <2>1, <2>2 DEF FinishBatch, AgentsTyped
<1>6. CASE RunnerDies
  BY <1>6 DEF AgentsTyped, RunnerDies, RunnerType, RunnerStages, RunnerEnds, AgentStages, Heads
<1>7. ASSUME NEW x \in Agents, AddWorktree(x) PROVE AgentsTyped'
  <2>1. (tree \in [Agents -> TreeType])'
    BY <1>7 DEF AddWorktree, TreeType, Heads
  <2>2. (runner \in RunnerType)'
    BY <1>7 DEF AddWorktree, RunnerType, RunnerStages, RunnerEnds, AgentStages, Heads
  <2> QED BY <1>7, <2>1, <2>2 DEF AddWorktree, AgentsTyped
<1>8. ASSUME NEW x \in Agents, RecordWorktree(x) PROVE AgentsTyped'
  <2>1. (manifest \in [Agents -> ManifestType])'
    BY <1>8 DEF RecordWorktree, SetStatus, ManifestType, Heads, Statuses
  <2>2. (runner \in RunnerType)'
    BY <1>8 DEF RecordWorktree, RunnerType, RunnerStages, RunnerEnds, AgentStages, Heads
  <2> QED BY <1>8, <2>1, <2>2 DEF RecordWorktree, AgentsTyped
<1>9. ASSUME NEW x \in Agents, UndoSetup(x) PROVE AgentsTyped'
  <2>1. (tree \in [Agents -> TreeType])'
    <3>1. NoTree \in TreeType
      BY DEF NoTree, TreeType, Heads
    <3>2. [tree EXCEPT ![x] = NoTree] \in [Agents -> TreeType]
      BY <3>1
    <3> QED BY <1>9, <3>2 DEF UndoSetup
  <2>2. (manifest \in [Agents -> ManifestType])'
    BY <1>9 DEF UndoSetup, NoManifest, ManifestType, Heads, Statuses
  <2>3. (runner \in RunnerType)'
    BY <1>9 DEF UndoSetup, RunnerType, RunnerStages, RunnerEnds, AgentStages, Heads
  <2> QED BY <1>9, <2>1, <2>2, <2>3 DEF UndoSetup, AgentsTyped
<1>10. ASSUME NEW x \in Agents, StartChild(x) PROVE AgentsTyped'
  <2>1. (manifest \in [Agents -> ManifestType])'
    BY <1>10 DEF StartChild, SetStatus, ManifestType, Heads, Statuses
  <2>2. (runner \in RunnerType)'
    BY <1>10 DEF StartChild, RunnerType, RunnerStages, RunnerEnds, AgentStages, Heads
  <2> QED BY <1>10, <2>1, <2>2 DEF StartChild, AgentsTyped
<1>11. ASSUME NEW x \in Agents, ChildEnds(x) PROVE AgentsTyped'
  <2>1. (tree \in [Agents -> TreeType])'
    <3> DEFINE d(left) == tree[x].dirty \/ left = "files"
               h(left) == IF left = "commit" THEN "work" ELSE tree[x].branch
    <3>1. PICK left \in {"nothing", "files", "commit"} :
             tree' = [tree EXCEPT ![x].dirty = d(left), ![x].branch = h(left)]
      BY <1>11 DEF ChildEnds
    <3>2. tree[x] \in TreeType
      OBVIOUS
    <3>3. d(left) \in BOOLEAN /\ h(left) \in Heads \cup {"none"}
      BY <3>2, TreeUpdates DEF Heads
    <3> HIDE DEF d, h
    <3> QED BY <3>1, <3>3, TreesUpdated
  <2>2. (runner \in RunnerType)'
    <3>1. PICK s \in {"completed", "stopped"} :
             runner' = [runner EXCEPT !.agent[x] = "seal", !.ended[x] = s]
      BY <1>11 DEF ChildEnds
    <3> QED BY <3>1 DEF RunnerType, AgentStages
  <2> QED BY <1>11, <2>1, <2>2 DEF ChildEnds, AgentsTyped
<1>12. ASSUME NEW x \in Agents, Commit(x) PROVE AgentsTyped'
  <2>1. (tree \in [Agents -> TreeType])'
    <3> DEFINE h == IF tree[x].branch = "base" THEN "work" ELSE "late"
    <3>1. tree[x] \in TreeType
      OBVIOUS
    <3>2. tree' \in [Agents -> TreeType]
      <4>1. CASE tree[x].dirty
        <5>1. tree' = [tree EXCEPT ![x].dirty = FALSE, ![x].branch = h]
          BY <1>12, <4>1 DEF Commit
        <5>2. h \in Heads \cup {"none"}
          BY DEF Heads
        <5> HIDE DEF h
        <5> QED BY <5>1, <5>2, TreesUpdated
      <4>2. CASE ~tree[x].dirty
        BY <1>12, <4>2 DEF Commit
      <4> QED BY <4>1, <4>2
    <3> QED BY <3>2
  <2>2. (runner \in RunnerType)'
    BY <1>12 DEF Commit, RunnerType, RunnerStages, RunnerEnds, AgentStages, Heads
  <2> QED BY <1>12, <2>1, <2>2 DEF Commit, AgentsTyped
<1>13. ASSUME NEW x \in Agents, ReadHead(x) PROVE AgentsTyped'
  <2>1. (runner \in RunnerType)'
    <3>1. tree[x] \in TreeType
      OBVIOUS
    <3>2. tree[x].branch # "none"
      BY <1>13 DEF ReadHead, AgentsInv, SealedInv
    <3>3. tree[x].branch \in AgentStages
      BY <3>1, <3>2, TreeUpdates DEF AgentStages
    <3> QED BY <1>13, <3>3 DEF ReadHead, RunnerType
  <2> QED BY <1>13, <2>1 DEF ReadHead, AgentsTyped
<1>14. ASSUME NEW x \in Agents, Seal(x) PROVE AgentsTyped'
  <2>1. (manifest \in [Agents -> ManifestType])'
    <3>1. PICK test \in {"passed", "failed"} :
             manifest' = [manifest EXCEPT ![x] = [status |-> runner.ended[x],
                                                  head |-> runner.agent[x], test |-> test]]
      BY <1>14 DEF Seal
    <3>2. runner.agent[x] \in Heads
      BY <1>14 DEF Seal
    <3>3. [status |-> runner.ended[x], head |-> runner.agent[x], test |-> test] \in ManifestType
      BY <3>2 DEF ManifestType, RunnerType, Statuses
    <3> QED BY <3>1, <3>3
  <2>2. (runner \in RunnerType)'
    BY <1>14 DEF Seal, RunnerType, RunnerStages, RunnerEnds, AgentStages, Heads
  <2> QED BY <1>14, <2>1, <2>2 DEF Seal, AgentsTyped
<1>15. ASSUME NEW x \in Agents, SealFails(x) PROVE AgentsTyped'
  <2>1. (manifest \in [Agents -> ManifestType])'
    BY <1>15 DEF SealFails, SetStatus, ManifestType, Heads, Statuses
  <2>2. (runner \in RunnerType)'
    BY <1>15 DEF SealFails, RunnerType, RunnerStages, RunnerEnds, AgentStages, Heads
  <2> QED BY <1>15, <2>1, <2>2 DEF SealFails, AgentsTyped
<1>16. CASE OpEnds
  BY <1>16 DEF AgentsTyped, OpEnds, EndOp, NoOp, OpType, OpStages
<1>17. CASE CheckParent
  BY <1>17 DEF AgentsTyped, CheckParent, Continue, OpType, OpStages
<1>18. CASE MergeCommit
  <2> DEFINE next == [op EXCEPT !.pc = "merge.write"]
  <2>1. op.agent \in Agents /\ next \in OpType /\ next.agent = op.agent /\ Merged(op.agent, next)
    BY <1>18 DEF MergeCommit, OpType, OpStages
  <2> HIDE DEF next
  <2>2. (parent \in ParentType)' /\ (op \in OpType)' /\ (op.pc \notin {"none", "all"} => op.agent \in Agents)'
    BY <2>1, MergedTyped
  <2> QED BY <1>18, <2>2 DEF MergeCommit, AgentsTyped
<1>19. CASE RecordMerge
  <2>1. (manifest \in [Agents -> ManifestType])'
    BY <1>19 DEF RecordMerge, SetStatus, ManifestType, Heads, Statuses
  <2>2. (op \in OpType /\ (op.pc \notin {"none", "all"} => op.agent \in Agents))'
    BY <1>19 DEF RecordMerge, EndOp, NoOp, OpType, OpStages
  <2> QED BY <1>19, <2>1, <2>2 DEF RecordMerge, AgentsTyped
<1>20. CASE MergeAll
  <2>1. (parent \in ParentType)'
    BY <1>20 DEF MergeAll, Begins, ParentType, AgentCommits
  <2>2. (op \in OpType /\ (op.pc \notin {"none", "all"} => op.agent \in Agents))'
    <3>1. parent.commits \subseteq AgentCommits
      BY DEF ParentType
    <3> QED BY <1>20, <3>1 DEF MergeAll, NoOp, OpType, OpStages
  <2> QED BY <1>20, <2>1, <2>2 DEF MergeAll, AgentsTyped
<1>21. CASE MergeBatchCommit
  <2> DEFINE next == [op EXCEPT !.pc = "all"]
  <2>1. op.agent \in Agents /\ next \in OpType /\ next.agent = op.agent /\ Merged(op.agent, next)
    BY <1>21 DEF MergeBatchCommit, OpType, OpStages
  <2> HIDE DEF next
  <2>2. (parent \in ParentType)' /\ (op \in OpType)' /\ (op.pc \notin {"none", "all"} => op.agent \in Agents)'
    BY <2>1, MergedTyped
  <2> QED BY <1>21, <2>2 DEF MergeBatchCommit, AgentsTyped
<1>22. CASE RecordBatchMerge
  <2>1. (batch \in BatchType)'
    BY <1>22 DEF RecordBatchMerge, BatchType, OpType
  <2>2. (op \in OpType /\ (op.pc \notin {"none", "all"} => op.agent \in Agents))'
    BY <1>22 DEF RecordBatchMerge, EndOp, NoOp, OpType, OpStages
  <2> QED BY <1>22, <2>1, <2>2 DEF RecordBatchMerge, AgentsTyped
<1>23. CASE RemoveWorktree
  <2>1. (tree \in [Agents -> TreeType])'
    <3>1. op.agent \in Agents
      BY <1>23 DEF RemoveWorktree
    <3>2. tree[op.agent] \in TreeType
      BY <3>1
    <3>3. [tree[op.agent] EXCEPT !.there = FALSE, !.dirty = FALSE] \in TreeType
      BY <3>2, TreeUpdates
    <3>4. tree' = [tree EXCEPT ![op.agent] = [tree[op.agent] EXCEPT !.there = FALSE, !.dirty = FALSE]]
      BY <3>1, <1>23, ZenonT(60) DEF RemoveWorktree, TreeType
    <3> QED BY <3>3, <3>4
  <2>2. (op \in OpType /\ (op.pc \notin {"none", "all"} => op.agent \in Agents))'
    BY <1>23 DEF RemoveWorktree, Continue, OpType, OpStages
  <2> QED BY <1>23, <2>1, <2>2 DEF RemoveWorktree, AgentsTyped
<1>24. CASE DeleteBranch
  <2>1. (tree \in [Agents -> TreeType])'
    BY <1>24 DEF DeleteBranch, SetTree, TreeType, Heads
  <2>2. (runner \in RunnerType)'
    BY <1>24 DEF DeleteBranch, RunnerType, RunnerStages, RunnerEnds, AgentStages, Heads
  <2>3. (op \in OpType /\ (op.pc \notin {"none", "all"} => op.agent \in Agents))'
    BY <1>24 DEF DeleteBranch, Continue, OpType, OpStages
  <2> QED BY <1>24, <2>1, <2>2, <2>3 DEF DeleteBranch, AgentsTyped
<1>25. CASE RecordCleanup
  <2>1. (manifest \in [Agents -> ManifestType])'
    BY <1>25 DEF RecordCleanup, SetStatus, ManifestType, Heads, Statuses
  <2>2. (op \in OpType /\ (op.pc \notin {"none", "all"} => op.agent \in Agents))'
    BY <1>25 DEF RecordCleanup, Continue, OpType, OpStages
  <2> QED BY <1>25, <2>1, <2>2 DEF RecordCleanup, AgentsTyped
<1>26. CASE ReconcileBatch
  <2>1. (batch \in BatchType)'
    BY <1>26 DEF ReconcileBatch, BatchType, ManifestType, NoBatch, NoManifest
  <2>2. (op \in OpType /\ (op.pc \notin {"none", "all"} => op.agent \in Agents))'
    BY <1>26 DEF ReconcileBatch, EndOp, NoOp, OpType, OpStages
  <2> QED BY <1>26, <2>1, <2>2 DEF ReconcileBatch, AgentsTyped
<1>27. ASSUME NEW x \in Agents, MergeOne(x) PROVE AgentsTyped'
  <2>1. (parent \in ParentType)'
    BY <1>27 DEF MergeOne, Begins, ParentType, AgentCommits
  <2>2. (op \in OpType /\ (op.pc \notin {"none", "all"} => op.agent \in Agents))'
    BY <1>27 DEF MergeOne, NoOp, OpType, OpStages
  <2> QED BY <1>27, <2>1, <2>2 DEF MergeOne, AgentsTyped
<1>28. ASSUME NEW x \in Agents, MergeNext(x) PROVE AgentsTyped'
  <2>1. (parent \in ParentType)'
    BY <1>28 DEF MergeNext, ParentType, AgentCommits
  <2>2. (op \in OpType /\ (op.pc \notin {"none", "all"} => op.agent \in Agents))'
    <3>1. \/ op' = [op EXCEPT !.todo = @ \ {x}] /\ op.pc = "all"
          \/ op' = [[op EXCEPT !.todo = @ \ {x}] EXCEPT !.pc = "all.merge", !.agent = x]
      BY <1>28 DEF MergeNext
    <3>2. [op EXCEPT !.todo = @ \ {x}] \in OpType
      BY DEF OpType
    <3>3. [[op EXCEPT !.todo = @ \ {x}] EXCEPT !.pc = "all.merge", !.agent = x] \in OpType
      BY DEF OpType, OpStages
    <3> QED BY <3>1, <3>2, <3>3 DEF OpType
  <2> QED BY <1>28, <2>1, <2>2 DEF MergeNext, AgentsTyped
<1>29. ASSUME NEW x \in Agents, NEW discard \in BOOLEAN, CleanupAgent(x, discard) PROVE AgentsTyped'
  <2>1. (parent \in ParentType)'
    BY <1>29 DEF CleanupAgent, Begins, ParentType, AgentCommits
  <2>2. (op \in OpType /\ (op.pc \notin {"none", "all"} => op.agent \in Agents))'
    <3> DEFINE gone == ~tree[x].there /\ tree[x].branch = "none"
               first == CASE manifest[x].status = "cleaned" -> "clean.batch"
                          [] gone /\ manifest[x].status # "cleaned" -> "clean.write"
                          [] OTHER -> "clean.tree"
    <3>1. op' = [NoOp EXCEPT !.pc = first, !.agent = x, !.discard = discard]
      BY <1>29 DEF CleanupAgent
    <3>2. first \in {"clean.batch", "clean.write", "clean.tree"}
      OBVIOUS
    <3> HIDE DEF first
    <3> QED BY <3>1, <3>2 DEF NoOp, OpType, OpStages
  <2> QED BY <1>29, <2>1, <2>2 DEF CleanupAgent, AgentsTyped
<1>30. CASE MoveParent
  <2>1. (parent \in ParentType)'
    <3>1. PICK commits \in {parent.commits \cup {OfUser}, {}} :
             parent' = [OutsideParent EXCEPT !.commits = commits, !.ever = @ \cup commits]
      BY <1>30 DEF MoveParent
    <3>2. commits \subseteq AgentCommits
      BY <3>1 DEF ParentType
    <3>3. OutsideParent \in ParentType
      BY DEF OutsideParent, ParentType
    <3> HIDE DEF OutsideParent
    <3> QED BY <3>1, <3>2, <3>3 DEF ParentType
  <2> QED BY <1>30, <2>1 DEF MoveParent, AgentsTyped
<1>31. CASE AbortMerge
  BY <1>31 DEF AgentsTyped, AbortMerge, ParentType, AgentCommits
<1>32. ASSUME NEW x \in Agents, EditWorktree(x) PROVE AgentsTyped'
  <2>1. (parent \in ParentType)'
    BY <1>32 DEF EditWorktree, OutsideParent, ParentType, AgentCommits
  <2>2. (tree \in [Agents -> TreeType])'
    <3>1. tree[x] \in TreeType
      OBVIOUS
    <3>2. [tree[x] EXCEPT !.dirty = TRUE] \in TreeType /\ [tree[x] EXCEPT !.branch = "late"] \in TreeType
      BY <3>1, TreeUpdates DEF Heads
    <3>3. \/ tree' = [tree EXCEPT ![x] = [tree[x] EXCEPT !.dirty = TRUE]]
          \/ tree' = [tree EXCEPT ![x] = [tree[x] EXCEPT !.branch = "late"]]
      BY <1>32 DEF EditWorktree, SetTree
    <3>4. [tree EXCEPT ![x] = [tree[x] EXCEPT !.dirty = TRUE]] \in [Agents -> TreeType]
      BY <3>2
    <3>5. [tree EXCEPT ![x] = [tree[x] EXCEPT !.branch = "late"]] \in [Agents -> TreeType]
      BY <3>2
    <3> QED BY <3>3, <3>4, <3>5
  <2> QED BY <1>32, <2>1, <2>2 DEF EditWorktree, AgentsTyped
<1>33. CASE UNCHANGED agentsVars
  BY <1>33 DEF agentsVars, AgentsTyped
<1>34. CASE RunnerStep
  BY <1>34, <1>1, <1>2, <1>3, <1>4, <1>5, <1>6, <1>7, <1>8, <1>9, <1>10, <1>11, <1>12, <1>13, <1>14,
     <1>15 DEF RunnerStep, ChildStep
<1>35. CASE AgentCommand
  BY <1>35, <1>16, <1>17, <1>18, <1>19, <1>20, <1>21, <1>22, <1>23, <1>24, <1>25, <1>26, <1>27,
     <1>28, <1>29 DEF AgentCommand
<1> QED BY <1>30, <1>31, <1>32, <1>33, <1>34, <1>35 DEF AgentsNext

\* While the batch runs there is nothing to merge.
LEMMA NothingMerged ==
    ASSUME AgentsTyped', (op.pc = "none")', (\A a \in Agents : NothingYet(a))', (batch.status # "merged")'
    PROVE  /\ OnlySealedMerged' /\ BatchMergedWhole' /\ BatchMergeInv' /\ MergeInv' /\ CleanupInv'
  BY DEF NothingYet, OnlySealedMerged, BatchMergedWhole, BatchMergeInv, MergeInv, CleanupInv

\* The steps of delegate_worktrees.
LEMMA RunnerKeeps ==
    ASSUME AgentsInv, AgentsTyped', RunnerStep
    PROVE  AgentsInv'
<1> SUFFICES /\ OneAfterTheOther' /\ RefusedInv' /\ NoWorkLost'
             /\ \A b \in Agents : SealedInv(b)' /\ EndedInv(b)'
             /\ op'.pc = "none" /\ (\A a \in Agents : NothingYet(a))' /\ (batch.status # "merged")'
  BY NothingMerged DEF AgentsInv
<1>0. /\ AgentsTyped /\ OneAfterTheOther /\ RefusedInv /\ NoWorkLost
      /\ \A a \in Agents : SealedInv(a) /\ EndedInv(a)
  BY DEF AgentsInv
<1> USE <1>0
<1> USE DEF AgentsTyped, ParentType, TreeType, RunnerType, RunnerEnds, Heads
<1> DEFINE Kept == /\ \A b \in Agents : SealedInv(b)' /\ EndedInv(b)'
                   /\ RefusedInv' /\ NoWorkLost' /\ (batch.status # "merged")' /\ runner.pc \notin RunnerEnds /\ UNCHANGED <<op, parent>>
<1>1. ASSUME SetupFails PROVE Kept
  <2> USE <1>1 DEF SetupFails
  <2>1. ASSUME NEW b \in Agents PROVE SealedInv(b)'
    BY DEF ManifestType, SealedInv, Sealed, Keeps, AgentStages
  <2>2. ASSUME NEW b \in Agents PROVE EndedInv(b)'
    BY DEF ManifestType, EndedInv, AgentStages, BatchType
  <2>3. RefusedInv'
    BY DEF RefusedInv, NoTree, NoManifest
  <2>4. NoWorkLost'
    BY DEF NoWorkLost, SealedInv, Sealed, Keeps, OneAfterTheOther, Contained, ManifestType
  <2>5. (batch.status # "merged")' /\ runner.pc \notin RunnerEnds /\ UNCHANGED <<op, parent>>
    BY DEF OneAfterTheOther
  <2> QED BY <2>1, <2>2, <2>3, <2>4, <2>5
<1>2. ASSUME RecordBatch PROVE Kept
  <2> USE <1>2 DEF RecordBatch, BatchType
  <2>1. ASSUME NEW b \in Agents PROVE SealedInv(b)'
    BY DEF ManifestType, SealedInv, Sealed, Keeps, AgentStages
  <2>2. ASSUME NEW b \in Agents PROVE EndedInv(b)'
    BY DEF ManifestType, EndedInv, AgentStages, BatchType
  <2>3. RefusedInv'
    BY DEF RefusedInv, NoTree, NoManifest
  <2>4. NoWorkLost'
    BY DEF NoWorkLost, SealedInv, Sealed, Keeps, OneAfterTheOther, Contained, ManifestType
  <2>5. (batch.status # "merged")' /\ runner.pc \notin RunnerEnds /\ UNCHANGED <<op, parent>>
    BY DEF OneAfterTheOther
  <2> QED BY <2>1, <2>2, <2>3, <2>4, <2>5
<1>3. ASSUME StartChildren PROVE Kept
  <2> USE <1>3 DEF StartChildren
  <2>1. ASSUME NEW b \in Agents PROVE SealedInv(b)'
    BY DEF ManifestType, SealedInv, Sealed, Keeps, AgentStages
  <2>2. ASSUME NEW b \in Agents PROVE EndedInv(b)'
    BY DEF ManifestType, EndedInv, AgentStages, BatchType
  <2>3. RefusedInv'
    BY DEF RefusedInv, NoTree, NoManifest
  <2>4. NoWorkLost'
    BY DEF NoWorkLost, SealedInv, Sealed, Keeps, OneAfterTheOther, Contained, ManifestType
  <2>5. (batch.status # "merged")' /\ runner.pc \notin RunnerEnds /\ UNCHANGED <<op, parent>>
    BY DEF OneAfterTheOther
  <2> QED BY <2>1, <2>2, <2>3, <2>4, <2>5
<1>4. ASSUME EndUndo PROVE Kept
  <2> USE <1>4 DEF EndUndo, NoBatch, NoManifest
  <2>1. ASSUME NEW b \in Agents PROVE SealedInv(b)'
    BY DEF ManifestType, SealedInv, Sealed, Keeps, AgentStages
  <2>2. ASSUME NEW b \in Agents PROVE EndedInv(b)'
    BY DEF ManifestType, EndedInv, AgentStages, BatchType
  <2>3. RefusedInv'
    BY DEF RefusedInv, NoTree, NoManifest
  <2>4. NoWorkLost'
    BY DEF NoWorkLost, SealedInv, Sealed, Keeps, OneAfterTheOther, Contained, ManifestType
  <2>5. (batch.status # "merged")' /\ runner.pc \notin RunnerEnds /\ UNCHANGED <<op, parent>>
    BY DEF OneAfterTheOther
  <2> QED BY <2>1, <2>2, <2>3, <2>4, <2>5
<1>5. ASSUME FinishBatch PROVE Kept
  <2> USE <1>5 DEF FinishBatch, BatchType
  <2>1. ASSUME NEW b \in Agents PROVE SealedInv(b)'
    BY DEF ManifestType, SealedInv, Sealed, Keeps, AgentStages
  <2>2. ASSUME NEW b \in Agents PROVE EndedInv(b)'
    BY DEF ManifestType, EndedInv, AgentStages, BatchType
  <2>3. RefusedInv'
    BY DEF RefusedInv, NoTree, NoManifest
  <2>4. NoWorkLost'
    BY DEF NoWorkLost, SealedInv, Sealed, Keeps, OneAfterTheOther, Contained, ManifestType
  <2>5. (batch.status # "merged")' /\ runner.pc \notin RunnerEnds /\ UNCHANGED <<op, parent>>
    BY DEF OneAfterTheOther
  <2> QED BY <2>1, <2>2, <2>3, <2>4, <2>5
<1>6. ASSUME RunnerDies PROVE Kept
  <2> USE <1>6 DEF RunnerDies
  <2>1. ASSUME NEW b \in Agents PROVE SealedInv(b)'
    BY DEF ManifestType, SealedInv, Sealed, Keeps, AgentStages
  <2>2. ASSUME NEW b \in Agents PROVE EndedInv(b)'
    BY DEF ManifestType, EndedInv, AgentStages, BatchType
  <2>3. RefusedInv'
    BY DEF RefusedInv, NoTree, NoManifest
  <2>4. NoWorkLost'
    BY DEF NoWorkLost, SealedInv, Sealed, Keeps, OneAfterTheOther, Contained, ManifestType
  <2>5. (batch.status # "merged")' /\ runner.pc \notin RunnerEnds /\ UNCHANGED <<op, parent>>
    BY DEF OneAfterTheOther
  <2> QED BY <2>1, <2>2, <2>3, <2>4, <2>5
<1>7. ASSUME NEW x \in Agents, AddWorktree(x) PROVE Kept
  <2> USE <1>7 DEF AddWorktree
  <2>1. ASSUME NEW b \in Agents PROVE SealedInv(b)'
    BY DEF ManifestType, SealedInv, Sealed, Keeps, AgentStages
  <2>2. ASSUME NEW b \in Agents PROVE EndedInv(b)'
    BY DEF ManifestType, EndedInv, AgentStages, BatchType
  <2>3. RefusedInv'
    BY DEF RefusedInv
  <2>4. NoWorkLost'
    BY DEF NoWorkLost, SealedInv, Sealed, Keeps, OneAfterTheOther, Contained, ManifestType
  <2>5. (batch.status # "merged")' /\ runner.pc \notin RunnerEnds /\ UNCHANGED <<op, parent>>
    BY DEF OneAfterTheOther
  <2> QED BY <2>1, <2>2, <2>3, <2>4, <2>5
<1>8. ASSUME NEW x \in Agents, RecordWorktree(x) PROVE Kept
  <2> USE <1>8 DEF RecordWorktree, SetStatus
  <2>1. ASSUME NEW b \in Agents PROVE SealedInv(b)'
    BY DEF ManifestType, SealedInv, Sealed, Keeps, AgentStages
  <2>2. ASSUME NEW b \in Agents PROVE EndedInv(b)'
    BY DEF ManifestType, EndedInv, AgentStages, BatchType
  <2>3. RefusedInv'
    BY DEF RefusedInv, NoTree, NoManifest
  <2>4. NoWorkLost'
    BY DEF NoWorkLost, SealedInv, Sealed, Keeps, OneAfterTheOther, Contained, ManifestType
  <2>5. (batch.status # "merged")' /\ runner.pc \notin RunnerEnds /\ UNCHANGED <<op, parent>>
    BY DEF OneAfterTheOther
  <2> QED BY <2>1, <2>2, <2>3, <2>4, <2>5
<1>9. ASSUME NEW x \in Agents, UndoSetup(x) PROVE Kept
  <2>1. /\ runner.pc = "undo" /\ runner'.pc = "undo" /\ runner'.ended = runner.ended
        /\ runner'.discarded = runner.discarded /\ batch' = batch /\ UNCHANGED <<op, parent>>
    BY <1>9 DEF UndoSetup
  <2>2. \A b \in Agents : tree'[b] \in {tree[b], NoTree} /\ manifest'[b] \in {manifest[b], NoManifest}
    BY <1>9 DEF UndoSetup
  <2>3. \A b \in Agents \ {x} : tree'[b] = tree[b] /\ manifest'[b] = manifest[b]
                                /\ runner'.agent[b] = runner.agent[b]
    BY <1>9 DEF UndoSetup
  <2>4. \/ runner'.agent[x] = "stuck"
        \/ tree'[x] = NoTree /\ manifest'[x] = NoManifest
    BY <1>9 DEF UndoSetup
  <2>5. NoManifest.head = "none" /\ NoManifest.status = "none"
    BY DEF NoManifest
  <2> QED
    <3>1. ASSUME NEW b \in Agents PROVE SealedInv(b)'
      BY <2>1, <2>2, <2>5 DEF SealedInv, Sealed
    <3>2. ASSUME NEW b \in Agents PROVE EndedInv(b)'
      BY <2>1, <2>2, <2>5 DEF EndedInv
    <3>3. RefusedInv'
      BY <2>1, <2>3, <2>4 DEF RefusedInv
    <3>4. NoWorkLost'
      BY <2>1, <2>2, <2>5 DEF NoWorkLost, Sealed, SealedInv
    <3> QED BY <2>1, <3>1, <3>2, <3>3, <3>4 DEF OneAfterTheOther
<1>10. ASSUME NEW x \in Agents, StartChild(x) PROVE Kept
  <2> USE <1>10 DEF StartChild, SetStatus
  <2>1. ASSUME NEW b \in Agents PROVE SealedInv(b)'
    BY DEF ManifestType, SealedInv, Sealed, Keeps, AgentStages
  <2>2. ASSUME NEW b \in Agents PROVE EndedInv(b)'
    BY DEF ManifestType, EndedInv, AgentStages, BatchType
  <2>3. RefusedInv'
    BY DEF RefusedInv, NoTree, NoManifest
  <2>4. NoWorkLost'
    BY DEF NoWorkLost, SealedInv, Sealed, Keeps, OneAfterTheOther, Contained, ManifestType
  <2>5. (batch.status # "merged")' /\ runner.pc \notin RunnerEnds /\ UNCHANGED <<op, parent>>
    BY DEF OneAfterTheOther
  <2> QED BY <2>1, <2>2, <2>3, <2>4, <2>5
<1>11. ASSUME NEW x \in Agents, ChildEnds(x) PROVE Kept
  <2> USE <1>11 DEF ChildEnds
  <2>1. ASSUME NEW b \in Agents PROVE SealedInv(b)'
    BY DEF ManifestType, SealedInv, Sealed, Keeps, AgentStages
  <2>2. ASSUME NEW b \in Agents PROVE EndedInv(b)'
    BY DEF ManifestType, EndedInv, AgentStages, BatchType
  <2>3. RefusedInv'
    BY DEF RefusedInv, NoTree, NoManifest
  <2>4. NoWorkLost'
    BY DEF NoWorkLost, SealedInv, Sealed, Keeps, OneAfterTheOther, Contained, ManifestType
  <2>5. (batch.status # "merged")' /\ runner.pc \notin RunnerEnds /\ UNCHANGED <<op, parent>>
    BY DEF OneAfterTheOther
  <2> QED BY <2>1, <2>2, <2>3, <2>4, <2>5
<1>12. ASSUME NEW x \in Agents, Commit(x) PROVE Kept
  <2> USE <1>12 DEF Commit
  <2>1. ASSUME NEW b \in Agents PROVE SealedInv(b)'
    BY DEF ManifestType, SealedInv, Sealed, Keeps, AgentStages
  <2>2. ASSUME NEW b \in Agents PROVE EndedInv(b)'
    BY DEF ManifestType, EndedInv, AgentStages, BatchType
  <2>3. RefusedInv'
    BY DEF RefusedInv, NoTree, NoManifest
  <2>4. NoWorkLost'
    BY DEF NoWorkLost, SealedInv, Sealed, Keeps, OneAfterTheOther, Contained, ManifestType
  <2>5. (batch.status # "merged")' /\ runner.pc \notin RunnerEnds /\ UNCHANGED <<op, parent>>
    BY DEF OneAfterTheOther
  <2> QED BY <2>1, <2>2, <2>3, <2>4, <2>5
<1>13. ASSUME NEW x \in Agents, ReadHead(x) PROVE Kept
  <2> USE <1>13 DEF ReadHead
  <2>1. ASSUME NEW b \in Agents PROVE SealedInv(b)'
    BY DEF ManifestType, SealedInv, Sealed, Keeps, AgentStages
  <2>2. ASSUME NEW b \in Agents PROVE EndedInv(b)'
    BY DEF ManifestType, EndedInv, AgentStages, BatchType
  <2>3. RefusedInv'
    BY DEF RefusedInv, NoTree, NoManifest
  <2>4. NoWorkLost'
    BY DEF NoWorkLost, SealedInv, Sealed, Keeps, OneAfterTheOther, Contained, ManifestType
  <2>5. (batch.status # "merged")' /\ runner.pc \notin RunnerEnds /\ UNCHANGED <<op, parent>>
    BY DEF OneAfterTheOther
  <2> QED BY <2>1, <2>2, <2>3, <2>4, <2>5
<1>14. ASSUME NEW x \in Agents, Seal(x) PROVE Kept
  <2> USE <1>14 DEF Seal
  <2>1. ASSUME NEW b \in Agents PROVE SealedInv(b)'
    BY DEF ManifestType, SealedInv, Sealed, Keeps, AgentStages
  <2>2. ASSUME NEW b \in Agents PROVE EndedInv(b)'
    BY DEF ManifestType, EndedInv, AgentStages, BatchType
  <2>3. RefusedInv'
    BY DEF RefusedInv, NoTree, NoManifest
  <2>4. NoWorkLost'
    BY DEF NoWorkLost, SealedInv, Sealed, Keeps, OneAfterTheOther, Contained, ManifestType
  <2>5. (batch.status # "merged")' /\ runner.pc \notin RunnerEnds /\ UNCHANGED <<op, parent>>
    BY DEF OneAfterTheOther
  <2> QED BY <2>1, <2>2, <2>3, <2>4, <2>5
<1>15. ASSUME NEW x \in Agents, SealFails(x) PROVE Kept
  <2> USE <1>15 DEF SealFails, SetStatus
  <2>1. ASSUME NEW b \in Agents PROVE SealedInv(b)'
    BY DEF ManifestType, SealedInv, Sealed, Keeps, AgentStages
  <2>2. ASSUME NEW b \in Agents PROVE EndedInv(b)'
    BY DEF ManifestType, EndedInv, AgentStages, BatchType
  <2>3. RefusedInv'
    BY DEF RefusedInv, NoTree, NoManifest
  <2>4. NoWorkLost'
    BY DEF NoWorkLost, SealedInv, Sealed, Keeps, OneAfterTheOther, Contained, ManifestType
  <2>5. (batch.status # "merged")' /\ runner.pc \notin RunnerEnds /\ UNCHANGED <<op, parent>>
    BY DEF OneAfterTheOther
  <2> QED BY <2>1, <2>2, <2>3, <2>4, <2>5
<1>16. Kept
  BY <1>1, <1>2, <1>3, <1>4, <1>5, <1>6, <1>7, <1>8, <1>9, <1>10, <1>11, <1>12, <1>13, <1>14, <1>15
     DEF RunnerStep, ChildStep
<1>17. OneAfterTheOther' /\ op'.pc = "none" /\ (\A a \in Agents : NothingYet(a))'
  BY <1>16 DEF OneAfterTheOther, NothingYet
<1> QED BY <1>16, <1>17

\* After a setup that was refused there is nothing to command.
LEMMA NotSealedYet == 
  ASSUME AgentsInv, runner.pc = "refused"
  PROVE (\A a \in Agents : manifest[a].status = "none") /\ batch.status = "none"
  BY DEF AgentsInv, RefusedInv, NoManifest, NoBatch

\* The fields of the parent that the invariant speaks of.
SameParent == /\ parent'.commits = parent.commits /\ parent'.ever = parent.ever
              /\ parent'.outside = parent.outside /\ parent'.clash = parent.clash
              /\ parent'.unsafe = parent.unsafe

\* A step that moves only the command.
LEMMA OnlyOpMoves ==
    ASSUME AgentsInv, AgentsTyped', SameParent, UNCHANGED <<tree, manifest, batch, runner>>,
           runner.pc \in RunnerEnds \ {"refused"} \/ op'.pc = "none",
           BatchMergeInv', MergeInv', CleanupInv'
    PROVE  AgentsInv'
<1> USE DEF AgentsInv, SameParent
<1>1. OneAfterTheOther'
  BY DEF OneAfterTheOther, NothingYet
<1>2. RefusedInv'
  BY DEF RefusedInv
<1>3. ASSUME NEW b \in Agents PROVE SealedInv(b)' /\ EndedInv(b)'
  BY DEF SealedInv, EndedInv, Sealed
<1>4. OnlySealedMerged' /\ NoWorkLost' /\ BatchMergedWhole'
  BY DEF OnlySealedMerged, NoWorkLost, BatchMergedWhole, Sealed, Contained
<1> QED BY <1>1, <1>2, <1>3, <1>4

\* A merge adds to the parent what was sealed of the child, or nothing.
LEMMA MergeKeeps ==
    ASSUME AgentsInv, AgentsTyped', op.agent \in Agents, runner.pc \in RunnerEnds \ {"refused"},
           NEW next, Merged(op.agent, next), UNCHANGED <<tree, manifest, batch, runner>>,
           BatchMergeInv', MergeInv', CleanupInv'
    PROVE  AgentsInv'
<1>0. /\ AgentsTyped /\ OneAfterTheOther /\ RefusedInv
      /\ \A a \in Agents : SealedInv(a) /\ EndedInv(a)
      /\ OnlySealedMerged /\ NoWorkLost /\ BatchMergedWhole
  BY DEF AgentsInv
<1> USE <1>0
<1> DEFINE H == History(op.agent, manifest[op.agent].head)
<1>1. /\ parent'.unsafe = parent.unsafe
      /\ \/ parent'.commits = parent.commits \cup H /\ parent'.ever = parent.ever \cup H
         \/ parent'.commits = parent.commits /\ parent'.ever = parent.ever
  BY DEF Merged, AgentsTyped, ParentType
<1>2. manifest[op.agent].head \in Heads \cup {"none"}
  BY DEF AgentsTyped, ManifestType
<1>3. /\ H \subseteq Own(op.agent)
      /\ H # {} => Sealed(op.agent) /\ op.agent \notin parent.unsafe
  BY <1>2, Histories DEF SealedInv, Sealed, Heads
<1>4. OneAfterTheOther' /\ RefusedInv'
  BY <1>1 DEF OneAfterTheOther, RefusedInv, RunnerEnds
<1>5. ASSUME NEW b \in Agents PROVE SealedInv(b)' /\ EndedInv(b)'
  BY <1>1 DEF SealedInv, EndedInv, Sealed
<1>6. OnlySealedMerged'
  <2>1. SUFFICES ASSUME NEW b \in Agents
                 PROVE  Own(b) \cap parent'.ever \subseteq
                          IF Sealed(b) /\ b \notin parent.unsafe THEN History(b, manifest[b].head) ELSE {}
    BY <1>1 DEF OnlySealedMerged, Sealed
  <2>2. CASE b = op.agent
    BY <1>1, <1>3, <2>2 DEF OnlySealedMerged
  <2>3. CASE b # op.agent
    BY <1>1, <1>3, <2>3, Histories DEF OnlySealedMerged
  <2> QED BY <2>2, <2>3
<1>7. NoWorkLost' /\ BatchMergedWhole'
  BY <1>1 DEF NoWorkLost, BatchMergedWhole, Sealed, Contained
<1> QED BY <1>4, <1>5, <1>6, <1>7 DEF AgentsInv

\* What a command records of a child leaves its head and its tests alone.
LEMMA RecordKeeps ==
    ASSUME AgentsInv, AgentsTyped', runner.pc \in RunnerEnds, op'.pc \in {"none", "clean.batch"},
           runner.pc # "refused",
           \A b \in Agents : /\ manifest'[b].head = manifest[b].head /\ manifest'[b].test = manifest[b].test
                             /\ manifest'[b].status \in {manifest[b].status, "merged", "cleaned"},
           UNCHANGED <<parent, tree, batch, runner>>
    PROVE  AgentsInv'
<1> USE DEF AgentsInv
<1>1. OneAfterTheOther' /\ RefusedInv'
  BY DEF OneAfterTheOther, RefusedInv, NothingYet, RunnerEnds
<1>2. ASSUME NEW b \in Agents PROVE SealedInv(b)' /\ EndedInv(b)'
  BY DEF SealedInv, EndedInv, Sealed, RunnerEnds
<1>3. OnlySealedMerged' /\ NoWorkLost' /\ BatchMergedWhole'
  BY DEF OnlySealedMerged, NoWorkLost, BatchMergedWhole, Sealed, Contained
<1>4. BatchMergeInv' /\ MergeInv' /\ CleanupInv'
  BY DEF BatchMergeInv, MergeInv, CleanupInv
<1> QED BY <1>1, <1>2, <1>3, <1>4

\* What a command records of the batch leaves the evidence alone.
LEMMA BatchKeeps ==
    ASSUME AgentsInv, AgentsTyped', runner.pc \in RunnerEnds \ {"refused"}, op'.pc = "none",
           batch'.evidence = batch.evidence, BatchMergedWhole',
           UNCHANGED <<parent, tree, manifest, runner>>
    PROVE  AgentsInv'
<1> USE DEF AgentsInv
<1>1. OneAfterTheOther' /\ RefusedInv'
  BY DEF OneAfterTheOther, RefusedInv, NothingYet, RunnerEnds
<1>2. ASSUME NEW b \in Agents PROVE SealedInv(b)' /\ EndedInv(b)'
  BY DEF SealedInv, EndedInv, Sealed, RunnerEnds
<1>3. OnlySealedMerged' /\ NoWorkLost'
  BY DEF OnlySealedMerged, NoWorkLost, Sealed, Contained
<1>4. BatchMergeInv' /\ MergeInv' /\ CleanupInv'
  BY DEF BatchMergeInv, MergeInv, CleanupInv
<1> QED BY <1>1, <1>2, <1>3, <1>4

\* The steps of the commands.
LEMMA CommandKeeps ==
    ASSUME AgentsInv, AgentsTyped', AgentCommand
    PROVE  AgentsInv'
<1>0. /\ AgentsTyped /\ OneAfterTheOther /\ RefusedInv
      /\ \A a \in Agents : SealedInv(a) /\ EndedInv(a)
      /\ OnlySealedMerged /\ NoWorkLost /\ BatchMergedWhole
      /\ BatchMergeInv /\ MergeInv /\ CleanupInv
  BY DEF AgentsInv
<1> USE <1>0
<1> USE DEF AgentsTyped, ParentType, OpType
<1>1. CASE OpEnds
  <2>1. op'.pc = "none" /\ SameParent
    BY <1>1 DEF OpEnds, EndOp, NoOp, SameParent
  <2>2. BatchMergeInv' /\ MergeInv' /\ CleanupInv'
    BY <2>1 DEF BatchMergeInv, MergeInv, CleanupInv
  <2> QED BY <1>1, <2>1, <2>2, OnlyOpMoves DEF OpEnds
<1>2. CASE CheckParent
  <2>1. /\ op'.pc \in {"merge.write", "merge.merge"} /\ op'.agent = op.agent /\ SameParent
        /\ op'.pc = "merge.merge" => ~Conflicts(op.agent, parent.commits)
    BY <1>2 DEF CheckParent, Continue, SameParent
  <2>2. BatchMergeInv' /\ MergeInv' /\ CleanupInv'
    BY <2>1 DEF BatchMergeInv, MergeInv, CleanupInv, SameParent, Conflicts
  <2>3. runner.pc \in RunnerEnds \ {"refused"}
    BY <1>2 DEF CheckParent, OneAfterTheOther
  <2> QED BY <1>2, <2>1, <2>2, <2>3, OnlyOpMoves DEF CheckParent
<1>3. ASSUME NEW x \in Agents, MergeOne(x) PROVE AgentsInv'
  <2>1. op'.pc = "merge.check" /\ SameParent
    BY <1>3 DEF MergeOne, Begins, NoOp, SameParent
  <2>2. BatchMergeInv' /\ MergeInv' /\ CleanupInv'
    BY <2>1 DEF BatchMergeInv, MergeInv, CleanupInv
  <2>3. runner.pc \in RunnerEnds \ {"refused"}
    BY <1>3, NotSealedYet DEF MergeOne, Begins, RunnerEnds, Terminal, Statuses
  <2> QED BY <1>3, <2>1, <2>2, <2>3, OnlyOpMoves DEF MergeOne
<1>4. CASE MergeAll
  <2>1. /\ op'.pc = "all" /\ op'.agent = "none" /\ op'.head = parent.commits /\ op'.todo = Agents /\ SameParent
    BY <1>4 DEF MergeAll, Begins, NoOp, SameParent
  <2>2. ASSUME NEW a \in Agents PROVE runner.ended[a] = "completed" /\ manifest[a].test # "failed"
    <3>1. ValidChild(a)
      BY <1>4 DEF MergeAll
    <3>2. Evidence(a).status = "completed" /\ manifest[a].test # "failed"
      BY <3>1 DEF ValidChild, Evidence, ManifestType
    <3> QED BY <3>1, <3>2 DEF ValidChild, Unchanged, EndedInv
  <2>3. BatchMergeInv'
    BY <1>4, <2>1, <2>2, AgentsAssumption DEF BatchMergeInv, SameParent, MergeAll, Mergeable,
       Contained, Conflicts, Left
  <2>4. MergeInv' /\ CleanupInv'
    BY <2>1 DEF MergeInv, CleanupInv
  <2>5. runner.pc \in RunnerEnds \ {"refused"}
    BY <1>4, NotSealedYet DEF MergeAll, Begins, RunnerEnds
  <2> QED BY <1>4, <2>1, <2>3, <2>4, <2>5, OnlyOpMoves DEF MergeAll
<1>5. ASSUME NEW x \in Agents, MergeNext(x) PROVE AgentsInv'
  <2>0. /\ op.pc = "all" /\ x \in op.todo /\ parent.commits = op.head /\ SameParent
        /\ UNCHANGED <<tree, manifest, batch, runner>>
    BY <1>5 DEF MergeNext, SameParent
  <2>1. \/ op' = [op EXCEPT !.todo = @ \ {x}] /\ Contained(x, manifest[x].head, op.head)
        \/ /\ op' = [[op EXCEPT !.todo = @ \ {x}] EXCEPT !.pc = "all.merge", !.agent = x]
           /\ ~Contained(x, manifest[x].head, op.head)
    BY <1>5 DEF MergeNext
  <2>2. /\ op'.todo = op.todo \ {x} /\ op'.head = op.head
        /\ \/ op'.pc = "all" /\ op'.agent = op.agent /\ Contained(x, manifest[x].head, op.head)
           \/ op'.pc = "all.merge" /\ op'.agent = x /\ ~Contained(x, manifest[x].head, op.head)
    BY <2>0, <2>1
  <2>3. BatchMergeInv'
    <3>1. Left' \subseteq Left /\ op'.agent \notin op'.todo
      BY <2>0, <2>2 DEF Left, BatchMergeInv
    <3>2. ASSUME NEW a \in Agents, a \notin Left' PROVE Contained(a, manifest[a].head, parent.ever)
      BY <2>0, <2>2, <3>2 DEF Left, BatchMergeInv, Contained, OneAfterTheOther
    <3> QED BY <2>0, <2>2, <3>1, <3>2 DEF BatchMergeInv, SameParent, Contained, Conflicts
  <2>4. MergeInv' /\ CleanupInv'
    BY <2>2 DEF MergeInv, CleanupInv
  <2>5. runner.pc \in RunnerEnds \ {"refused"}
    BY <2>0 DEF OneAfterTheOther
  <2> QED BY <2>0, <2>3, <2>4, <2>5, OnlyOpMoves
<1>6. ASSUME NEW x \in Agents, NEW discard \in BOOLEAN, CleanupAgent(x, discard) PROVE AgentsInv'
  <2> DEFINE gone == ~tree[x].there /\ tree[x].branch = "none"
             first == CASE manifest[x].status = "cleaned" -> "clean.batch"
                      [] gone /\ manifest[x].status # "cleaned" -> "clean.write"
                      [] OTHER -> "clean.tree"
  <2>1. /\ op' = [NoOp EXCEPT !.pc = first, !.agent = x, !.discard = discard] /\ SameParent
        /\ discard \/ gone \/ manifest[x].status = "cleaned" \/
             (tree[x].branch # "none" /\ Contained(x, tree[x].branch, parent.commits))
    BY <1>6 DEF CleanupAgent, Begins, SameParent
  <2>2. /\ first \in {"clean.batch", "clean.write", "clean.tree"}
        /\ first = "clean.tree" => ~gone /\ manifest[x].status # "cleaned"
    OBVIOUS
  <2> HIDE DEF first, gone
  <2>3. op'.pc = first /\ op'.agent = x /\ op'.discard = discard
    BY <2>1 DEF NoOp
  <2>4. BatchMergeInv' /\ MergeInv'
    BY <2>2, <2>3 DEF BatchMergeInv, MergeInv
  <2>5. CleanupInv'
    <3>1. SUFFICES ASSUME op'.pc = "clean.tree", ~discard, Sealed(x)
                   PROVE  Contained(x, manifest[x].head, parent.ever)
      BY <1>6, <2>1, <2>2, <2>3 DEF CleanupAgent, CleanupInv, SameParent, Sealed, Contained
    <3>2. tree[x].branch # "none" /\ Contained(x, tree[x].branch, parent.ever)
      BY <2>1, <2>2, <2>3, <3>1 DEF Contained, OneAfterTheOther
    <3>3. Keeps(tree[x].branch, manifest[x].head)
      BY <3>1, <3>2 DEF SealedInv
    <3>4. manifest[x].head \in Heads /\ tree[x].branch \in Heads
      BY <3>1, <3>2 DEF Sealed, ManifestType, TreeType
    <3> QED BY <3>2, <3>3, <3>4, Histories DEF Contained
  <2>6. runner.pc \in RunnerEnds \ {"refused"}
    BY <1>6, NotSealedYet DEF CleanupAgent, Begins, RunnerEnds, Terminal, Statuses
  <2> QED BY <1>6, <2>1, <2>4, <2>5, <2>6, OnlyOpMoves DEF CleanupAgent
<1>7. CASE MergeCommit
  <2>1. /\ op.pc = "merge.merge" /\ op.agent \in Agents /\ runner.pc \in RunnerEnds \ {"refused"}
        /\ UNCHANGED <<tree, manifest, batch, runner>>
    BY <1>7 DEF MergeCommit, OneAfterTheOther
  <2>2. Merged(op.agent, [op EXCEPT !.pc = "merge.write"])
    BY <1>7 DEF MergeCommit
  <2>3. op' = [[op EXCEPT !.pc = "merge.write"] EXCEPT !.head = parent'.commits] \/ op' = NoOp
    BY <2>2 DEF Merged, EndOp
  <2>a. op'.pc \in {"none", "merge.write"}
    <3> DEFINE c == parent'.commits
    <3>1. op' = [[op EXCEPT !.pc = "merge.write"] EXCEPT !.head = c] \/ op' = NoOp
      BY <2>3
    <3>2. op' = NoOp => op'.pc = "none"
      BY DEF NoOp
    <3> HIDE DEF c, NoOp
    <3>3. op' = [[op EXCEPT !.pc = "merge.write"] EXCEPT !.head = c] => op'.pc = "merge.write"
      OBVIOUS
    <3> QED BY <3>1, <3>2, <3>3
  <2>4. BatchMergeInv' /\ MergeInv' /\ CleanupInv'
    BY <2>a DEF BatchMergeInv, MergeInv, CleanupInv
  <2> QED BY <2>1, <2>2, <2>4, MergeKeeps
<1>8. CASE MergeBatchCommit
  <2> DEFINE H == History(op.agent, manifest[op.agent].head)
  <2>1. /\ op.pc = "all.merge" /\ op.agent \in Agents /\ runner.pc \in RunnerEnds \ {"refused"}
        /\ UNCHANGED <<tree, manifest, batch, runner>>
    BY <1>8 DEF MergeBatchCommit, OneAfterTheOther
  <2>2. Merged(op.agent, [op EXCEPT !.pc = "all"])
    BY <1>8 DEF MergeBatchCommit
  <2>3. \/ /\ op'.pc = "all" /\ op'.agent = op.agent /\ op'.todo = op.todo /\ op'.head = parent'.commits
           /\ parent'.commits = parent.commits \cup H /\ parent'.ever = parent.ever \cup H
           /\ parent'.outside = parent.outside /\ parent'.clash = parent.clash
        \/ op'.pc = "none"
    <3>1. \/ /\ op' = [[op EXCEPT !.pc = "all"] EXCEPT !.head = parent'.commits]
             /\ parent' = [parent EXCEPT !.commits = @ \cup H, !.ever = @ \cup H]
          \/ op' = NoOp
      BY <2>2 DEF Merged, EndOp
    <3> DEFINE c == parent'.commits
    <3>2. \/ /\ op' = [[op EXCEPT !.pc = "all"] EXCEPT !.head = c]
             /\ parent' = [parent EXCEPT !.commits = @ \cup H, !.ever = @ \cup H]
          \/ op' = NoOp
      BY <3>1
    <3>3. op' = NoOp => op'.pc = "none"
      BY DEF NoOp
    <3> HIDE DEF H, c, NoOp
    <3>4. op' = [[op EXCEPT !.pc = "all"] EXCEPT !.head = c] =>
            op'.pc = "all" /\ op'.agent = op.agent /\ op'.todo = op.todo /\ op'.head = c
      OBVIOUS
    <3>5. parent' = [parent EXCEPT !.commits = @ \cup H, !.ever = @ \cup H] =>
             /\ parent'.commits = parent.commits \cup H /\ parent'.ever = parent.ever \cup H
             /\ parent'.outside = parent.outside /\ parent'.clash = parent.clash
      OBVIOUS
    <3> QED BY <3>2, <3>3, <3>4, <3>5 DEF c
  <2>4. BatchMergeInv'
    <3>1. SUFFICES ASSUME op'.pc = "all" PROVE BatchMergeInv'
      BY <2>3 DEF BatchMergeInv
    <3>2. Left = op.todo \cup {op.agent} /\ Left' = op.todo
      BY <2>1, <2>3, <3>1 DEF Left
    <3>3. op.agent \notin op.todo
      BY <2>1 DEF BatchMergeInv
    <3>4. ASSUME NEW a \in Agents
          PROVE  /\ runner'.ended[a] = "completed" /\ manifest'[a].test # "failed"
                 /\ a \notin Left' => Contained(a, manifest[a].head, parent'.ever)
      BY <2>1, <2>3, <3>1, <3>2 DEF BatchMergeInv, Contained
    <3>5. ASSUME parent.outside = 0, NEW a \in op.todo, ~Contained(a, manifest[a].head, parent'.commits)
          PROVE  /\ ~Conflicts(a, parent.commits) /\ ~Conflicts(a, H)
                 /\ \A b \in op.todo \ {a} : ~Conflicts(a, History(b, manifest[b].head))
      BY <2>1, <2>3, <3>1, <3>2, <3>3, <3>5 DEF BatchMergeInv, Contained
    <3>6. ASSUME parent.outside = 0, NEW a \in op.todo, ~Contained(a, manifest[a].head, parent'.commits)
          PROVE  /\ ~Conflicts(a, parent.commits)'
                 /\ \A b \in op.todo \ {a} : ~Conflicts(a, History(b, manifest[b].head))'
      BY <2>1, <2>3, <3>1, <3>5, <3>6 DEF Conflicts
    <3> QED BY <2>1, <2>3, <3>1, <3>2, <3>3, <3>4, <3>6 DEF BatchMergeInv, Contained
  <2>5. MergeInv' /\ CleanupInv'
    BY <2>3 DEF MergeInv, CleanupInv
  <2> QED BY <2>1, <2>2, <2>4, <2>5, MergeKeeps
<1>9. CASE RecordMerge
  <2>1. op.agent \in Agents /\ runner.pc \in RunnerEnds \ {"refused"} /\ op'.pc = "none"
    BY <1>9 DEF RecordMerge, OneAfterTheOther, EndOp, NoOp
  <2>2. \A b \in Agents : /\ manifest'[b].head = manifest[b].head /\ manifest'[b].test = manifest[b].test
                          /\ manifest'[b].status \in {manifest[b].status, "merged"}
    BY <1>9, <2>1 DEF RecordMerge, SetStatus
  <2>3. UNCHANGED <<parent, tree, batch, runner>>
    BY <1>9 DEF RecordMerge
  <2> QED BY <2>1, <2>2, <2>3, RecordKeeps DEF RunnerEnds
<1>10. CASE RecordCleanup
  <2>1. op.agent \in Agents /\ runner.pc \in RunnerEnds \ {"refused"} /\ op'.pc = "clean.batch"
    BY <1>10 DEF RecordCleanup, OneAfterTheOther, Continue
  <2>2. \A b \in Agents : /\ manifest'[b].head = manifest[b].head /\ manifest'[b].test = manifest[b].test
                          /\ manifest'[b].status \in {manifest[b].status, "cleaned"}
    BY <1>10, <2>1 DEF RecordCleanup, SetStatus
  <2>3. UNCHANGED <<parent, tree, batch, runner>>
    BY <1>10 DEF RecordCleanup
  <2> QED BY <2>1, <2>2, <2>3, RecordKeeps DEF RunnerEnds
<1>11. CASE RecordBatchMerge
  <2>1. /\ runner.pc \in RunnerEnds \ {"refused"} /\ op'.pc = "none" /\ op.pc = "all" /\ op.todo = {}
        /\ batch'.status = "merged" /\ batch'.evidence = batch.evidence
        /\ UNCHANGED <<parent, tree, manifest, runner>>
    BY <1>11 DEF RecordBatchMerge, OneAfterTheOther, EndOp, NoOp, BatchType
  <2>2. BatchMergedWhole'
    BY <2>1 DEF BatchMergedWhole, BatchMergeInv, Left, Contained
  <2> QED BY <2>1, <2>2, BatchKeeps
<1>12. CASE ReconcileBatch
  <2>1. /\ runner.pc \in RunnerEnds \ {"refused"} /\ op'.pc = "none"
        /\ batch'.status \in {batch.status, "cleaned"} /\ batch'.evidence = batch.evidence
        /\ UNCHANGED <<parent, tree, manifest, runner>>
    BY <1>12 DEF ReconcileBatch, OneAfterTheOther, EndOp, NoOp, BatchType
  <2>2. BatchMergedWhole'
    BY <2>1 DEF BatchMergedWhole, Contained
  <2> QED BY <2>1, <2>2, BatchKeeps
<1>13. CASE RemoveWorktree
  <2>1. /\ op.pc = "clean.tree" /\ op.agent \in Agents /\ runner.pc \in RunnerEnds \ {"refused"}
        /\ op'.pc = "clean.branch" /\ op'.agent = op.agent /\ op'.discard = op.discard
        /\ UNCHANGED <<parent, manifest, batch, runner>>
    BY <1>13 DEF RemoveWorktree, OneAfterTheOther, Continue
  <2>2. \A b \in Agents : tree'[b].branch = tree[b].branch
    BY <1>13, <2>1 DEF RemoveWorktree, TreeType
  <2>3. OneAfterTheOther' /\ RefusedInv'
    BY <2>1 DEF OneAfterTheOther, RefusedInv, NothingYet, RunnerEnds
  <2>4. ASSUME NEW b \in Agents PROVE SealedInv(b)' /\ EndedInv(b)'
    BY <2>1, <2>2 DEF SealedInv, EndedInv, Sealed, RunnerEnds
  <2>5. OnlySealedMerged' /\ NoWorkLost' /\ BatchMergedWhole'
    BY <2>1, <2>2 DEF OnlySealedMerged, NoWorkLost, BatchMergedWhole, Sealed, Contained
  <2>6. BatchMergeInv' /\ MergeInv'
    BY <2>1 DEF BatchMergeInv, MergeInv
  <2>7. CleanupInv'
    BY <2>1 DEF CleanupInv, Sealed, Contained
  <2> QED BY <2>3, <2>4, <2>5, <2>6, <2>7 DEF AgentsInv
<1>14. CASE DeleteBranch
  <2>1. /\ op.pc = "clean.branch" /\ op.agent \in Agents /\ runner.pc \in RunnerEnds \ {"refused"}
        /\ op'.pc = "clean.write"
        /\ UNCHANGED <<parent, manifest, batch>>
    BY <1>14 DEF DeleteBranch, OneAfterTheOther, Continue
  <2>2. /\ \A b \in Agents : tree'[b].branch = IF b = op.agent THEN "none" ELSE tree[b].branch
    BY <1>14, <2>1 DEF DeleteBranch, SetTree, TreeType
  <2>a. /\ runner'.pc = runner.pc /\ runner'.ended = runner.ended /\ runner'.agent = runner.agent
        /\ runner'.discarded = IF op.discard THEN runner.discarded \cup {op.agent} ELSE runner.discarded
    BY <1>14 DEF DeleteBranch, RunnerType
  <2>3. OneAfterTheOther' /\ RefusedInv'
    BY <2>1, <2>a DEF OneAfterTheOther, RefusedInv, NothingYet, RunnerEnds
  <2>4. ASSUME NEW b \in Agents PROVE SealedInv(b)' /\ EndedInv(b)'
    BY <2>1, <2>2, <2>a DEF SealedInv, EndedInv, Sealed, RunnerEnds
  <2>5. OnlySealedMerged' /\ BatchMergedWhole'
    BY <2>1, <2>a DEF OnlySealedMerged, BatchMergedWhole, Sealed, Contained
  <2>6. BatchMergeInv' /\ MergeInv' /\ CleanupInv'
    BY <2>1 DEF BatchMergeInv, MergeInv, CleanupInv
  <2>7. NoWorkLost'
    BY <2>1, <2>2, <2>a DEF NoWorkLost, CleanupInv, Sealed, Contained
  <2> QED BY <2>3, <2>4, <2>5, <2>6, <2>7 DEF AgentsInv
<1> QED BY <1>1, <1>2, <1>3, <1>4, <1>5, <1>6, <1>7, <1>8, <1>9, <1>10, <1>11, <1>12, <1>13, <1>14 DEF AgentCommand

\* What happens outside the lock.
LEMMA OutsideKeeps ==
    ASSUME AgentsInv, AgentsTyped', MoveParent \/ AbortMerge \/ \E a \in Agents : EditWorktree(a)
    PROVE  AgentsInv'
<1>0. /\ AgentsTyped /\ OneAfterTheOther /\ RefusedInv
      /\ \A a \in Agents : SealedInv(a) /\ EndedInv(a)
      /\ OnlySealedMerged /\ NoWorkLost /\ BatchMergedWhole
      /\ BatchMergeInv /\ MergeInv /\ CleanupInv
  BY DEF AgentsInv
<1> USE <1>0
<1> USE DEF AgentsTyped, ParentType, OpType
<1>1. CASE AbortMerge
  <2>1. SameParent /\ UNCHANGED <<tree, manifest, batch, runner, op>>
    BY <1>1 DEF AbortMerge, SameParent
  <2>2. BatchMergeInv' /\ MergeInv' /\ CleanupInv'
    BY <2>1 DEF BatchMergeInv, MergeInv, CleanupInv, SameParent, Left, Contained, Conflicts, Sealed
  <2>3. runner.pc \in RunnerEnds \ {"refused"} \/ op'.pc = "none"
    BY <2>1 DEF OneAfterTheOther
  <2> QED BY <2>1, <2>2, <2>3, OnlyOpMoves
<1>2. CASE MoveParent
  <2>1. PICK commits \in {parent.commits \cup {OfUser}, {}} :
           parent' = [OutsideParent EXCEPT !.commits = commits, !.ever = @ \cup commits]
    BY <1>2 DEF MoveParent
  <2>2. /\ parent'.commits = commits /\ parent'.ever = parent.ever \cup commits
        /\ parent'.outside = parent.outside + 1 /\ parent'.unsafe = parent.unsafe
    BY <2>1 DEF OutsideParent
  <2>3. parent'.outside # 0 /\ UNCHANGED <<tree, manifest, batch, runner, op>>
    BY <1>2, <2>2 DEF MoveParent
  <2>4. parent'.commits \subseteq parent'.ever /\ parent.ever \subseteq parent'.ever
        /\ \A a \in Agents : Own(a) \cap parent'.ever = Own(a) \cap parent.ever
    BY <2>2, Histories DEF OneAfterTheOther
  <2> USE <2>2, <2>3, <2>4
  <2>5. OneAfterTheOther' /\ RefusedInv'
    BY DEF OneAfterTheOther, RefusedInv, NothingYet
  <2>6. ASSUME NEW b \in Agents PROVE SealedInv(b)' /\ EndedInv(b)'
    BY DEF SealedInv, EndedInv, Sealed
  <2>7. OnlySealedMerged' /\ NoWorkLost' /\ BatchMergedWhole'
    BY DEF OnlySealedMerged, NoWorkLost, BatchMergedWhole, Sealed, Contained
  <2>8. BatchMergeInv'
    BY DEF BatchMergeInv, Left, Contained
  <2>9. MergeInv' /\ CleanupInv'
    BY DEF MergeInv, CleanupInv, Sealed, Contained
  <2> QED BY <2>5, <2>6, <2>7, <2>8, <2>9 DEF AgentsInv
<1>3. ASSUME NEW x \in Agents, EditWorktree(x) PROVE AgentsInv'
  <2>1. /\ parent'.commits = parent.commits /\ parent'.ever = parent.ever
        /\ parent'.outside # 0 /\ parent'.unsafe = parent.unsafe
        /\ UNCHANGED <<manifest, batch, runner, op>>
    BY <1>3 DEF EditWorktree, OutsideParent
  <2>2. \A b \in Agents : /\ tree'[b].branch = tree[b].branch \/ (tree[b].branch = "work" /\ tree'[b].branch = "late")
                          /\ tree'[b] = tree[b] \/ tree[b].there
    BY <1>3 DEF EditWorktree, SetTree, TreeType
  <2>3. OneAfterTheOther'
    BY <2>1 DEF OneAfterTheOther, NothingYet
  <2>4. RefusedInv'
    BY <2>1, <2>2 DEF RefusedInv, NoTree
  <2>5. ASSUME NEW b \in Agents PROVE SealedInv(b)' /\ EndedInv(b)'
    BY <2>1, <2>2 DEF SealedInv, EndedInv, Sealed, Keeps
  <2>6. OnlySealedMerged' /\ NoWorkLost' /\ BatchMergedWhole'
    BY <2>1, <2>2 DEF OnlySealedMerged, NoWorkLost, BatchMergedWhole, Sealed, Contained
  <2>7. BatchMergeInv' /\ MergeInv' /\ CleanupInv'
    BY <2>1 DEF BatchMergeInv, MergeInv, CleanupInv, Left, Sealed, Contained
  <2> QED BY <2>3, <2>4, <2>5, <2>6, <2>7 DEF AgentsInv
<1> QED BY <1>1, <1>2, <1>3

\* Initially nothing is there.
LEMMA AgentsInvInit == AgentsInit => AgentsInv
<1> SUFFICES ASSUME AgentsInit PROVE AgentsInv
  OBVIOUS
<1>1. /\ parent.commits = {} /\ parent.ever = {} /\ op.pc = "none" /\ runner.pc = "setup"
      /\ \A a \in Agents : tree[a] = NoTree /\ manifest[a] = NoManifest /\ runner.agent[a] = "new"
                           /\ batch.evidence[a] = NoManifest
      /\ batch.status = "none"
  BY DEF AgentsInit, NoOp, NoBatch
<1>2. AgentsTyped
  <2>1. parent \in ParentType
    <3> DEFINE Unsafe == {{}} \cup {{a} : a \in Agents}
    <3>1. parent \in [commits : {{}}, ever : {{}}, merging : {FALSE}, outside : {0}, commands : {0},
                      clash : {"agents", "user"}, unsafe : Unsafe]
      BY DEF AgentsInit
    <3>2. Unsafe \subseteq SUBSET Agents
      OBVIOUS
    <3> HIDE DEF Unsafe
    <3>3. parent.unsafe \in SUBSET Agents /\ parent.clash \in {"agents", "user"}
      BY <3>1, <3>2
    <3>4. parent = [commits |-> {}, ever |-> {}, merging |-> FALSE, outside |-> 0, commands |-> 0,
                    clash |-> parent.clash, unsafe |-> parent.unsafe]
      BY <3>1
    <3>5. \A c \in {"agents", "user"}, u \in SUBSET Agents :
             [commits |-> {}, ever |-> {}, merging |-> FALSE, outside |-> 0, commands |-> 0,
              clash |-> c, unsafe |-> u] \in ParentType
      BY DEF ParentType
    <3> QED BY <3>3, <3>4, <3>5
  <2>2. tree \in [Agents -> TreeType] /\ manifest \in [Agents -> ManifestType] /\ batch \in BatchType
    BY DEF AgentsInit, NoTree, NoManifest, NoBatch, TreeType, ManifestType, BatchType
  <2>3. runner \in RunnerType
    BY DEF AgentsInit, RunnerType, RunnerStages, AgentStages
  <2>4. op \in OpType
    BY DEF AgentsInit, NoOp, OpType, OpStages
  <2> QED BY <1>1, <2>1, <2>2, <2>3, <2>4 DEF AgentsTyped
<1>3. OneAfterTheOther /\ RefusedInv
  BY <1>1 DEF OneAfterTheOther, NothingYet, RefusedInv, RunnerEnds
<1>4. ASSUME NEW a \in Agents PROVE SealedInv(a) /\ EndedInv(a)
  BY <1>1 DEF SealedInv, EndedInv, Sealed, NoManifest
<1>5. OnlySealedMerged /\ NoWorkLost /\ BatchMergedWhole
  BY <1>1 DEF OnlySealedMerged, NoWorkLost, BatchMergedWhole, Sealed, NoManifest
<1>6. BatchMergeInv /\ MergeInv /\ CleanupInv
  BY <1>1 DEF BatchMergeInv, MergeInv, CleanupInv
<1> QED BY <1>2, <1>3, <1>4, <1>5, <1>6 DEF AgentsInv

\* The strengthening is inductive.
LEMMA AgentsInvNext == AgentsInv /\ [AgentsNext]_agentsVars => AgentsInv'
<1> SUFFICES ASSUME AgentsInv, [AgentsNext]_agentsVars PROVE AgentsInv'
  OBVIOUS
<1>1. AgentsTyped'
  BY AgentsTypedNext DEF AgentsInv
<1>2. CASE UNCHANGED agentsVars
  <2>1. SameParent /\ UNCHANGED <<tree, manifest, batch, runner, op>>
    BY <1>2 DEF agentsVars, SameParent
  <2>2. BatchMergeInv' /\ MergeInv' /\ CleanupInv'
    BY <1>2 DEF agentsVars, AgentsInv, BatchMergeInv, MergeInv, CleanupInv, Left, Contained, Conflicts, Sealed
  <2>3. runner.pc \in RunnerEnds \ {"refused"} \/ op'.pc = "none"
    BY <2>1 DEF AgentsInv, OneAfterTheOther
  <2> QED BY <1>1, <2>1, <2>2, <2>3, OnlyOpMoves
<1> QED BY <1>1, <1>2, RunnerKeeps, CommandKeeps, OutsideKeeps DEF AgentsNext

\* The strengthening says what the runs check.
LEMMA AgentsInvSafe ==
    AgentsInv => /\ OnlySealedMerged /\ NoConflictingMerge /\ BatchMergedWhole
                 /\ NoWorkLost /\ RefusedSetupLeavesNothing /\ AgentsTypeOK
<1> SUFFICES ASSUME AgentsInv PROVE NoConflictingMerge /\ RefusedSetupLeavesNothing /\ AgentsTypeOK
  BY DEF AgentsInv
<1>1. NoConflictingMerge
  BY DEF NoConflictingMerge, AgentsInv, MergeInv, BatchMergeInv, Left, AgentsTyped
<1>2. RefusedSetupLeavesNothing
  BY DEF RefusedSetupLeavesNothing, AgentsInv, RefusedInv
<1>3. AgentsTypeOK
  BY DEF AgentsTypeOK, AgentsInv, AgentsTyped, OneAfterTheOther, ParentType, TreeType, ManifestType, BatchType
<1> QED BY <1>1, <1>2, <1>3

-----------------------------------------------------------------------------
(* Which commands run without a question.                                   *)

PolicyPhases == {"read", "words", "assess", "assessed", "judge", "decided"}
Flags == [operators : BOOLEAN, redirects : BOOLEAN, expansion : BOOLEAN, rejected : BOOLEAN]
Levels == [via : Vias, named : {"plain", "sensitive", "envSplit"}, head : CommandHeads, operand : Operands]
ShellType == [platform : {"posix", "windows"}, quote : {"", "single", "double"}, escaped : BOOLEAN,
              found : Flags, context : Contexts, acts : Flags, astray : {"no", "flagged", "text"},
              legible : Nat, levels : Seq(Levels),
              redirect : {"none", "elsewhere", "sensitive"}]
VerdictType == [phase : PolicyPhases, examined : Nat, reason : {"none", "sensitive", "envSplit"},
                decision : {"none", "allow", "ask", "reject"}, mode : {"none", "argv", "shell"},
                on : Circumstance \cup {"none"}, permission : {"none", "allow", "ask", "deny"}]

\* In a command that is legible the scanner misses nothing the shell acts on,
\* or has rejected it; one that is not was led astray.
FlagsSeen(s) ==
    /\ s.legible >= 1 =>
         /\ s.acts.operators => s.found.operators \/ s.found.rejected
         /\ s.acts.redirects => s.found.redirects \/ s.found.rejected
         /\ s.acts.expansion => s.found.expansion \/ s.found.rejected
    /\ s.astray = "flagged" => s.found.redirects \/ s.found.expansion \/ s.found.rejected
    /\ s.legible = 0 => s.astray # "no" \/ s.found.rejected
    /\ ~s.acts.rejected
    /\ s.found.redirects => s.found.operators
    /\ s.found.rejected => s.platform = "windows"
    /\ s.found.expansion => s.platform = "posix"

\* Scanner and shell agree on the quoting until the command goes astray.
QuotingAgrees(s) ==
    /\ s.escaped => s.quote # "single" /\ s.platform = "posix"
    /\ s.legible \in {0, 1}
    /\ s.astray # "no" \/ s.found.rejected \/ s.context = ScannerContext(s)

\* Every command but the last contains the next one.
LevelsKnown(s) ==
    /\ Len(s.levels) \in 1..MaxLevels
    /\ \A i \in 1..(Len(s.levels) - 1) : s.levels[i].head \in Containing(s.levels[i + 1].via)
    /\ Embeds(s, s.levels)

\* The commands up to the n-th were looked into, and each led to the next.
LookedInto(n) ==
    /\ \A i \in 1..n : ~Revealing(shell, i)
    /\ \A i \in 1..n : i < n => Deeper(shell, i)

\* The invariant.
PolicyInv ==
    /\ shell \in ShellType /\ verdict \in VerdictType
    /\ verdict.phase \in {"read", "words", "assess", "assessed"} => FlagsSeen(shell)
    /\ verdict.phase \in {"read", "words", "assess"} => verdict.decision = "none"
    /\ verdict.phase = "read" => QuotingAgrees(shell) /\ shell.levels = << >> /\ verdict.examined = 0
    /\ verdict.phase \in {"words", "assess", "assessed"} => LevelsKnown(shell)
    /\ verdict.phase \in {"words", "assess"} => LookedInto(verdict.examined)
    /\ verdict.phase = "words" =>
         /\ verdict.examined < Len(shell.levels)
         /\ verdict.examined > 0 => Deeper(shell, verdict.examined)
    /\ verdict.phase = "assess" =>
         /\ verdict.examined \in 1..Len(shell.levels)
         /\ ~Deeper(shell, verdict.examined)
    /\ verdict.phase \in {"judge", "decided"} => shell.levels = << >>
    /\ verdict.decision = "allow" => verdict.mode = "argv"
    /\ OnlyReadersUnasked
    /\ verdict.phase = "assessed" =>
         ((\E i \in Shown(shell) : shell.levels[i].named = "sensitive") => verdict.decision = "reject")
    /\ verdict.phase = "decided" =>
         /\ verdict.on \in Circumstance
         /\ verdict.on.tool = "run_shell" => verdict.on.harmless = (verdict.decision = "allow")
         /\ verdict.permission = IF verdict.on.tool = "run_shell" /\ verdict.decision = "reject" THEN "deny"
                                 ELSE PermissionDecision(verdict.on)

\* The invariant holds before the first character.
LEMMA PolicyInvInit == PolicyInit => PolicyInv
<1> SUFFICES ASSUME PolicyInit PROVE PolicyInv
  OBVIOUS
<1>1. PICK p \in Platforms :
        shell = [platform |-> p, quote |-> "", escaped |-> FALSE, found |-> NoFlags, context |-> "plain",
                 acts |-> NoFlags, astray |-> "no", legible |-> 1, levels |-> << >>, redirect |-> "none"]
  BY DEF PolicyInit
<1>2. verdict = [phase |-> "read", examined |-> 0, reason |-> "none", decision |-> "none",
                 mode |-> "none", on |-> "none", permission |-> "none"]
  BY DEF PolicyInit
<1>3. shell \in ShellType
  <2>1. p \in {"posix", "windows"} /\ << >> \in Seq(Levels)
    BY PolicyAssumption
  <2>2. NoFlags \in Flags
    BY DEF NoFlags, Flags
  <2> QED BY <1>1, <2>1, <2>2 DEF ShellType, Contexts
<1>4. verdict \in VerdictType
  BY <1>2 DEF VerdictType, PolicyPhases
<1>5. FlagsSeen(shell) /\ QuotingAgrees(shell)
  <2>1. /\ shell.quote = "" /\ shell.escaped = FALSE /\ shell.context = "plain" /\ shell.legible = 1
        /\ shell.astray = "no" /\ shell.found = NoFlags /\ shell.acts = NoFlags
    BY <1>1
  <2>2. /\ ~NoFlags.operators /\ ~NoFlags.redirects /\ ~NoFlags.expansion /\ ~NoFlags.rejected
    BY DEF NoFlags
  <2>3. ScannerContext(shell) = "plain"
    BY <2>1 DEF ScannerContext
  <2>4. /\ ~shell.acts.operators /\ ~shell.acts.redirects /\ ~shell.acts.expansion /\ ~shell.acts.rejected
        /\ ~shell.found.redirects /\ ~shell.found.expansion /\ ~shell.found.rejected
    BY <2>1, <2>2
  <2>5. shell.legible # 0 /\ shell.astray # "flagged"
    <3>1. shell.legible = 1 /\ shell.astray = "no"
      BY <2>1, Zenon
    <3>2. "no" # "flagged" /\ 1 # 0
      OBVIOUS
    <3> QED BY <3>1, <3>2, Zenon
  <2>6. FlagsSeen(shell)
    BY <2>4, <2>5, Zenon DEF FlagsSeen
  <2>7. QuotingAgrees(shell)
    BY <2>1, <2>3 DEF QuotingAgrees
  <2> QED BY <2>6, <2>7
<1> QED BY <1>1, <1>2, <1>3, <1>4, <1>5 DEF PolicyInv, OnlyReadersUnasked

\* What raising a flag and changing the quoting do to the fields.
LEMMA FlagRaised ==
    ASSUME NEW s \in ShellType, NEW name \in {"operators", "redirects", "expansion", "rejected"}
    PROVE  /\ Flag(s, name) \in ShellType
           /\ Flag(s, name).platform = s.platform /\ Flag(s, name).quote = s.quote
           /\ Flag(s, name).escaped = s.escaped /\ Flag(s, name).context = s.context
           /\ Flag(s, name).acts = s.acts /\ Flag(s, name).levels = s.levels
           /\ Flag(s, name).astray = s.astray /\ Flag(s, name).legible = s.legible
           /\ Flag(s, name).found.operators = IF name = "operators" THEN TRUE ELSE s.found.operators
           /\ Flag(s, name).found.redirects = IF name = "redirects" THEN TRUE ELSE s.found.redirects
           /\ Flag(s, name).found.expansion = IF name = "expansion" THEN TRUE ELSE s.found.expansion
           /\ Flag(s, name).found.rejected = IF name = "rejected" THEN TRUE ELSE s.found.rejected
<1> DEFINE f == [s.found EXCEPT ![name] = TRUE]
<1>1. /\ f \in Flags
      /\ f.operators = IF name = "operators" THEN TRUE ELSE s.found.operators
      /\ f.redirects = IF name = "redirects" THEN TRUE ELSE s.found.redirects
      /\ f.expansion = IF name = "expansion" THEN TRUE ELSE s.found.expansion
      /\ f.rejected = IF name = "rejected" THEN TRUE ELSE s.found.rejected
  BY DEF ShellType, Flags
<1>2. Flag(s, name) = [s EXCEPT !.found = f]
  BY DEF Flag
<1> HIDE DEF f
<1> QED BY <1>1, <1>2 DEF ShellType

\* in the shell,
LEMMA ActRaised ==
    ASSUME NEW s \in ShellType, NEW name \in {"operators", "redirects", "expansion", "rejected"}
    PROVE  /\ Acts(s, name) \in ShellType
           /\ Acts(s, name).platform = s.platform /\ Acts(s, name).quote = s.quote
           /\ Acts(s, name).escaped = s.escaped /\ Acts(s, name).context = s.context
           /\ Acts(s, name).found = s.found /\ Acts(s, name).levels = s.levels
           /\ Acts(s, name).astray = s.astray /\ Acts(s, name).legible = s.legible
           /\ Acts(s, name).acts.operators = IF name = "operators" THEN TRUE ELSE s.acts.operators
           /\ Acts(s, name).acts.redirects = IF name = "redirects" THEN TRUE ELSE s.acts.redirects
           /\ Acts(s, name).acts.expansion = IF name = "expansion" THEN TRUE ELSE s.acts.expansion
           /\ Acts(s, name).acts.rejected = IF name = "rejected" THEN TRUE ELSE s.acts.rejected
<1> DEFINE f == [s.acts EXCEPT ![name] = TRUE]
<1>1. /\ f \in Flags
      /\ f.operators = IF name = "operators" THEN TRUE ELSE s.acts.operators
      /\ f.redirects = IF name = "redirects" THEN TRUE ELSE s.acts.redirects
      /\ f.expansion = IF name = "expansion" THEN TRUE ELSE s.acts.expansion
      /\ f.rejected = IF name = "rejected" THEN TRUE ELSE s.acts.rejected
  BY DEF ShellType, Flags
<1>2. Acts(s, name) = [s EXCEPT !.acts = f]
  BY DEF Acts
<1> HIDE DEF f
<1> QED BY <1>1, <1>2 DEF ShellType

\* and a change of its context.
LEMMA ContextChanged ==
    ASSUME NEW s \in ShellType, NEW k \in Contexts
    PROVE  /\ In(s, k) \in ShellType
           /\ In(s, k).platform = s.platform /\ In(s, k).quote = s.quote /\ In(s, k).escaped = s.escaped
           /\ In(s, k).found = s.found /\ In(s, k).context = k /\ In(s, k).acts = s.acts
           /\ In(s, k).levels = s.levels /\ In(s, k).astray = s.astray /\ In(s, k).legible = s.legible
BY DEF In, ShellType

\* A quoting of its own begins.
LEMMA WentAstray ==
    ASSUME NEW s \in ShellType, NEW how \in {"flagged", "text"}
    PROVE  /\ Astray(s, how) \in ShellType
           /\ Astray(s, how).platform = s.platform /\ Astray(s, how).quote = s.quote
           /\ Astray(s, how).escaped = s.escaped /\ Astray(s, how).context = s.context
           /\ Astray(s, how).found = s.found /\ Astray(s, how).acts = s.acts
           /\ Astray(s, how).levels = s.levels /\ Astray(s, how).legible = s.legible
           /\ Astray(s, how).astray = IF s.astray = "no" THEN how ELSE s.astray
BY DEF Astray, ShellType

\* The POSIX scanner: what it does to the quoting and to the flags.
PosixScans(s, c, t) ==
    LET plain == s.quote = "" /\ ~s.escaped IN
    /\ t \in ShellType
    /\ t.platform = s.platform /\ t.context = s.context /\ t.acts = s.acts /\ t.levels = s.levels
    /\ t.astray = s.astray /\ t.legible = s.legible
    /\ t.escaped <=> (~s.escaped /\ s.quote # "single" /\ c = "backslash")
    /\ t.quote = IF s.escaped THEN s.quote
                 ELSE IF s.quote = "" THEN IF c \in {"single", "double"} THEN c ELSE ""
                 ELSE IF c = s.quote THEN "" ELSE s.quote
    /\ t.found.rejected = s.found.rejected
    /\ t.found.operators <=> (\/ s.found.operators \/ (s.escaped /\ c = "newline")
                             \/ (plain /\ c \in {"newline", "operator", "redirect"}))
    /\ t.found.redirects <=> (s.found.redirects \/ (plain /\ c = "redirect"))
    /\ t.found.expansion <=> (\/ s.found.expansion \/ (plain /\ c \in {"dollar", "glob"})
                             \/ (~s.escaped /\ s.quote = "double" /\ c = "dollar"))

LEMMA PosixScanned ==
    ASSUME NEW s \in ShellType, NEW c \in PosixChars
    PROVE  PosixScans(s, c, ScanPosix(s, c))
<1> USE DEF PosixScans
<1> DEFINE t == ScanPosix(s, c)
           ops == Flag(s, "operators")
<1>0. /\ ops.platform = s.platform /\ ops.context = s.context /\ ops.acts = s.acts /\ ops.levels = s.levels /\ ops.astray = s.astray /\ ops.legible = s.legible
      /\ ops.quote = s.quote /\ ops.found.operators /\ ops.found.redirects = s.found.redirects
      /\ ops.found.expansion = s.found.expansion /\ ops.found.rejected = s.found.rejected
      /\ ops.escaped = s.escaped
  BY FlagRaised
<1>1. ops \in ShellType
  BY FlagRaised
<1>2. CASE s.escaped /\ c = "newline"
  <2>1. t = [ops EXCEPT !.escaped = FALSE]
    BY <1>2 DEF ScanPosix
  <2>2. /\ t \in ShellType /\ t.platform = ops.platform /\ t.context = ops.context /\ t.acts = ops.acts
        /\ t.levels = ops.levels /\ t.astray = ops.astray /\ t.legible = ops.legible /\ t.quote = ops.quote /\ t.found = ops.found /\ t.escaped = FALSE
    BY <1>1, <2>1 DEF ShellType
  <2> QED BY <1>2, <2>2, <1>0
<1>3. CASE s.escaped /\ c # "newline"
  <2>1. t = [s EXCEPT !.escaped = FALSE]
    BY <1>3 DEF ScanPosix
  <2> QED BY <1>1, <1>3, <2>1 DEF ShellType, Flags
<1>4. CASE ~s.escaped /\ s.quote = "single"
  <2>1. t = IF c = "single" THEN [s EXCEPT !.quote = ""] ELSE s
    BY <1>4 DEF ScanPosix
  <2> QED BY <1>4, <2>1, ZenonT(40) DEF ShellType, Flags
<1>5. CASE ~s.escaped /\ s.quote = "double"
  <2>1. CASE c = "double"
    BY <1>5, <2>1 DEF ScanPosix, ShellType, Flags
  <2>2. CASE c = "backslash"
    BY <1>5, <2>2 DEF ScanPosix, ShellType, Flags
  <2>3. CASE c = "dollar"
    <3>1. t = Flag(s, "expansion")
      BY <1>5, <2>3 DEF ScanPosix
    <3> DEFINE f == Flag(s, "expansion")
    <3>2. /\ f \in ShellType /\ f.platform = s.platform /\ f.context = s.context /\ f.acts = s.acts
          /\ f.levels = s.levels /\ f.astray = s.astray /\ f.legible = s.legible /\ f.quote = s.quote /\ f.escaped = s.escaped
          /\ f.found.rejected = s.found.rejected
          /\ f.found.operators = s.found.operators /\ f.found.redirects = s.found.redirects
          /\ f.found.expansion = TRUE
      BY FlagRaised
    <3> QED BY <1>5, <2>3, <3>1, <3>2
  <2>4. CASE c \notin {"double", "backslash", "dollar"}
    BY <1>5, <2>4 DEF ScanPosix, ShellType, Flags
  <2> QED BY <2>1, <2>2, <2>3, <2>4
<1>6. CASE ~s.escaped /\ s.quote = ""
  <2>1. CASE c \in {"single", "double"}
    BY <1>6, <2>1 DEF ScanPosix, ShellType, Flags
  <2>2. CASE c = "backslash"
    BY <1>6, <2>2 DEF ScanPosix, ShellType, Flags
  <2>3. CASE c \in {"newline", "operator"}
    <3>1. t = ops
      BY <1>6, <2>3 DEF ScanPosix
    <3> QED BY <1>6, <2>3, <3>1, <1>0, <1>1
  <2>4. CASE c = "redirect"
    <3>1. t = Flag(ops, "redirects")
      BY <1>6, <2>4 DEF ScanPosix
    <3> DEFINE f == Flag(ops, "redirects")
    <3>2. /\ f \in ShellType /\ f.platform = ops.platform /\ f.context = ops.context /\ f.acts = ops.acts
          /\ f.levels = ops.levels /\ f.astray = ops.astray /\ f.legible = ops.legible /\ f.quote = ops.quote /\ f.escaped = ops.escaped
          /\ f.found.rejected = ops.found.rejected
          /\ f.found.operators = ops.found.operators /\ f.found.redirects = TRUE
          /\ f.found.expansion = ops.found.expansion
      BY <1>1, FlagRaised
    <3> QED BY <1>0, <1>6, <2>4, <3>1, <3>2
  <2>5. CASE c \in {"dollar", "glob"}
    <3>1. t = Flag(s, "expansion")
      BY <1>6, <2>5 DEF ScanPosix
    <3> DEFINE f == Flag(s, "expansion")
    <3>2. /\ f \in ShellType /\ f.platform = s.platform /\ f.context = s.context /\ f.acts = s.acts
          /\ f.levels = s.levels /\ f.astray = s.astray /\ f.legible = s.legible /\ f.quote = s.quote /\ f.escaped = s.escaped
          /\ f.found.rejected = s.found.rejected
          /\ f.found.operators = s.found.operators /\ f.found.redirects = s.found.redirects
          /\ f.found.expansion = TRUE
      BY FlagRaised
    <3> QED BY <1>6, <2>5, <3>1, <3>2
  <2>6. CASE c \in {"word", "hash"}
    BY <1>6, <2>6 DEF ScanPosix, ShellType, Flags
  <2> QED BY <2>1, <2>2, <2>3, <2>4, <2>5, <2>6 DEF PosixChars
<1> QED BY <1>2, <1>3, <1>4, <1>5, <1>6 DEF ShellType

\* The POSIX shell: what the character does there.
PosixActs(s, c, r) ==
    /\ r \in ShellType
    /\ r.platform = s.platform /\ r.quote = s.quote /\ r.escaped = s.escaped
    /\ r.found = s.found /\ r.levels = s.levels /\ r.legible = s.legible
    /\ r.context = IF s.context = "single" THEN IF c = "single" THEN "plain" ELSE "single"
                   ELSE IF s.context = "escaped" THEN "plain"
                   ELSE IF s.context = "escapedInDouble" THEN "double"
                   ELSE IF s.context = "double"
                   THEN IF c = "double" THEN "plain"
                        ELSE IF c = "backslash" THEN "escapedInDouble" ELSE "double"
                   ELSE IF c \in {"single", "double"} THEN c
                   ELSE IF c = "backslash" THEN "escaped" ELSE "plain"
    /\ r.astray = IF s.astray # "no" THEN s.astray
                  ELSE IF \/ s.context = "plain" /\ c \in {"redirect", "dollar"}
                          \/ s.context = "double" /\ c = "dollar" THEN "flagged"
                  ELSE IF s.context = "plain" /\ c = "hash" THEN "text" ELSE "no"
    /\ r.acts.rejected = s.acts.rejected
    /\ r.acts.operators <=> (\/ s.acts.operators
                             \/ (s.context = "plain" /\ c \in {"newline", "operator"}))
    /\ r.acts.redirects <=> (s.acts.redirects \/ (s.context = "plain" /\ c = "redirect"))
    /\ r.acts.expansion <=> (\/ s.acts.expansion \/ (s.context = "plain" /\ c \in {"dollar", "glob"})
                             \/ (s.context = "double" /\ c = "dollar"))

LEMMA PosixActed ==
    ASSUME NEW s \in ShellType, NEW c \in PosixChars
    PROVE  PosixActs(s, c, PosixShell(s, c))
<1> USE DEF PosixActs
<1> DEFINE r == PosixShell(s, c)
<1>1. ASSUME NEW k \in Contexts, r = In(s, k)
      PROVE  /\ r \in ShellType /\ r.platform = s.platform /\ r.quote = s.quote
             /\ r.escaped = s.escaped /\ r.found = s.found /\ r.levels = s.levels /\ r.astray = s.astray /\ r.legible = s.legible
             /\ r.context = k /\ r.acts = s.acts
  BY <1>1, ContextChanged
<1>5. ASSUME NEW name \in {"redirects", "expansion"}, r = Astray(Acts(s, name), "flagged")
      PROVE  /\ r \in ShellType /\ r.platform = s.platform /\ r.quote = s.quote
             /\ r.escaped = s.escaped /\ r.found = s.found /\ r.levels = s.levels
             /\ r.context = s.context /\ r.legible = s.legible
             /\ r.astray = IF s.astray # "no" THEN s.astray ELSE "flagged"
             /\ r.acts.operators = s.acts.operators /\ r.acts.rejected = s.acts.rejected
             /\ r.acts.redirects = IF name = "redirects" THEN TRUE ELSE s.acts.redirects
             /\ r.acts.expansion = IF name = "expansion" THEN TRUE ELSE s.acts.expansion
  <2> DEFINE a == Acts(s, name)
  <2>1. /\ a \in ShellType /\ a.platform = s.platform /\ a.quote = s.quote
        /\ a.escaped = s.escaped /\ a.found = s.found /\ a.levels = s.levels
        /\ a.context = s.context /\ a.legible = s.legible /\ a.astray = s.astray
        /\ a.acts.operators = s.acts.operators /\ a.acts.rejected = s.acts.rejected
        /\ a.acts.redirects = IF name = "redirects" THEN TRUE ELSE s.acts.redirects
        /\ a.acts.expansion = IF name = "expansion" THEN TRUE ELSE s.acts.expansion
    <3>1. name \in {"operators", "redirects", "expansion", "rejected"} /\ name # "operators" /\ name # "rejected"
      BY <1>5
    <3> QED BY <3>1, ActRaised
  <2> HIDE DEF a
  <2>2. r = Astray(a, "flagged")
    BY <1>5 DEF a
  <2>3. /\ Astray(a, "flagged") \in ShellType
        /\ Astray(a, "flagged").platform = a.platform /\ Astray(a, "flagged").quote = a.quote
        /\ Astray(a, "flagged").escaped = a.escaped /\ Astray(a, "flagged").context = a.context
        /\ Astray(a, "flagged").found = a.found /\ Astray(a, "flagged").acts = a.acts
        /\ Astray(a, "flagged").levels = a.levels /\ Astray(a, "flagged").legible = a.legible
        /\ Astray(a, "flagged").astray = IF a.astray = "no" THEN "flagged" ELSE a.astray
    BY <2>1, WentAstray
  <2> QED BY <2>1, <2>2, <2>3
<1>2. CASE s.context \in {"single", "escaped", "escapedInDouble"}
  <2>1. CASE s.context = "single" /\ c # "single"
    BY <2>1 DEF PosixShell
  <2>2. CASE ~(s.context = "single" /\ c # "single")
    <3> DEFINE k == IF s.context = "escapedInDouble" THEN "double" ELSE "plain"
    <3>1. k \in Contexts /\ r = In(s, k)
      BY <1>2, <2>2 DEF PosixShell, Contexts
    <3>2. /\ r \in ShellType /\ r.platform = s.platform /\ r.quote = s.quote
          /\ r.escaped = s.escaped /\ r.found = s.found /\ r.levels = s.levels /\ r.astray = s.astray /\ r.legible = s.legible
          /\ r.context = k /\ r.acts = s.acts
      BY <1>1, <3>1
    <3> QED BY <1>2, <2>2, <3>2
  <2> QED BY <2>1, <2>2
<1>3. CASE s.context = "double"
  <2>1. CASE c \in {"double", "backslash"}
    <3> DEFINE k == IF c = "double" THEN "plain" ELSE "escapedInDouble"
    <3>1. k \in Contexts /\ r = In(s, k)
      BY <1>3, <2>1 DEF PosixShell, Contexts
    <3>2. /\ r \in ShellType /\ r.platform = s.platform /\ r.quote = s.quote
          /\ r.escaped = s.escaped /\ r.found = s.found /\ r.levels = s.levels /\ r.astray = s.astray /\ r.legible = s.legible
          /\ r.context = k /\ r.acts = s.acts
      BY <1>1, <3>1
    <3> QED BY <1>3, <2>1, <3>2
  <2>2. CASE c = "dollar"
    <3>1. r = Astray(Acts(s, "expansion"), "flagged")
      BY <1>3, <2>2 DEF PosixShell
    <3> QED BY <1>3, <1>5, <2>2, <3>1
  <2>3. CASE c \notin {"double", "backslash", "dollar"}
    BY <1>3, <2>3 DEF PosixShell
  <2> QED BY <2>1, <2>2, <2>3
<1>4. CASE s.context = "plain"
  <2>1. CASE c \in {"single", "double", "backslash"}
    <3> DEFINE k == IF c = "backslash" THEN "escaped" ELSE c
    <3>1. k \in Contexts /\ r = In(s, k)
      BY <1>4, <2>1 DEF PosixShell, Contexts
    <3>2. /\ r \in ShellType /\ r.platform = s.platform /\ r.quote = s.quote
          /\ r.escaped = s.escaped /\ r.found = s.found /\ r.levels = s.levels /\ r.astray = s.astray /\ r.legible = s.legible
          /\ r.context = k /\ r.acts = s.acts
      BY <1>1, <3>1
    <3> QED BY <1>4, <2>1, <3>2
  <2>2. CASE c \in {"newline", "operator"}
    <3>1. r = Acts(s, "operators")
      BY <1>4, <2>2 DEF PosixShell
    <3>2. /\ Acts(s, "operators") \in ShellType /\ Acts(s, "operators").platform = s.platform
          /\ Acts(s, "operators").quote = s.quote /\ Acts(s, "operators").escaped = s.escaped
          /\ Acts(s, "operators").context = s.context /\ Acts(s, "operators").levels = s.levels
          /\ Acts(s, "operators").astray = s.astray /\ Acts(s, "operators").legible = s.legible
          /\ Acts(s, "operators").found = s.found
          /\ Acts(s, "operators").acts.operators = TRUE
          /\ Acts(s, "operators").acts.redirects = s.acts.redirects
          /\ Acts(s, "operators").acts.expansion = s.acts.expansion
          /\ Acts(s, "operators").acts.rejected = s.acts.rejected
      BY ActRaised
    <3> QED BY <1>4, <2>2, <3>1, <3>2
  <2>3. CASE c \in {"redirect", "dollar"}
    <3> DEFINE name == IF c = "redirect" THEN "redirects" ELSE "expansion"
    <3>1. name \in {"redirects", "expansion"} /\ r = Astray(Acts(s, name), "flagged")
      BY <1>4, <2>3 DEF PosixShell
    <3>2. (name = "redirects") = (c = "redirect") /\ (name = "expansion") = (c = "dollar")
      BY <2>3
    <3> HIDE DEF name, r
    <3>3. /\ r \in ShellType /\ r.platform = s.platform /\ r.quote = s.quote
          /\ r.escaped = s.escaped /\ r.found = s.found /\ r.levels = s.levels
          /\ r.context = s.context /\ r.legible = s.legible
          /\ r.astray = IF s.astray # "no" THEN s.astray ELSE "flagged"
          /\ r.acts.operators = s.acts.operators /\ r.acts.rejected = s.acts.rejected
          /\ r.acts.redirects = IF name = "redirects" THEN TRUE ELSE s.acts.redirects
          /\ r.acts.expansion = IF name = "expansion" THEN TRUE ELSE s.acts.expansion
      BY <1>5, <3>1
    <3> QED BY <1>4, <2>3, <3>2, <3>3 DEF r
  <2>4. CASE c = "glob"
    <3>1. r = Acts(s, "expansion")
      BY <1>4, <2>4 DEF PosixShell
    <3>2. /\ Acts(s, "expansion") \in ShellType /\ Acts(s, "expansion").platform = s.platform
          /\ Acts(s, "expansion").quote = s.quote /\ Acts(s, "expansion").escaped = s.escaped
          /\ Acts(s, "expansion").context = s.context /\ Acts(s, "expansion").levels = s.levels
          /\ Acts(s, "expansion").astray = s.astray /\ Acts(s, "expansion").legible = s.legible
          /\ Acts(s, "expansion").found = s.found
          /\ Acts(s, "expansion").acts.operators = s.acts.operators
          /\ Acts(s, "expansion").acts.redirects = s.acts.redirects
          /\ Acts(s, "expansion").acts.expansion = TRUE
          /\ Acts(s, "expansion").acts.rejected = s.acts.rejected
      BY ActRaised
    <3> QED BY <1>4, <2>4, <3>1, <3>2
  <2>6. CASE c = "hash"
    <3>1. r = Astray(s, "text")
      BY <1>4, <2>6 DEF PosixShell
    <3>2. /\ Astray(s, "text") \in ShellType
          /\ Astray(s, "text").platform = s.platform /\ Astray(s, "text").quote = s.quote
          /\ Astray(s, "text").escaped = s.escaped /\ Astray(s, "text").context = s.context
          /\ Astray(s, "text").found = s.found /\ Astray(s, "text").acts = s.acts
          /\ Astray(s, "text").levels = s.levels /\ Astray(s, "text").legible = s.legible
          /\ Astray(s, "text").astray = IF s.astray = "no" THEN "text" ELSE s.astray
      BY WentAstray
    <3> QED BY <1>4, <2>6, <3>1, <3>2
  <2>5. CASE c = "word"
    BY <1>4, <2>5 DEF PosixShell
  <2> QED BY <2>1, <2>2, <2>3, <2>4, <2>5, <2>6 DEF PosixChars
<1> QED BY <1>2, <1>3, <1>4 DEF ShellType, Contexts

\* PowerShell: what the character does there.
PowershellActs(s, c, r) ==
    /\ r \in ShellType
    /\ r.platform = s.platform /\ r.quote = s.quote /\ r.escaped = s.escaped
    /\ r.found = s.found /\ r.levels = s.levels /\ r.legible = s.legible
    /\ r.context = IF s.context = "single" THEN IF c = "single" THEN "plain" ELSE "single"
                   ELSE IF s.context = "escaped" THEN "plain"
                   ELSE IF s.context = "escapedInDouble" THEN "double"
                   ELSE IF s.context = "double"
                   THEN IF c = "double" THEN "plain"
                        ELSE IF c = "backtick" THEN "escapedInDouble" ELSE "double"
                   ELSE IF c \in {"single", "double"} THEN c
                   ELSE IF c = "backtick" THEN "escaped" ELSE "plain"
    /\ r.astray = IF s.astray # "no" THEN s.astray
                  ELSE IF s.context = "plain" /\ c = "herestring" THEN "text" ELSE "no"
    /\ r.acts.rejected = s.acts.rejected
    /\ r.acts.operators <=> (\/ s.acts.operators
                             \/ (s.context = "plain" /\ c \in {"newline", "operator"}))
    /\ r.acts.redirects <=> (s.acts.redirects \/ (s.context = "plain" /\ c = "redirect"))
    /\ r.acts.expansion <=> (\/ s.acts.expansion \/ (s.context = "plain" /\ c \in {"dollar", "script"})
                             \/ (s.context = "double" /\ c = "dollar"))

LEMMA PowershellActed ==
    ASSUME NEW s \in ShellType, NEW c \in WindowsChars
    PROVE  PowershellActs(s, c, Powershell(s, c))
<1> USE DEF PowershellActs
<1> DEFINE r == Powershell(s, c)
<1>1. ASSUME NEW k \in Contexts, r = In(s, k)
      PROVE  /\ r \in ShellType /\ r.platform = s.platform /\ r.quote = s.quote
             /\ r.escaped = s.escaped /\ r.found = s.found /\ r.levels = s.levels /\ r.astray = s.astray /\ r.legible = s.legible
             /\ r.context = k /\ r.acts = s.acts
  BY <1>1, ContextChanged
<1>2. CASE s.context \in {"single", "escaped", "escapedInDouble"}
  <2>1. CASE s.context = "single" /\ c # "single"
    BY <2>1 DEF Powershell
  <2>2. CASE ~(s.context = "single" /\ c # "single")
    <3> DEFINE k == IF s.context = "escapedInDouble" THEN "double" ELSE "plain"
    <3>1. k \in Contexts /\ r = In(s, k)
      BY <1>2, <2>2 DEF Powershell, Contexts
    <3>2. /\ r \in ShellType /\ r.platform = s.platform /\ r.quote = s.quote
          /\ r.escaped = s.escaped /\ r.found = s.found /\ r.levels = s.levels /\ r.astray = s.astray /\ r.legible = s.legible
          /\ r.context = k /\ r.acts = s.acts
      BY <1>1, <3>1
    <3> QED BY <1>2, <2>2, <3>2
  <2> QED BY <2>1, <2>2
<1>3. CASE s.context = "double"
  <2>1. CASE c \in {"double", "backtick"}
    <3> DEFINE k == IF c = "double" THEN "plain" ELSE "escapedInDouble"
    <3>1. k \in Contexts /\ r = In(s, k)
      BY <1>3, <2>1 DEF Powershell, Contexts
    <3>2. /\ r \in ShellType /\ r.platform = s.platform /\ r.quote = s.quote
          /\ r.escaped = s.escaped /\ r.found = s.found /\ r.levels = s.levels /\ r.astray = s.astray /\ r.legible = s.legible
          /\ r.context = k /\ r.acts = s.acts
      BY <1>1, <3>1
    <3> QED BY <1>3, <2>1, <3>2
  <2>2. CASE c = "dollar"
    <3>1. r = Acts(s, "expansion")
      BY <1>3, <2>2 DEF Powershell
    <3>2. /\ Acts(s, "expansion") \in ShellType /\ Acts(s, "expansion").platform = s.platform
          /\ Acts(s, "expansion").quote = s.quote /\ Acts(s, "expansion").escaped = s.escaped
          /\ Acts(s, "expansion").context = s.context /\ Acts(s, "expansion").levels = s.levels
          /\ Acts(s, "expansion").astray = s.astray /\ Acts(s, "expansion").legible = s.legible
          /\ Acts(s, "expansion").found = s.found
          /\ Acts(s, "expansion").acts.operators = s.acts.operators
          /\ Acts(s, "expansion").acts.redirects = s.acts.redirects
          /\ Acts(s, "expansion").acts.expansion = TRUE
          /\ Acts(s, "expansion").acts.rejected = s.acts.rejected
      BY ActRaised
    <3> QED BY <1>3, <2>2, <3>1, <3>2
  <2>3. CASE c \notin {"double", "backtick", "dollar"}
    BY <1>3, <2>3 DEF Powershell
  <2> QED BY <2>1, <2>2, <2>3
<1>4. CASE s.context = "plain"
  <2>1. CASE c \in {"single", "double", "backtick"}
    <3> DEFINE k == IF c = "backtick" THEN "escaped" ELSE c
    <3>1. k \in Contexts /\ r = In(s, k)
      BY <1>4, <2>1 DEF Powershell, Contexts
    <3>2. /\ r \in ShellType /\ r.platform = s.platform /\ r.quote = s.quote
          /\ r.escaped = s.escaped /\ r.found = s.found /\ r.levels = s.levels /\ r.astray = s.astray /\ r.legible = s.legible
          /\ r.context = k /\ r.acts = s.acts
      BY <1>1, <3>1
    <3> QED BY <1>4, <2>1, <3>2
  <2>2. CASE c \in {"newline", "operator"}
    <3>1. r = Acts(s, "operators")
      BY <1>4, <2>2 DEF Powershell
    <3>2. /\ Acts(s, "operators") \in ShellType /\ Acts(s, "operators").platform = s.platform
          /\ Acts(s, "operators").quote = s.quote /\ Acts(s, "operators").escaped = s.escaped
          /\ Acts(s, "operators").context = s.context /\ Acts(s, "operators").levels = s.levels
          /\ Acts(s, "operators").astray = s.astray /\ Acts(s, "operators").legible = s.legible
          /\ Acts(s, "operators").found = s.found
          /\ Acts(s, "operators").acts.operators = TRUE
          /\ Acts(s, "operators").acts.redirects = s.acts.redirects
          /\ Acts(s, "operators").acts.expansion = s.acts.expansion
          /\ Acts(s, "operators").acts.rejected = s.acts.rejected
      BY ActRaised
    <3> QED BY <1>4, <2>2, <3>1, <3>2
  <2>3. CASE c = "redirect"
    <3>1. r = Acts(s, "redirects")
      BY <1>4, <2>3 DEF Powershell
    <3>2. /\ Acts(s, "redirects") \in ShellType /\ Acts(s, "redirects").platform = s.platform
          /\ Acts(s, "redirects").quote = s.quote /\ Acts(s, "redirects").escaped = s.escaped
          /\ Acts(s, "redirects").context = s.context /\ Acts(s, "redirects").levels = s.levels
          /\ Acts(s, "redirects").astray = s.astray /\ Acts(s, "redirects").legible = s.legible
          /\ Acts(s, "redirects").found = s.found
          /\ Acts(s, "redirects").acts.operators = s.acts.operators
          /\ Acts(s, "redirects").acts.redirects = TRUE
          /\ Acts(s, "redirects").acts.expansion = s.acts.expansion
          /\ Acts(s, "redirects").acts.rejected = s.acts.rejected
      BY ActRaised
    <3> QED BY <1>4, <2>3, <3>1, <3>2
  <2>4. CASE c \in {"dollar", "script"}
    <3>1. r = Acts(s, "expansion")
      BY <1>4, <2>4 DEF Powershell
    <3>2. /\ Acts(s, "expansion") \in ShellType /\ Acts(s, "expansion").platform = s.platform
          /\ Acts(s, "expansion").quote = s.quote /\ Acts(s, "expansion").escaped = s.escaped
          /\ Acts(s, "expansion").context = s.context /\ Acts(s, "expansion").levels = s.levels
          /\ Acts(s, "expansion").astray = s.astray /\ Acts(s, "expansion").legible = s.legible
          /\ Acts(s, "expansion").found = s.found
          /\ Acts(s, "expansion").acts.operators = s.acts.operators
          /\ Acts(s, "expansion").acts.redirects = s.acts.redirects
          /\ Acts(s, "expansion").acts.expansion = TRUE
          /\ Acts(s, "expansion").acts.rejected = s.acts.rejected
      BY ActRaised
    <3> QED BY <1>4, <2>4, <3>1, <3>2
  <2>5. CASE c = "word"
    BY <1>4, <2>5 DEF Powershell
  <2>6. CASE c = "herestring"
    <3>1. r = Astray(s, "text")
      BY <1>4, <2>6 DEF Powershell
    <3>2. /\ Astray(s, "text") \in ShellType
          /\ Astray(s, "text").platform = s.platform /\ Astray(s, "text").quote = s.quote
          /\ Astray(s, "text").escaped = s.escaped /\ Astray(s, "text").context = s.context
          /\ Astray(s, "text").found = s.found /\ Astray(s, "text").acts = s.acts
          /\ Astray(s, "text").levels = s.levels /\ Astray(s, "text").legible = s.legible
          /\ Astray(s, "text").astray = IF s.astray = "no" THEN "text" ELSE s.astray
      BY WentAstray
    <3> QED BY <1>4, <2>6, <3>1, <3>2
  <2> QED BY <2>1, <2>2, <2>3, <2>4, <2>5, <2>6 DEF WindowsChars
<1> QED BY <1>2, <1>3, <1>4 DEF ShellType, Contexts

\* The PowerShell scanner: what it does to the quoting and to the flags.
PowershellScans(s, c, t) ==
    /\ t \in ShellType
    /\ t.platform = s.platform /\ t.context = s.context /\ t.acts = s.acts /\ t.levels = s.levels
    /\ t.astray = s.astray /\ t.legible = s.legible
    /\ t.escaped = s.escaped
    /\ t.quote = IF s.quote = "" THEN IF c \in {"single", "double"} THEN c ELSE ""
                 ELSE IF c = s.quote THEN "" ELSE s.quote
    /\ t.found.expansion = s.found.expansion
    /\ t.found.rejected <=> (\/ s.found.rejected
                             \/ (s.quote = "double" /\ c \in {"dollar", "backtick"})
                             \/ (s.quote = "" /\ c \in {"dollar", "backtick", "script"}))
    /\ t.found.operators <=> (\/ s.found.operators
                              \/ (s.quote = "" /\ c \in {"newline", "operator", "redirect"}))
    /\ t.found.redirects <=> (s.found.redirects \/ (s.quote = "" /\ c = "redirect"))

LEMMA PowershellScanned ==
    ASSUME NEW s \in ShellType, NEW c \in WindowsChars
    PROVE  PowershellScans(s, c, ScanPowershell(s, c))
<1> USE DEF PowershellScans
<1> DEFINE t == ScanPowershell(s, c)
<1>1. CASE s.quote = "single"
  BY <1>1 DEF ScanPowershell, ShellType
<1>2. CASE s.quote = "double"
  <2>1. CASE c = "double"
    BY <1>2, <2>1 DEF ScanPowershell, ShellType
  <2>2. CASE c \in {"dollar", "backtick"}
    <3>1. t = Flag(s, "rejected")
      BY <1>2, <2>2 DEF ScanPowershell
    <3>2. /\ Flag(s, "rejected") \in ShellType /\ Flag(s, "rejected").platform = s.platform
          /\ Flag(s, "rejected").quote = s.quote /\ Flag(s, "rejected").escaped = s.escaped
          /\ Flag(s, "rejected").context = s.context /\ Flag(s, "rejected").levels = s.levels
          /\ Flag(s, "rejected").astray = s.astray /\ Flag(s, "rejected").legible = s.legible
          /\ Flag(s, "rejected").acts = s.acts
          /\ Flag(s, "rejected").found.operators = s.found.operators
          /\ Flag(s, "rejected").found.redirects = s.found.redirects
          /\ Flag(s, "rejected").found.expansion = s.found.expansion
          /\ Flag(s, "rejected").found.rejected = TRUE
      BY FlagRaised
    <3> QED BY <1>2, <2>2, <3>1, <3>2
  <2>3. CASE c \notin {"double", "dollar", "backtick"}
    BY <1>2, <2>3 DEF ScanPowershell, ShellType
  <2> QED BY <2>1, <2>2, <2>3
<1>3. CASE s.quote = ""
  <2>1. CASE c \in {"single", "double"}
    BY <1>3, <2>1 DEF ScanPowershell, ShellType
  <2>2. CASE c \in {"dollar", "backtick", "script"}
    <3>1. t = Flag(s, "rejected")
      BY <1>3, <2>2 DEF ScanPowershell
    <3>2. /\ Flag(s, "rejected") \in ShellType /\ Flag(s, "rejected").platform = s.platform
          /\ Flag(s, "rejected").quote = s.quote /\ Flag(s, "rejected").escaped = s.escaped
          /\ Flag(s, "rejected").context = s.context /\ Flag(s, "rejected").levels = s.levels
          /\ Flag(s, "rejected").astray = s.astray /\ Flag(s, "rejected").legible = s.legible
          /\ Flag(s, "rejected").acts = s.acts
          /\ Flag(s, "rejected").found.operators = s.found.operators
          /\ Flag(s, "rejected").found.redirects = s.found.redirects
          /\ Flag(s, "rejected").found.expansion = s.found.expansion
          /\ Flag(s, "rejected").found.rejected = TRUE
      BY FlagRaised
    <3> QED BY <1>3, <2>2, <3>1, <3>2
  <2>3. CASE c \in {"newline", "operator"}
    <3>1. t = Flag(s, "operators")
      BY <1>3, <2>3 DEF ScanPowershell
    <3>2. /\ Flag(s, "operators") \in ShellType /\ Flag(s, "operators").platform = s.platform
          /\ Flag(s, "operators").quote = s.quote /\ Flag(s, "operators").escaped = s.escaped
          /\ Flag(s, "operators").context = s.context /\ Flag(s, "operators").levels = s.levels
          /\ Flag(s, "operators").astray = s.astray /\ Flag(s, "operators").legible = s.legible
          /\ Flag(s, "operators").acts = s.acts
          /\ Flag(s, "operators").found.operators = TRUE
          /\ Flag(s, "operators").found.redirects = s.found.redirects
          /\ Flag(s, "operators").found.expansion = s.found.expansion
          /\ Flag(s, "operators").found.rejected = s.found.rejected
      BY FlagRaised
    <3> QED BY <1>3, <2>3, <3>1, <3>2
  <2>4. CASE c = "redirect"
    <3> DEFINE o == Flag(s, "operators")
    <3>1. t = Flag(o, "redirects")
      BY <1>3, <2>4 DEF ScanPowershell
    <3>2. /\ o \in ShellType /\ o.platform = s.platform
          /\ o.quote = s.quote /\ o.escaped = s.escaped
          /\ o.context = s.context /\ o.levels = s.levels /\ o.astray = s.astray /\ o.legible = s.legible
          /\ o.acts = s.acts
          /\ o.found.operators = TRUE
          /\ o.found.redirects = s.found.redirects
          /\ o.found.expansion = s.found.expansion
          /\ o.found.rejected = s.found.rejected
      BY FlagRaised
    <3>3. /\ Flag(o, "redirects") \in ShellType /\ Flag(o, "redirects").platform = o.platform
          /\ Flag(o, "redirects").quote = o.quote /\ Flag(o, "redirects").escaped = o.escaped
          /\ Flag(o, "redirects").context = o.context /\ Flag(o, "redirects").levels = o.levels
          /\ Flag(o, "redirects").astray = o.astray /\ Flag(o, "redirects").legible = o.legible
          /\ Flag(o, "redirects").acts = o.acts
          /\ Flag(o, "redirects").found.operators = o.found.operators
          /\ Flag(o, "redirects").found.redirects = TRUE
          /\ Flag(o, "redirects").found.expansion = o.found.expansion
          /\ Flag(o, "redirects").found.rejected = o.found.rejected
      BY <3>2, FlagRaised
    <3> QED BY <1>3, <2>4, <3>1, <3>2, <3>3
  <2>5. CASE c \in {"word", "herestring"}
    BY <1>3, <2>5 DEF ScanPowershell, ShellType
  <2> QED BY <2>1, <2>2, <2>3, <2>4, <2>5 DEF WindowsChars
<1> QED BY <1>1, <1>2, <1>3 DEF ShellType

\* Scanner and shell read the same character of a command.
NextRead(s, c) == IF s.platform = "posix" THEN PosixShell(ScanPosix(s, c), c)
                  ELSE Powershell(ScanPowershell(s, c), c)

\* As long as they agree, the one flags what the other acts on.
ReadTogether(s, r) ==
    /\ r \in ShellType /\ r.levels = s.levels /\ r.platform = s.platform
    /\ r.legible = s.legible
    /\ s.astray # "no" => r.astray = s.astray
    /\ r.escaped => r.quote # "single" /\ r.platform = "posix"
    /\ ~r.acts.rejected
    /\ s.found.rejected => r.found.rejected
    /\ s.found.redirects => r.found.redirects
    /\ s.found.expansion => r.found.expansion
    /\ r.found.redirects => r.found.operators
    /\ r.found.rejected => r.platform = "windows"
    /\ r.found.expansion => r.platform = "posix"
    /\ s.found.rejected \/ (s.context = ScannerContext(s) =>
         /\ r.found.rejected \/ r.context = ScannerContext(r)
         /\ r.astray = "flagged" => s.astray = "flagged" \/ r.found.redirects \/ r.found.expansion)
    /\ s.context = ScannerContext(s) /\ s.legible >= 1 =>
         /\ r.acts.operators => r.found.operators \/ r.found.rejected
         /\ r.acts.redirects => r.found.redirects \/ r.found.rejected
         /\ r.acts.expansion => r.found.expansion \/ r.found.rejected

LEMMA CharRead ==
    ASSUME NEW s \in ShellType, FlagsSeen(s), QuotingAgrees(s),
           NEW c, c \in IF s.platform = "posix" THEN PosixChars ELSE WindowsChars
    PROVE  ReadTogether(s, NextRead(s, c))
<1> DEFINE r == NextRead(s, c)
<1>1. CASE s.platform = "posix"
  <2> DEFINE t == ScanPosix(s, c)
  <2>1. PosixScans(s, c, t)
    BY <1>1, PosixScanned
  <2>2. t \in ShellType
    BY <2>1 DEF PosixScans
  <2>3. PosixActs(t, c, r)
    BY <1>1, <2>2, PosixActed DEF NextRead
  <2> HIDE DEF t, r
  <2>4. /\ r \in ShellType /\ r.levels = s.levels /\ r.platform = s.platform
        /\ r.legible = s.legible /\ (s.astray # "no" => r.astray = s.astray)
    BY <2>1, <2>3 DEF PosixScans, PosixActs
  <2>5. /\ r.escaped => r.quote # "single" /\ r.platform = "posix"
        /\ ~r.acts.rejected
        /\ s.found.rejected => r.found.rejected
        /\ s.found.redirects => r.found.redirects
        /\ s.found.expansion => r.found.expansion
        /\ r.found.redirects => r.found.operators
        /\ r.found.rejected => r.platform = "windows"
        /\ r.found.expansion => r.platform = "posix"
    BY <1>1, <2>1, <2>3 DEF PosixScans, PosixActs, FlagsSeen, QuotingAgrees, ShellType, Flags
  <2>6. s.context = ScannerContext(s) => r.context = ScannerContext(r)
    BY <1>1, <2>1, <2>3, ZenonT(60)
    DEF PosixScans, PosixActs, QuotingAgrees, ScannerContext, ShellType, Flags
  <2>7. s.context = ScannerContext(s) =>
          (r.astray = "flagged" => s.astray = "flagged" \/ r.found.redirects \/ r.found.expansion)
    BY <1>1, <2>1, <2>3 DEF PosixScans, PosixActs, QuotingAgrees, ScannerContext, ShellType, Flags
  <2>8. s.context = ScannerContext(s) /\ s.legible >= 1 =>
         /\ r.acts.operators => r.found.operators \/ r.found.rejected
         /\ r.acts.redirects => r.found.redirects \/ r.found.rejected
         /\ r.acts.expansion => r.found.expansion \/ r.found.rejected
    BY <1>1, <2>1, <2>3
    DEF PosixScans, PosixActs, QuotingAgrees, FlagsSeen, ScannerContext, ShellType, Flags
  <2> QED BY <2>4, <2>5, <2>6, <2>7, <2>8 DEF ReadTogether, r
<1>2. CASE s.platform # "posix"
  <2> DEFINE t == ScanPowershell(s, c)
  <2>1. PowershellScans(s, c, t)
    BY <1>2, PowershellScanned
  <2>2. t \in ShellType
    BY <2>1 DEF PowershellScans
  <2>3. PowershellActs(t, c, r)
    BY <1>2, <2>2, PowershellActed DEF NextRead
  <2> HIDE DEF t, r
  <2>4. /\ r \in ShellType /\ r.levels = s.levels /\ r.platform = s.platform
        /\ r.legible = s.legible /\ (s.astray # "no" => r.astray = s.astray)
    BY <2>1, <2>3 DEF PowershellScans, PowershellActs
  <2>5. /\ r.escaped => r.quote # "single" /\ r.platform = "posix"
        /\ ~r.acts.rejected
        /\ s.found.rejected => r.found.rejected
        /\ s.found.redirects => r.found.redirects
        /\ s.found.expansion => r.found.expansion
        /\ r.found.redirects => r.found.operators
        /\ r.found.rejected => r.platform = "windows"
        /\ r.found.expansion => r.platform = "posix"
    BY <1>2, <2>1, <2>3 DEF PowershellScans, PowershellActs, FlagsSeen, QuotingAgrees, ShellType, Flags
  <2>6. s.context = ScannerContext(s) => r.found.rejected \/ r.context = ScannerContext(r)
    BY <1>2, <2>1, <2>3, ZenonT(60)
    DEF PowershellScans, PowershellActs, QuotingAgrees, ScannerContext, ShellType, Flags
  <2>7. r.astray = "flagged" => s.astray = "flagged"
    BY <2>1, <2>3 DEF PowershellScans, PowershellActs
  <2>8. s.context = ScannerContext(s) /\ s.legible >= 1 =>
         /\ r.acts.operators => r.found.operators \/ r.found.rejected
         /\ r.acts.redirects => r.found.redirects \/ r.found.rejected
         /\ r.acts.expansion => r.found.expansion \/ r.found.rejected
    BY <1>2, <2>1, <2>3
    DEF PowershellScans, PowershellActs, QuotingAgrees, FlagsSeen, ScannerContext, ShellType, Flags
  <2> QED BY <2>4, <2>5, <2>6, <2>7, <2>8 DEF ReadTogether, r
<1> QED BY <1>1, <1>2

\* The commands a command contains: all but the last contain another.
LEMMA NestKnown ==
    ASSUME NEW chain \in Nests
    PROVE  /\ chain \in Seq(Levels) /\ Len(chain) \in 1..MaxLevels
           /\ \A i \in 1..(Len(chain) - 1) : chain[i].head \in Containing(chain[i + 1].via)
<1> USE PolicyAssumption
<1>1. PICK n \in 1..MaxLevels : chain \in Chains(n)
  BY DEF Nests
<1>2. PICK via \in [1..n -> Vias], head \in [1..n -> CommandHeads],
           l \in UNION {LastLevels(v) : v \in Vias} :
        chain = [i \in 1..n |-> IF i < n THEN Outer(via[i], head[i]) ELSE l]
  BY <1>1 DEF Chains
<1>3. l \in Levels
  <2>1. PICK v \in Vias : l \in LastLevels(v)
    BY <1>2
  <2>2. CASE \E h \in {"reader", "git"}, operand \in Operands : l = Level(v, "plain", h, operand)
    BY <2>2 DEF Level, Levels, CommandHeads
  <2>3. CASE \E named \in {"plain", "sensitive", "envSplit"} : l = Level(v, named, "unknown", "inside")
    BY <2>3 DEF Level, Levels, CommandHeads, Operands
  <2>4. CASE l = Level(v, "plain", "wrapper", "inside")
    BY <2>4 DEF Level, Levels, CommandHeads, Operands
  <2> QED BY <2>1, <2>2, <2>3, <2>4 DEF LastLevels
<1>4. ASSUME NEW i \in 1..n, i < n
      PROVE  Outer(via[i], head[i]) \in Levels
  <2>1. via[i] \in Vias /\ head[i] \in CommandHeads
    OBVIOUS
  <2> QED BY <2>1 DEF Outer, Level, Levels, Operands
<1>5. \A i \in 1..n : chain[i] \in Levels
  BY <1>2, <1>3, <1>4
<1>6. chain \in [1..n -> Levels] /\ n \in Nat
  BY <1>2, <1>5
<1>7. chain \in Seq(Levels) /\ Len(chain) = n
  BY <1>6
<1>8. ASSUME NEW i \in 1..(Len(chain) - 1) PROVE chain[i].head \in Containing(chain[i + 1].via)
  <2>1. i + 1 \in 2..Len(chain) /\ (i + 1) - 1 = i
    BY <1>6, <1>7
  <2>2. \A j \in 2..Len(chain) : chain[j - 1].head \in Containing(chain[j].via)
    BY DEF Nests
  <2> DEFINE j == i + 1
  <2>3. chain[j - 1].head \in Containing(chain[j].via)
    BY <2>1, <2>2
  <2> QED BY <2>1, <2>3
<1> QED BY <1>6, <1>7, <1>8

\* Reading a character.
LEMMA PolicyReads == ASSUME PolicyInv, NEW c \in Chars, ReadChar(c) PROVE PolicyInv'
<1> DEFINE next == NextRead(shell, c)
           legible == IF shell.context = ScannerContext(shell) THEN shell.legible ELSE 0
<1>1. /\ shell \in ShellType /\ FlagsSeen(shell) /\ QuotingAgrees(shell) /\ shell.levels = << >>
      /\ verdict.phase = "read" /\ verdict' = verdict
  BY DEF PolicyInv, ReadChar
<1>2. PICK context \in IF next.astray = "no" THEN {next.context} ELSE Contexts :
        shell' = [next EXCEPT !.context = context, !.legible = legible]
  BY DEF ReadChar, NextRead
<1>3. ReadTogether(shell, next)
  BY <1>1, CharRead DEF Chars
<1> HIDE DEF next
<1>4. legible \in {0, 1} /\ next \in ShellType
  BY <1>1, <1>3 DEF QuotingAgrees, ReadTogether
<1>5. context \in Contexts /\ (next.astray = "no" => context = next.context)
  BY <1>2, <1>4 DEF ShellType
<1>6. /\ legible = 1 => shell.legible = 1 /\ shell.context = ScannerContext(shell)
      /\ legible = 0 => shell.legible = 0 \/ shell.context # ScannerContext(shell)
  BY <1>1 DEF QuotingAgrees
<1> HIDE DEF legible
<1>7. /\ shell' \in ShellType /\ shell'.platform = next.platform /\ shell'.quote = next.quote
      /\ shell'.escaped = next.escaped /\ shell'.found = next.found /\ shell'.context = context
      /\ shell'.acts = next.acts /\ shell'.astray = next.astray /\ shell'.legible = legible
      /\ shell'.levels = next.levels
  <2>1. legible \in Nat
    BY <1>4
  <2>2. [next EXCEPT !.context = context] \in ShellType
    BY <1>4, <1>5 DEF ShellType
  <2>3. shell' = [[next EXCEPT !.context = context] EXCEPT !.legible = legible]
    BY <1>2
  <2>4. shell' \in ShellType
    BY <2>1, <2>2, <2>3 DEF ShellType
  <2> QED BY <1>4, <2>3, <2>4 DEF ShellType
<1>8. QuotingAgrees(shell')
  <2>1. next.astray # "no" \/ next.found.rejected \/ next.context = ScannerContext(next)
    BY <1>1, <1>3 DEF QuotingAgrees, ReadTogether
  <2>2. ScannerContext(shell') = ScannerContext(next)
    BY <1>7 DEF ScannerContext
  <2> QED BY <1>3, <1>4, <1>5, <1>7, <2>1, <2>2 DEF QuotingAgrees, ReadTogether
<1>9. FlagsSeen(shell')
  <2>1. next.astray = "flagged" => next.found.redirects \/ next.found.expansion \/ next.found.rejected
    BY <1>1, <1>3 DEF QuotingAgrees, ReadTogether, FlagsSeen
  <2>2. legible = 0 => next.astray # "no" \/ next.found.rejected
    BY <1>1, <1>3, <1>6 DEF QuotingAgrees, ReadTogether, FlagsSeen
  <2>3. legible >= 1 =>
         /\ next.acts.operators => next.found.operators \/ next.found.rejected
         /\ next.acts.redirects => next.found.redirects \/ next.found.rejected
         /\ next.acts.expansion => next.found.expansion \/ next.found.rejected
    BY <1>3, <1>4, <1>6 DEF ReadTogether
  <2>4. /\ ~next.acts.rejected
        /\ next.found.redirects => next.found.operators
        /\ next.found.rejected => next.platform = "windows"
        /\ next.found.expansion => next.platform = "posix"
    BY <1>3 DEF ReadTogether
  <2> QED BY <1>7, <2>1, <2>2, <2>3, <2>4, Zenon DEF FlagsSeen
<1>10. shell'.levels = << >>
  BY <1>1, <1>3, <1>7 DEF ReadTogether
<1> QED BY <1>1, <1>7, <1>8, <1>9, <1>10 DEF PolicyInv, OnlyReadersUnasked

\* The end of the command.
LEMMA PolicyEnds == PolicyInv /\ End => PolicyInv'
<1> SUFFICES ASSUME PolicyInv, End PROVE PolicyInv'
  OBVIOUS
<1>1. PICK levels \in Nests, redirect \in Redirects(shell) :
      \E legible \in shell.legible..(shell.legible * Len(levels)) :
         /\ Embeds(shell, levels)
         /\ shell' = [shell EXCEPT !.levels = levels, !.context = "plain", !.escaped = FALSE,
                                   !.quote = IF ParseError(shell) THEN "double" ELSE "",
                                   !.legible = legible, !.redirect = redirect]
  BY DEF End
<1> PICK legible \in shell.legible..(shell.legible * Len(levels)) :
         /\ Embeds(shell, levels)
         /\ shell' = [shell EXCEPT !.levels = levels, !.context = "plain", !.escaped = FALSE,
                                   !.quote = IF ParseError(shell) THEN "double" ELSE "",
                                   !.legible = legible, !.redirect = redirect]
  BY <1>1
<1>2. /\ verdict.phase = "read" /\ verdict.examined = 0 /\ verdict.decision = "none"
      /\ verdict \in VerdictType /\ shell \in ShellType /\ FlagsSeen(shell) /\ QuotingAgrees(shell)
      /\ verdict' = [verdict EXCEPT !.phase = "words"]
  BY DEF PolicyInv, End
<1>3. /\ verdict' \in VerdictType /\ verdict'.phase = "words" /\ verdict'.examined = 0
      /\ verdict'.decision = "none"
  BY <1>2 DEF VerdictType, PolicyPhases
<1> DEFINE quote == IF ParseError(shell) THEN "double" ELSE ""
<1>4. quote \in {"", "double"} /\ redirect \in {"none", "elsewhere", "sensitive"}
  BY DEF Redirects
<1>5. levels \in Seq(Levels) /\ Len(levels) \in Nat \ {0}
  BY NestKnown, PolicyAssumption
<1>6. legible \in Nat /\ (legible = 0 <=> shell.legible = 0)
  <2> DEFINE n == Len(levels)
  <2>1. n \in Nat \ {0} /\ legible \in shell.legible..(shell.legible * n) /\ shell.legible \in {0, 1}
    BY <1>2, <1>5 DEF QuotingAgrees
  <2> HIDE DEF n
  <2>2. CASE shell.legible = 0
    BY <2>1, <2>2
  <2>3. CASE shell.legible = 1
    BY <2>1, <2>3
  <2> QED BY <2>1, <2>2, <2>3
<1> HIDE DEF quote
<1>7. shell' = [shell EXCEPT !.levels = levels, !.context = "plain", !.escaped = FALSE,
                             !.quote = quote, !.legible = legible, !.redirect = redirect]
  BY <1>1 DEF quote
<1>8. /\ shell' \in ShellType /\ shell'.levels = levels /\ shell'.platform = shell.platform
      /\ shell'.found = shell.found /\ shell'.acts = shell.acts /\ shell'.astray = shell.astray
      /\ shell'.legible = legible
  BY <1>2, <1>4, <1>5, <1>6, <1>7 DEF ShellType, Contexts
<1>9. FlagsSeen(shell') /\ LevelsKnown(shell')
  <2>1. legible >= 1 => shell.legible >= 1
    BY <1>2, <1>6 DEF QuotingAgrees
  <2>2. FlagsSeen(shell')
    BY <1>2, <1>6, <1>8, <2>1 DEF FlagsSeen
  <2>3. Embeds(shell', levels)
    BY <1>1, <1>8 DEF Embeds
  <2> QED BY <1>8, <2>2, <2>3, NestKnown DEF LevelsKnown
<1>10. verdict'.examined < Len(shell'.levels) /\ LookedInto(0)'
  BY <1>3, <1>5, <1>8 DEF LookedInto
<1> QED BY <1>3, <1>8, <1>9, <1>10 DEF PolicyInv, OnlyReadersUnasked

\* One of the commands is looked into.
LEMMA PolicyExamines == PolicyInv /\ Examine => PolicyInv'
<1> SUFFICES ASSUME PolicyInv, Examine PROVE PolicyInv'
  OBVIOUS
<1> DEFINE i == verdict.examined + 1
           n == Len(shell.levels)
           next == IF Deeper(shell, i) THEN "words" ELSE "assess"
<1>1. /\ verdict.phase = "words" /\ shell' = shell /\ verdict.decision = "none"
      /\ verdict \in VerdictType /\ shell \in ShellType /\ FlagsSeen(shell) /\ LevelsKnown(shell)
      /\ verdict.examined < n /\ LookedInto(verdict.examined)
      /\ verdict.examined > 0 => Deeper(shell, verdict.examined)
  BY DEF PolicyInv, Examine
<1>2. n \in Nat /\ verdict.examined \in Nat
  BY <1>1, PolicyAssumption DEF LevelsKnown, VerdictType
<1>3. /\ i \in 1..n /\ i \in Nat /\ verdict.examined = i - 1
      /\ \A j \in 1..i : j = i \/ j \in 1..verdict.examined
      /\ \A j \in 1..i : j < i => j \in 1..verdict.examined /\ (j = verdict.examined \/ j < verdict.examined)
  BY <1>1, <1>2
<1>4. shell.levels[i] \in Levels
  <2>1. shell.levels \in Seq(Levels)
    BY <1>1 DEF ShellType
  <2> QED BY <1>3, <2>1
<1>5. /\ Revealing(shell, i) => verdict' = Rejected(verdict, shell.levels[i].named)
      /\ ~Revealing(shell, i) => verdict' = [verdict EXCEPT !.examined = i, !.phase = next]
  BY DEF Examine
<1>6. Deeper(shell, i) => i < n
  BY DEF Deeper
<1> HIDE DEF i, n
<1>7. CASE Revealing(shell, i)
  <2>1. shell.levels[i].named \in {"sensitive", "envSplit"}
    BY <1>7 DEF Revealing
  <2>2. verdict' \in VerdictType /\ verdict'.phase = "assessed" /\ verdict'.decision = "reject"
    BY <1>1, <1>5, <1>7, <2>1 DEF VerdictType, PolicyPhases, Rejected
  <2> QED BY <1>1, <2>2 DEF PolicyInv, OnlyReadersUnasked
<1>8. CASE ~Revealing(shell, i)
  <2>1. next \in {"words", "assess"} /\ (next = "words" <=> Deeper(shell, i))
    BY Zenon
  <2> HIDE DEF next
  <2>2. /\ verdict' \in VerdictType /\ verdict'.phase = next /\ verdict'.examined = i
        /\ verdict'.decision = "none"
    BY <1>1, <1>3, <1>5, <1>8, <2>1 DEF VerdictType, PolicyPhases
  <2>3. LookedInto(i)
    <3>1. \A j \in 1..i : ~Revealing(shell, j)
      BY <1>1, <1>3, <1>8, Zenon DEF LookedInto
    <3>2. ASSUME NEW j \in 1..i, j < i PROVE Deeper(shell, j)
      <4>1. j \in 1..verdict.examined /\ (j = verdict.examined \/ j < verdict.examined)
        BY <1>3, <3>2
      <4>2. verdict.examined > 0
        BY <1>2, <4>1
      <4> QED BY <1>1, <4>1, <4>2 DEF LookedInto
    <3> QED BY <3>1, <3>2 DEF LookedInto
  <2>4. LookedInto(verdict.examined)' /\ (Deeper(shell', i) <=> next = "words")
    BY <1>1, <2>1, <2>2, <2>3 DEF LookedInto
  <2>5. next = "words" => i < Len(shell'.levels)
    BY <1>1, <1>6, <2>1 DEF n
  <2>6. i \in 1..Len(shell'.levels)
    BY <1>1, <1>3 DEF n
  <2>7. shell' = shell /\ LevelsKnown(shell') /\ FlagsSeen(shell') /\ shell' \in ShellType
    BY <1>1
  <2> QED BY <2>1, <2>2, <2>4, <2>5, <2>6, <2>7 DEF PolicyInv, OnlyReadersUnasked
<1> QED BY <1>7, <1>8

\* What the assessment of a command comes to.
LEMMA PosixAssessed ==
    ASSUME NEW s \in ShellType, Len(s.levels) \in Nat \ {0}
    PROVE  /\ AssessPosix(s) \in {"allow", "ask", "reject"}
           /\ AssessPosix(s) = "allow" =>
                /\ ~ParseError(s) /\ ~s.found.operators /\ ~s.found.expansion /\ ~s.found.redirects
                /\ s.levels[1].head \in {"reader", "git"} /\ s.levels[1].operand = "inside"
<1>1. s.levels[1] \in Levels
  <2>1. s.levels \in Seq(Levels)
    BY DEF ShellType
  <2> QED BY <2>1
<1>2. s.levels[1].operand \in Operands
  BY <1>1 DEF Levels
<1> QED BY <1>2 DEF AssessPosix, OperandDecision, Grammar, Operands

\* On Windows there are fewer commands, and more is rejected.
LEMMA WindowsAssessed ==
    ASSUME NEW s \in ShellType, Len(s.levels) \in Nat \ {0}
    PROVE  /\ AssessWindows(s) \in {"allow", "ask", "reject"}
           /\ AssessWindows(s) = "allow" =>
                /\ ~ParseError(s) /\ ~s.found.expansion /\ ~s.found.operators /\ ~s.found.redirects /\ ~s.found.rejected
                /\ s.levels[1].head = "git" /\ s.levels[1].operand = "inside"
           /\ s.found.rejected \/ s.levels[1].head = "wrapper" => AssessWindows(s) = "reject"
<1>1. s.levels[1] \in Levels
  <2>1. s.levels \in Seq(Levels)
    BY DEF ShellType
  <2> QED BY <2>1
<1>2. s.levels[1].operand \in Operands
  BY <1>1 DEF Levels
<1> QED BY <1>2 DEF AssessWindows, OperandDecision, Grammar, Operands

\* What is seen of a command that is named there has been found.
LEMMA SeenExamined ==
    ASSUME PolicyInv, verdict.phase = "assess", shell.platform = "posix",
           NEW i \in Shown(shell), shell.levels[i].named = "sensitive"
    PROVE  FALSE
<1> DEFINE e == verdict.examined
           n == Len(shell.levels)
<1>1. /\ shell \in ShellType /\ e \in 1..n /\ ~Deeper(shell, e) /\ LookedInto(e)
      /\ n \in Nat /\ DOMAIN shell.levels = 1..n
  <2>1. shell \in ShellType /\ e \in 1..n /\ ~Deeper(shell, e) /\ LookedInto(e)
    BY DEF PolicyInv
  <2>2. shell.levels \in Seq(Levels)
    BY <2>1 DEF ShellType
  <2> QED BY <2>1, <2>2
<1>2. /\ i \in 1..n /\ i <= shell.legible /\ shell.legible \in Nat
      /\ \A j \in 1..(i - 1) : shell.levels[j].head # "runner"
  BY <1>1 DEF Shown, ShellType
<1> HIDE DEF e, n
<1>3. CASE i <= e
  <2>1. i \in 1..e
    BY <1>1, <1>2, <1>3
  <2> QED BY <1>1, <1>2, <2>1 DEF LookedInto, Revealing
<1>4. CASE e < i
  <2>1. e \in 1..(i - 1) /\ e < shell.legible /\ e < n
    BY <1>1, <1>2, <1>4
  <2>2. e < Len(shell.levels)
    BY <2>1 DEF n
  <2> QED BY <1>1, <1>2, <2>1, <2>2 DEF Deeper
<1> QED BY <1>1, <1>2, <1>3, <1>4

\* The command is assessed.
LEMMA PolicyAssesses == PolicyInv /\ Assess => PolicyInv'
<1> SUFFICES ASSUME PolicyInv, Assess PROVE PolicyInv'
  OBVIOUS
<1> DEFINE d == IF shell.platform = "posix" THEN AssessPosix(shell) ELSE AssessWindows(shell)
           n == Len(shell.levels)
<1>1. /\ verdict.phase = "assess" /\ shell' = shell /\ verdict \in VerdictType /\ shell \in ShellType
      /\ FlagsSeen(shell) /\ LevelsKnown(shell) /\ verdict.examined \in 1..n
      /\ LookedInto(verdict.examined)
      /\ verdict' = [verdict EXCEPT !.phase = "assessed", !.mode = Mode(shell), !.decision = d]
  BY DEF PolicyInv, Assess
<1>2. n \in Nat \ {0} /\ 1 \in DOMAIN shell.levels /\ DOMAIN shell.levels = 1..n
  <2>1. shell.levels \in Seq(Levels)
    BY <1>1 DEF ShellType
  <2>2. n \in Nat \ {0}
    BY <1>1, PolicyAssumption DEF LevelsKnown
  <2> QED BY <2>1, <2>2
<1>3. d \in {"allow", "ask", "reject"}
  BY <1>1, <1>2, PosixAssessed, WindowsAssessed
<1>4. ~Revealing(shell, 1)
  <2>1. 1 \in 1..verdict.examined
    BY <1>1, <1>2
  <2> QED BY <1>1, <2>1 DEF LookedInto
<1>5. ASSUME d = "allow"
      PROVE  /\ shell.levels[1].head \in {"reader", "git"} /\ shell.levels[1].operand = "inside"
             /\ ~shell.found.operators /\ ~shell.found.redirects /\ ~shell.found.expansion
             /\ ~shell.found.rejected /\ Mode(shell) = "argv"
  <2>1. CASE shell.platform = "posix"
    <3>1. ~shell.found.rejected
      BY <1>1, <2>1 DEF FlagsSeen
    <3>2. AssessPosix(shell) = "allow"
      BY <1>5, <2>1
    <3> QED BY <1>1, <1>2, <2>1, <3>1, <3>2, PosixAssessed DEF Mode
  <2>2. CASE shell.platform # "posix"
    <3>1. AssessWindows(shell) = "allow"
      BY <1>5, <2>2
    <3> QED BY <1>1, <1>2, <2>2, <3>1, WindowsAssessed DEF Mode
  <2> QED BY <2>1, <2>2
<1>6. d = "allow" /\ shell.legible >= 1 => shell.acts = NoFlags
  <2> SUFFICES ASSUME d = "allow", shell.legible >= 1 PROVE shell.acts = NoFlags
    OBVIOUS
  <2>1. ~shell.acts.operators /\ ~shell.acts.redirects /\ ~shell.acts.expansion /\ ~shell.acts.rejected
    BY <1>1, <1>5 DEF FlagsSeen
  <2>2. shell.acts \in Flags
    BY <1>1 DEF ShellType
  <2> QED BY <2>1, <2>2 DEF Flags, NoFlags
<1>7. shell.legible \in Nat /\ (shell.legible = 0 \/ shell.legible >= 1)
  <2>1. shell.legible \in Nat
    BY <1>1 DEF ShellType
  <2> QED BY <2>1
<1>8. d = "allow" /\ shell.legible = 0 => shell.astray = "text"
  BY <1>1, <1>5 DEF FlagsSeen, ShellType
<1>9. n > 1 => /\ shell.levels[1].head \in Containing(shell.levels[2].via)
               /\ shell.levels[2].via \in Vias
  <2> SUFFICES ASSUME n > 1 PROVE /\ shell.levels[1].head \in Containing(shell.levels[2].via)
                                  /\ shell.levels[2].via \in Vias
    OBVIOUS
  <2>1. 1 \in 1..(n - 1) /\ 2 \in 1..n /\ 1 + 1 = 2
    BY <1>2
  <2>2. shell.levels[1].head \in Containing(shell.levels[1 + 1].via)
    BY <1>1, <2>1 DEF LevelsKnown
  <2>3. shell.levels[2] \in Levels
    <3>1. shell.levels \in Seq(Levels)
      BY <1>1 DEF ShellType
    <3> QED BY <2>1, <3>1
  <2> QED BY <2>1, <2>2, <2>3 DEF Levels
<1>10. ASSUME d = "allow", shell.legible >= 1 PROVE n = 1
  <2>1. n > 1 => shell.levels[2].via # "substitution"
    BY <1>1, <1>6, <1>10 DEF LevelsKnown, Embeds, NoFlags
  <2>2. ~(n > 1)
    BY <1>5, <1>9, <1>10, <2>1 DEF Containing, Vias
  <2>3. n \in Nat \ {0}
    BY <1>2
  <2> HIDE DEF d, n
  <2> QED BY <2>2, <2>3
<1>11. ASSUME d = "allow", NEW i \in DOMAIN shell.levels, shell.levels[i].named = "sensitive"
       PROVE  shell.legible = 0
  <2> SUFFICES ASSUME shell.legible >= 1 PROVE FALSE
    BY <1>7
  <2>1. n = 1
    BY <1>10, <1>11
  <2>2. i = 1
    BY <1>2, <2>1
  <2> QED BY <1>4, <1>11, <2>2 DEF Revealing
<1>12. ASSUME NEW i \in Shown(shell), shell.levels[i].named = "sensitive" PROVE d = "reject"
  <2>1. shell.platform # "posix"
    BY <1>1, <1>12, SeenExamined
  <2>2. /\ i \in 1..n /\ i <= shell.legible
        /\ \A j \in 1..(i - 1) : shell.levels[j].head # "runner"
    BY <1>2, <1>12 DEF Shown
  <2>3. i # 1
    BY <1>4, <1>12, <2>2 DEF Revealing
  <2>4. n > 1 /\ 1 \in 1..(i - 1) /\ shell.legible >= 1
    BY <1>2, <1>7, <2>2, <2>3
  <2>5. shell.levels[1].head # "runner"
    BY <2>2, <2>4
  <2>6. shell.acts.expansion \/ shell.levels[1].head = "wrapper"
    BY <1>1, <1>9, <2>4, <2>5 DEF LevelsKnown, Embeds, Containing, Vias
  <2>7. shell.found.rejected \/ shell.levels[1].head = "wrapper"
    BY <1>1, <2>1, <2>4, <2>6 DEF FlagsSeen
  <2> QED BY <1>1, <1>2, <2>1, <2>7, WindowsAssessed
<1>13. Mode(shell) \in {"argv", "shell"}
  BY DEF Mode
<1> HIDE DEF d
<1>14. /\ verdict' \in VerdictType /\ verdict'.phase = "assessed" /\ verdict'.decision = d
       /\ verdict'.mode = Mode(shell)
  BY <1>1, <1>3, <1>13 DEF VerdictType, PolicyPhases
<1>15. OnlyReadersUnasked'
  BY <1>1, <1>5, <1>6, <1>7, <1>8, <1>11, <1>14 DEF OnlyReadersUnasked
<1>16. (\E i \in Shown(shell') : shell'.levels[i].named = "sensitive") => verdict'.decision = "reject"
  BY <1>1, <1>12, <1>14
<1>17. verdict'.decision = "allow" => verdict'.mode = "argv"
  BY <1>5, <1>14
<1> QED BY <1>1, <1>14, <1>15, <1>16, <1>17 DEF PolicyInv

\* The permission rule forgets all of the command but its assessment,
LEMMA PolicyReports == PolicyInv /\ Report => PolicyInv'
<1> SUFFICES ASSUME PolicyInv, Report PROVE PolicyInv'
  OBVIOUS
<1>1. /\ verdict.phase = "assessed" /\ verdict \in VerdictType /\ shell \in ShellType
      /\ verdict.decision = "allow" => verdict.mode = "argv"
      /\ verdict' = [verdict EXCEPT !.phase = "judge", !.examined = 0, !.reason = "none"]
      /\ shell' = [shell EXCEPT !.quote = "", !.escaped = FALSE, !.found = NoFlags, !.context = "plain",
                                !.acts = NoFlags, !.astray = "no", !.legible = 1,
                                !.levels = << >>, !.redirect = "none"]
  BY DEF PolicyInv, Report
<1>2. /\ verdict' \in VerdictType /\ verdict'.phase = "judge" /\ verdict'.decision = verdict.decision
      /\ verdict'.mode = verdict.mode
  BY <1>1 DEF VerdictType, PolicyPhases
<1>3. NoFlags \in Flags /\ << >> \in Seq(Levels)
  BY DEF NoFlags, Flags
<1>4. shell' \in ShellType /\ shell'.levels = << >>
  BY <1>1, <1>3 DEF ShellType, Contexts
<1> QED BY <1>1, <1>2, <1>4 DEF PolicyInv, OnlyReadersUnasked

\* and decides by it and by the circumstances.
LEMMA PolicyDecides == PolicyInv /\ Decide => PolicyInv'
<1> SUFFICES ASSUME PolicyInv, Decide PROVE PolicyInv'
  OBVIOUS
<1>1. PICK c \in Circumstance :
         /\ c.tool = "run_shell" => c.harmless = (verdict.decision = "allow")
         /\ verdict' = [verdict EXCEPT !.phase = "decided", !.on = c,
                          !.permission = IF c.tool = "run_shell" /\ verdict.decision = "reject" THEN "deny"
                                         ELSE PermissionDecision(c)]
  BY DEF Decide
<1>2. /\ verdict.phase = "judge" /\ verdict \in VerdictType /\ shell \in ShellType /\ shell' = shell
      /\ shell.levels = << >>
      /\ verdict.decision = "allow" => verdict.mode = "argv"
  BY DEF PolicyInv, Decide
<1>3. PermissionDecision(c) \in {"allow", "ask", "deny"}
  BY DEF PermissionDecision, DecidePermission
<1> DEFINE p == IF c.tool = "run_shell" /\ verdict.decision = "reject" THEN "deny" ELSE PermissionDecision(c)
<1>4. p \in {"allow", "ask", "deny"}
  BY <1>3
<1> HIDE DEF p
<1>5. /\ verdict' \in VerdictType /\ verdict'.phase = "decided" /\ verdict'.on = c /\ verdict'.permission = p
      /\ verdict'.decision = verdict.decision /\ verdict'.mode = verdict.mode
  <2>1. verdict' = [verdict EXCEPT !.phase = "decided", !.on = c, !.permission = p]
    BY <1>1 DEF p
  <2> QED BY <1>2, <1>4, <2>1 DEF VerdictType, PolicyPhases
<1>6. p = IF c.tool = "run_shell" /\ verdict.decision = "reject" THEN "deny" ELSE PermissionDecision(c)
  BY DEF p
<1> QED BY <1>1, <1>2, <1>5, <1>6 DEF PolicyInv, OnlyReadersUnasked

\* Every step of the reading and of the judgement keeps the invariant.
LEMMA PolicyInvNext == PolicyInv /\ [PolicyNext]_policyVars => PolicyInv'
<1>1. PolicyInv /\ UNCHANGED policyVars => PolicyInv'
  BY DEF policyVars, PolicyInv, OnlyReadersUnasked, LookedInto, Shown
<1> QED BY <1>1, PolicyReads, PolicyEnds, PolicyExamines, PolicyAssesses, PolicyReports, PolicyDecides
        DEF PolicyNext

\* It says what the run checks.
LEMMA PolicyInvSafe == PolicyInv => OnlyReadersUnasked /\ SensitiveRejected /\ PermissionsFailClosed
<1> SUFFICES ASSUME PolicyInv PROVE OnlyReadersUnasked /\ SensitiveRejected /\ PermissionsFailClosed
  OBVIOUS
<1>1. OnlyReadersUnasked /\ SensitiveRejected
  BY DEF PolicyInv, SensitiveRejected, PermissionDecision
<1>2. ASSUME verdict.phase = "decided" PROVE PermissionsFailClosed
  <2> DEFINE c == verdict.on
             d == verdict.permission
  <2>1. /\ c \in Circumstance
        /\ c.tool = "run_shell" => c.harmless = (verdict.decision = "allow")
        /\ d = IF c.tool = "run_shell" /\ verdict.decision = "reject" THEN "deny" ELSE PermissionDecision(c)
        /\ verdict.decision = "allow" => verdict.mode = "argv"
    BY <1>2 DEF PolicyInv
  <2>2. c.tool = "run_shell" /\ c.harmless => verdict.mode = "argv"
    BY <2>1
  <2>3. /\ c.tool \in Tools /\ c.mode \in Modes /\ c.trusted \in BOOLEAN /\ c.rule \in Rules
        /\ c.bypassAvailable \in BOOLEAN /\ c.readOnly \in BOOLEAN /\ c.harmless \in BOOLEAN
    BY <2>1 DEF Circumstance
  <2> HIDE DEF c, d
  <2>4. d = "deny" \/ d = PermissionDecision(c)
    BY <2>1
  <2> QED BY <2>2, <2>3, <2>4 DEF PermissionsFailClosed, PermissionDecision, DecidePermission, Effect,
        Tools, Modes, Rules, c, d
<1> QED BY <1>1, <1>2 DEF PermissionsFailClosed

-----------------------------------------------------------------------------
(* A command, its processes and its output.                                 *)

CommandSteps == {"launch", "assign", "resume", "loop", "select", "read", "failing", "grace", "judge",
              "join", "end"}
CommandCallType == [backend : {"posix", "nt"}, pc : CommandSteps, late : 0..2, timedOut : BOOLEAN,
             stopped : BOOLEAN, overflow : BOOLEAN, exited : BOOLEAN, open : SUBSET Streams,
             events : SUBSET Streams, result : Results]
ProcType == [state : {"unborn", "running", "dead"}, holds : SUBSET Streams, ignores : BOOLEAN,
             escapes : BOOLEAN, asked : BOOLEAN]
StreamType == [written : Nat, unread : Nat, kept : Nat]

\* The processes: who was asked to stop and runs on left the group or ignores it.
ProcsInv ==
    /\ proc \in [Process -> ProcType]
    /\ \A p \in Process : proc[p].state = "unborn" => ~proc[p].asked
    /\ ~proc["leader"].escapes
    /\ Running("child") /\ proc["child"].asked =>
         proc["child"].escapes \/ proc["child"].ignores

\* The streams: what was written is kept or unread, and no more than the limit
\* is kept unless that is what ends the command.
StreamsInv ==
    /\ stream \in [Streams -> StreamType]
    /\ \A s \in Streams : stream[s].kept + stream[s].unread = stream[s].written
    /\ stream["stdout"].written + stream["stderr"].written <= MaxOutput
    /\ KeptBytes <= OutputLimit \/ call.overflow

\* The runner.
RunnerInv ==
    /\ call \in CommandCallType
    /\ (call.result # "none") = (call.pc = "end")
    /\ call.overflow => Windows \/ call.pc \in {"failing", "grace", "end"}
    /\ call.result = "returned" => ~call.overflow /\ call.open = {}
    /\ call.stopped => call.timedOut /\ ~Windows
    /\ call.pc \in {"select", "read", "grace"} => ~Windows
    /\ call.pc \in {"assign", "resume", "judge", "join"} => Windows

\* A stream is closed when it was read to its end, or the command is given up.
StreamEnded(s) == stream[s].unread = 0 /\ ~HeldOpen(s)
GivenUp == \/ call.result \in {"raised", "overflow"} \/ call.pc = "grace"
           \/ call.stopped \/ call.overflow

OutputAccounted ==
    /\ call.pc = "launch" => call.open = Streams /\ \A p \in Process : proc[p].state = "unborn"
    /\ call.pc = "read" => \A s \in call.events : stream[s].unread > 0 \/ ~HeldOpen(s)
    /\ GivenUp \/ \A s \in Streams \ call.open : StreamEnded(s)
    /\ call.result # "none" => ~Running("leader") /\ (Running("child") => ~Windows)

CommandInv == ProcsInv /\ StreamsInv /\ RunnerInv /\ OutputAccounted

\* What a signal leaves of the processes.
LEMMA DeadFields ==
    ASSUME proc \in [Process -> ProcType], NEW T \in SUBSET Process
    PROVE  /\ Dead(T) \in [Process -> ProcType]
           /\ \A p \in Process :
                /\ Dead(T)[p].state = IF p \in T THEN "dead" ELSE proc[p].state
                /\ Dead(T)[p].holds = IF p \in T THEN {} ELSE proc[p].holds
                /\ Dead(T)[p].ignores = proc[p].ignores
                /\ Dead(T)[p].escapes = proc[p].escapes
                /\ Dead(T)[p].asked = proc[p].asked
BY DEF Dead, ProcType

\* The end is asked of the whole group; who ignores it runs on.
LEMMA AskedFields ==
    ASSUME proc \in [Process -> ProcType]
    PROVE  /\ Asked \in [Process -> ProcType]
           /\ \A p \in Process :
                /\ Asked[p].state = IF p \in InGroup /\ ~proc[p].ignores THEN "dead" ELSE proc[p].state
                /\ Asked[p].holds = IF p \in InGroup /\ ~proc[p].ignores THEN {} ELSE proc[p].holds
                /\ Asked[p].ignores = proc[p].ignores
                /\ Asked[p].escapes = proc[p].escapes
                /\ Asked[p].asked = (proc[p].asked \/ p \in InGroup)
<1> DEFINE T == Obeying("TERM")
<1>1. T \in SUBSET Process /\ \A p \in Process : p \in T <=> p \in InGroup /\ ~proc[p].ignores
  BY DEF Obeying, InGroup
<1>2. Dead(T) \in [Process -> ProcType]
  BY <1>1, DeadFields
<1> HIDE DEF T
<1>3. \A p \in Process : (proc[p].asked \/ p \in InGroup) \in BOOLEAN
  BY DEF ProcType
<1>4. Asked = [p \in Process |-> [Dead(T)[p] EXCEPT !.asked = (@ \/ p \in InGroup)]]
  BY DEF Asked, T
<1>5. ASSUME NEW p \in Process
      PROVE  /\ Asked[p] \in ProcType
             /\ Asked[p].state = Dead(T)[p].state /\ Asked[p].holds = Dead(T)[p].holds
             /\ Asked[p].ignores = Dead(T)[p].ignores /\ Asked[p].escapes = Dead(T)[p].escapes
             /\ Asked[p].asked = (proc[p].asked \/ p \in InGroup)
  <2> DEFINE asked == proc[p].asked \/ p \in InGroup
  <2>1. asked \in BOOLEAN /\ Dead(T)[p] \in ProcType /\ Dead(T)[p].asked = proc[p].asked
    BY <1>1, <1>2, <1>3, DeadFields
  <2>2. Asked[p] = [Dead(T)[p] EXCEPT !.asked = (@ \/ p \in InGroup)]
    BY <1>4
  <2>3. Asked[p] = [Dead(T)[p] EXCEPT !.asked = asked]
    BY <2>1, <2>2 DEF ProcType
  <2> HIDE DEF asked
  <2>4. /\ Asked[p] \in ProcType
        /\ Asked[p].state = Dead(T)[p].state /\ Asked[p].holds = Dead(T)[p].holds
        /\ Asked[p].ignores = Dead(T)[p].ignores /\ Asked[p].escapes = Dead(T)[p].escapes
        /\ Asked[p].asked = asked
    BY <2>1, <2>3 DEF ProcType
  <2> QED BY <2>4 DEF asked
<1>6. Asked \in [Process -> ProcType]
  BY <1>5 DEF Asked
<1> QED BY <1>1, <1>5, <1>6, DeadFields

\* A process that ends, by itself or by a signal, opens nothing.
LEMMA ProcsDie ==
    ASSUME ProcsInv, NEW T \in SUBSET Process, \A p \in T : Running(p),
           proc' = proc \/ proc' = Dead(T) \/ proc' = Asked
    PROVE  /\ ProcsInv'
           /\ \A p \in Process : Running(p)' => Running(p)
           /\ \A p \in T : proc' = Dead(T) => ~Running(p)'
           /\ \A p \in Process : proc[p].state = "unborn" => proc'[p].state = "unborn"
           /\ \A s \in Streams : HeldOpen(s)' => HeldOpen(s)
<1> "leader" \in Process /\ "child" \in Process
  BY DEF Process
<1>0. proc \in [Process -> ProcType]
  BY DEF ProcsInv
<1>1. CASE proc' = proc
  BY <1>1, DeadFields, <1>0 DEF ProcsInv, Running, HeldOpen
<1>2. CASE proc' = Dead(T)
  <2>1. \A p \in Process :
          /\ proc'[p].state = "running" => p \notin T /\ proc[p].state = "running"
          /\ proc'[p].state = "unborn" => proc[p].state = "unborn"
          /\ proc[p].state = "unborn" => proc'[p].state = "unborn"
          /\ proc'[p].holds \subseteq proc[p].holds
          /\ proc'[p].ignores = proc[p].ignores /\ proc'[p].escapes = proc[p].escapes
          /\ proc'[p].asked = proc[p].asked
    BY <1>0, <1>2, DeadFields DEF Running
  <2>2. proc' \in [Process -> ProcType]
    BY <1>0, <1>2, DeadFields
  <2>3. ProcsInv'
    BY <2>1, <2>2 DEF ProcsInv, Running
  <2> QED BY <2>1, <2>3 DEF Running, HeldOpen
<1>3. CASE proc' = Asked
  <2>1. \A p \in Process :
          /\ proc'[p].state = "running" => proc[p].state = "running" /\ (p \in InGroup => proc[p].ignores)
          /\ proc'[p].state = "unborn" => proc[p].state = "unborn" /\ p \notin InGroup
          /\ proc[p].state = "unborn" => proc'[p].state = "unborn"
          /\ proc'[p].holds \subseteq proc[p].holds
          /\ proc'[p].ignores = proc[p].ignores /\ proc'[p].escapes = proc[p].escapes
          /\ proc'[p].asked = (proc[p].asked \/ p \in InGroup)
    BY <1>0, <1>3, AskedFields DEF Running, InGroup
  <2>2. proc' \in [Process -> ProcType]
    BY <1>0, <1>3, AskedFields
  <2>3. ProcsInv'
    BY <2>1, <2>2 DEF ProcsInv, Running, InGroup
  <2>4. proc' = Dead(T) => \A p \in T : ~Running(p)'
    BY <1>0, DeadFields DEF Running
  <2> QED BY <2>1, <2>3, <2>4 DEF Running, HeldOpen
<1> QED BY <1>1, <1>2, <1>3

\* The invariant holds before the command is launched.
LEMMA CommandInvInit == CommandInit => CommandInv
<1> SUFFICES ASSUME CommandInit PROVE CommandInv
  OBVIOUS
<1> USE CommandAssumption
<1>1. /\ proc \in [Process -> ProcType] /\ ~proc["leader"].escapes
      /\ \A p \in Process : proc[p].state = "unborn" /\ proc[p].holds = {} /\ ~proc[p].asked
  <2>1. PICK ignores \in [Process -> BOOLEAN], escapes \in BOOLEAN :
          proc = [p \in Process |->
                    [state |-> "unborn", holds |-> {}, ignores |-> ignores[p],
                     escapes |-> p = "child" /\ escapes, asked |-> FALSE]]
    BY Zenon DEF CommandInit
  <2>2. \A p \in Process : (p = "child" /\ escapes) \in BOOLEAN
    OBVIOUS
  <2>3. \A p \in Process : proc[p] \in ProcType
    BY <2>1, <2>2 DEF ProcType
  <2> QED BY <2>1, <2>3 DEF Process
<1>2. ProcsInv
  BY <1>1 DEF ProcsInv, Running, Process
<1>3. RunnerInv /\ call.open = Streams /\ call.pc = "launch" /\ call.result = "none" /\ ~call.overflow
  BY DEF CommandInit, RunnerInv, CommandCallType, CommandSteps, Results, Windows
<1>4. /\ stream \in [Streams -> StreamType]
      /\ \A s \in Streams : stream[s].written = 0 /\ stream[s].unread = 0 /\ stream[s].kept = 0
  BY DEF CommandInit, StreamType
<1>5. StreamsInv
  BY <1>4 DEF StreamsInv, KeptBytes, Streams
<1>6. OutputAccounted
  BY <1>1, <1>3 DEF OutputAccounted
<1> QED BY <1>2, <1>3, <1>5, <1>6 DEF CommandInv

\* What keeps the streams as they are keeps what is known of them.
LEMMA StreamsKept ==
    ASSUME CommandInv, stream' = stream, call'.overflow = call.overflow
    PROVE  StreamsInv'
BY DEF CommandInv, StreamsInv, KeptBytes

\* Processes only end.
ProcsEnd ==
    /\ ProcsInv' /\ \A p \in Process : Running(p)' => Running(p)
    /\ \A p \in Process : proc[p].state = "unborn" => proc'[p].state = "unborn"
    /\ \A s \in Streams : HeldOpen(s)' => HeldOpen(s)

\* The three ways in which the processes change: not at all,
LEMMA ProcsStay == ProcsInv /\ proc' = proc => ProcsEnd
BY DEF ProcsEnd, ProcsInv, Running, HeldOpen

\* a signal that can be ignored,
LEMMA ProcsAsked == ProcsInv /\ proc' = Asked => ProcsEnd
<1> SUFFICES ASSUME ProcsInv, proc' = Asked PROVE ProcsEnd
  OBVIOUS
<1>1. {} \in SUBSET Process /\ \A p \in {} : Running(p)
  OBVIOUS
<1> QED BY <1>1, ProcsDie DEF ProcsEnd

\* and one that cannot.
LEMMA ProcsKilled ==
    ASSUME ProcsInv, NEW T \in SUBSET Process, \A p \in T : Running(p), proc' = Dead(T)
    PROVE  ProcsEnd /\ \A p \in T : ~Running(p)'
BY ProcsDie DEF ProcsEnd

\* A step of the runner that reads nothing.
LEMMA RunnerMoves ==
    ASSUME CommandInv, stream' = stream, ProcsEnd,
           call'.overflow = call.overflow, RunnerInv', 
           call'.pc = "launch" => call.pc = "launch" /\ call'.open = call.open,
           call'.pc = "read" => \A s \in call'.events : stream[s].unread > 0 \/ ~HeldOpen(s),
           GivenUp' \/ (~GivenUp /\ call'.open = call.open),
           call'.result # "none" => ~Running("leader")' /\ (Running("child")' => ~Windows')
    PROVE  CommandInv'
<1>1. ProcsInv' /\ \A s \in Streams : HeldOpen(s)' => HeldOpen(s)
  BY DEF ProcsEnd
<1>2. StreamsInv'
  BY StreamsKept
<1>3. call'.events \subseteq Streams
  BY DEF RunnerInv, CommandCallType
<1>4. GivenUp' \/ \A s \in Streams \ call'.open : StreamEnded(s)'
  BY <1>1 DEF CommandInv, OutputAccounted, StreamEnded
<1>5. call'.pc = "launch" => call'.open = Streams /\ \A p \in Process : proc'[p].state = "unborn"
  BY DEF CommandInv, OutputAccounted, ProcsEnd
<1>6. OutputAccounted'
  BY <1>1, <1>3, <1>4, <1>5 DEF OutputAccounted
<1> QED BY <1>1, <1>2, <1>6 DEF CommandInv

\* The command does something by itself.
LEMMA CallStays ==
    ASSUME CommandInv, UNCHANGED <<call, stream>>, ProcsEnd
    PROVE  CommandInv'
<1>1. RunnerInv' /\ (GivenUp' \/ (~GivenUp /\ call'.open = call.open))
  BY DEF CommandInv, RunnerInv, Windows, GivenUp
<1>2. call.pc = "read" => \A s \in call.events : stream[s].unread > 0 \/ ~HeldOpen(s)
  BY DEF CommandInv, OutputAccounted
<1>3. call.result # "none" => ~Running("leader")' /\ (Running("child")' => ~Windows')
  BY DEF CommandInv, OutputAccounted, ProcsEnd, Windows, Process
<1> QED BY <1>1, <1>2, <1>3, RunnerMoves

\* On Windows the process is put in its job and resumed, or the call raises.
LEMMA RunnerAssignOrResume == CommandInv /\ AssignOrResume => CommandInv'
<1> SUFFICES ASSUME CommandInv, AssignOrResume PROVE CommandInv'
  OBVIOUS
<1>1. /\ stream' = stream /\ call'.overflow = call.overflow
      /\ call'.pc = "launch" => call.pc = "launch" /\ call'.open = call.open
  BY DEF AssignOrResume, CommandInv, RunnerInv, CommandCallType
<1>2. RunnerInv'
  BY DEF AssignOrResume, CommandInv, RunnerInv, CommandCallType, CommandSteps, Results, Windows
<1>3. call'.pc = "read" => \A s \in call'.events : stream[s].unread > 0 \/ ~HeldOpen(s)
  BY DEF AssignOrResume, CommandInv, RunnerInv, CommandCallType, OutputAccounted
<1>4. GivenUp' \/ (~GivenUp /\ call'.open = call.open)
  BY DEF AssignOrResume, CommandInv, RunnerInv, CommandCallType, GivenUp, Failed
<1>5. ProcsEnd
  BY ProcsStay DEF AssignOrResume, CommandInv
<1>6. call'.result # "none" => ~Running("leader")' /\ (Running("child")' => ~Windows')
  BY <1>1 DEF AssignOrResume, CommandInv, RunnerInv, CommandCallType, OutputAccounted, Windows, Running
<1> QED BY <1>1, <1>2, <1>3, <1>4, <1>5, <1>6, RunnerMoves

\* The clock of the call moves on.
LEMMA RunnerTick == CommandInv /\ Tick => CommandInv'
<1> SUFFICES ASSUME CommandInv, Tick PROVE CommandInv'
  OBVIOUS
<1>1. /\ stream' = stream /\ call'.overflow = call.overflow
      /\ call'.pc = "launch" => call.pc = "launch" /\ call'.open = call.open
  BY DEF Tick, CommandInv, RunnerInv, CommandCallType
<1>2. RunnerInv'
  BY DEF Tick, CommandInv, RunnerInv, CommandCallType, CommandSteps, Results, Windows
<1>3. call'.pc = "read" => \A s \in call'.events : stream[s].unread > 0 \/ ~HeldOpen(s)
  BY DEF Tick, CommandInv, RunnerInv, CommandCallType, OutputAccounted
<1>4. GivenUp' \/ (~GivenUp /\ call'.open = call.open)
  BY DEF Tick, CommandInv, RunnerInv, CommandCallType, GivenUp, Failed
<1>5. ProcsEnd
  BY ProcsStay DEF Tick, CommandInv
<1>6. call'.result # "none" => ~Running("leader")' /\ (Running("child")' => ~Windows')
  BY <1>1 DEF Tick, CommandInv, RunnerInv, CommandCallType, OutputAccounted, Windows, Running
<1> QED BY <1>1, <1>2, <1>3, <1>4, <1>5, <1>6, RunnerMoves

\* select returns the streams that can be read.
LEMMA RunnerSelect == CommandInv /\ Select => CommandInv'
<1> SUFFICES ASSUME CommandInv, Select PROVE CommandInv'
  OBVIOUS
<1>1. /\ stream' = stream /\ call'.overflow = call.overflow
      /\ call'.pc = "launch" => call.pc = "launch" /\ call'.open = call.open
  BY DEF Select, CommandInv, RunnerInv, CommandCallType
<1>2. RunnerInv'
  BY DEF Select, CommandInv, RunnerInv, CommandCallType, CommandSteps, Results, Windows
<1>3. call'.pc = "read" => \A s \in call'.events : stream[s].unread > 0 \/ ~HeldOpen(s)
  BY DEF Select, CommandInv, RunnerInv, CommandCallType, OutputAccounted
<1>4. GivenUp' \/ (~GivenUp /\ call'.open = call.open)
  BY DEF Select, CommandInv, RunnerInv, CommandCallType, GivenUp, Failed
<1>5. ProcsEnd
  BY ProcsStay DEF Select, CommandInv
<1>6. call'.result # "none" => ~Running("leader")' /\ (Running("child")' => ~Windows')
  BY <1>1 DEF Select, CommandInv, RunnerInv, CommandCallType, OutputAccounted, Windows, Running
<1> QED BY <1>1, <1>2, <1>3, <1>4, <1>5, <1>6, RunnerMoves

\* When nothing is open, the runner waits for the leader.
LEMMA RunnerWaitLeader == CommandInv /\ WaitLeader => CommandInv'
<1> SUFFICES ASSUME CommandInv, WaitLeader PROVE CommandInv'
  OBVIOUS
<1>1. /\ stream' = stream /\ call'.overflow = call.overflow
      /\ call'.pc = "launch" => call.pc = "launch" /\ call'.open = call.open
  BY DEF WaitLeader, CommandInv, RunnerInv, CommandCallType
<1>2. RunnerInv'
  BY DEF WaitLeader, CommandInv, RunnerInv, CommandCallType, CommandSteps, Results, Windows
<1>3. call'.pc = "read" => \A s \in call'.events : stream[s].unread > 0 \/ ~HeldOpen(s)
  BY DEF WaitLeader, CommandInv, RunnerInv, CommandCallType, OutputAccounted
<1>4. GivenUp' \/ (~GivenUp /\ call'.open = call.open)
  BY DEF WaitLeader, CommandInv, RunnerInv, CommandCallType, GivenUp, Failed
<1>5. ProcsEnd
  BY ProcsStay DEF WaitLeader, CommandInv
<1>6. call'.result # "none" => ~Running("leader")' /\ (Running("child")' => ~Windows')
  BY <1>1 DEF WaitLeader, CommandInv, RunnerInv, CommandCallType, OutputAccounted, Windows, Running
<1> QED BY <1>1, <1>2, <1>3, <1>4, <1>5, <1>6, RunnerMoves

\* A first interrupt: the command is stopped or killed.
LEMMA RunnerInterrupt == CommandInv /\ Interrupt => CommandInv'
<1> SUFFICES ASSUME CommandInv, Interrupt PROVE CommandInv'
  OBVIOUS
<1>1. /\ stream' = stream /\ call'.overflow = call.overflow
      /\ call'.pc = "launch" => call.pc = "launch" /\ call'.open = call.open
  BY DEF Interrupt, CommandInv, RunnerInv, CommandCallType
<1>2. RunnerInv'
  BY DEF Interrupt, CommandInv, RunnerInv, CommandCallType, CommandSteps, Results, Windows
<1>3. call'.pc = "read" => \A s \in call'.events : stream[s].unread > 0 \/ ~HeldOpen(s)
  BY DEF Interrupt, CommandInv, RunnerInv, CommandCallType, OutputAccounted
<1>4. GivenUp' \/ (~GivenUp /\ call'.open = call.open)
  BY DEF Interrupt, CommandInv, RunnerInv, CommandCallType, GivenUp, Failed
<1>5. ProcsEnd
  BY ProcsStay DEF Interrupt, CommandInv
<1>6. call'.result # "none" => ~Running("leader")' /\ (Running("child")' => ~Windows')
  BY <1>1 DEF Interrupt, CommandInv, RunnerInv, CommandCallType, OutputAccounted, Windows, Running
<1> QED BY <1>1, <1>2, <1>3, <1>4, <1>5, <1>6, RunnerMoves

\* The loop looks at the clock, the output and the leader.
LEMMA RunnerCheck == CommandInv /\ Check => CommandInv'
<1> SUFFICES ASSUME CommandInv, Check PROVE CommandInv'
  OBVIOUS
<1>1. /\ stream' = stream /\ call'.overflow = call.overflow
      /\ call'.pc = "launch" => call.pc = "launch" /\ call'.open = call.open
  BY DEF Check, CommandInv, RunnerInv, CommandCallType
<1>2. RunnerInv'
  <2>1. ~Windows /\ call \in CommandCallType /\ call.pc = "loop" /\ call.result = "none" /\ ~call.overflow
    BY DEF Check, CommandInv, RunnerInv
  <2>2. \/ call' = [call EXCEPT !.pc = "end", !.result = "returned"] /\ call.open = {}
        \/ call' = [call EXCEPT !.pc = "select", !.timedOut = TRUE]
        \/ call' = [call EXCEPT !.pc = "select", !.stopped = TRUE, !.open = {}] /\ call.timedOut
        \/ call' = [call EXCEPT !.pc = "select"]
    BY DEF Check
  <2>3. CASE call' = [call EXCEPT !.pc = "end", !.result = "returned"] /\ call.open = {}
    BY <2>1, <2>3 DEF CommandInv, RunnerInv, CommandCallType, CommandSteps, Results, Windows
  <2>4. CASE call' = [call EXCEPT !.pc = "select", !.timedOut = TRUE]
    BY <2>1, <2>4 DEF CommandInv, RunnerInv, CommandCallType, CommandSteps, Results, Windows
  <2>5. CASE call' = [call EXCEPT !.pc = "select", !.stopped = TRUE, !.open = {}] /\ call.timedOut
    BY <2>1, <2>5 DEF CommandInv, RunnerInv, CommandCallType, CommandSteps, Results, Windows
  <2>6. CASE call' = [call EXCEPT !.pc = "select"]
    BY <2>1, <2>6 DEF CommandInv, RunnerInv, CommandCallType, CommandSteps, Results, Windows
  <2> QED BY <2>2, <2>3, <2>4, <2>5, <2>6
<1>3. call'.pc = "read" => \A s \in call'.events : stream[s].unread > 0 \/ ~HeldOpen(s)
  BY DEF Check, CommandInv, RunnerInv, CommandCallType, OutputAccounted
<1>4. GivenUp' \/ (~GivenUp /\ call'.open = call.open)
  BY DEF Check, CommandInv, RunnerInv, CommandCallType, GivenUp, Failed
<1>5. ProcsEnd
  <2>1. proc' = proc \/ proc' = Asked \/ proc' = Dead(Obeying("KILL"))
    BY DEF Check
  <2>2. Obeying("KILL") \in SUBSET Process /\ \A p \in Obeying("KILL") : Running(p)
    BY DEF Obeying, InGroup
  <2> QED BY <2>1, <2>2, ProcsStay, ProcsAsked, ProcsKilled DEF CommandInv
<1>6. call'.result # "none" => ~Running("leader")' /\ (Running("child")' => ~Windows')
  BY <1>1 DEF Check, CommandInv, RunnerInv, CommandCallType, OutputAccounted, Windows, Running
<1> QED BY <1>1, <1>2, <1>3, <1>4, <1>5, <1>6, RunnerMoves

\* After the grace the group is killed.
LEMMA RunnerEndGrace == CommandInv /\ EndGrace => CommandInv'
<1> SUFFICES ASSUME CommandInv, EndGrace PROVE CommandInv'
  OBVIOUS
<1>1. /\ stream' = stream /\ call'.overflow = call.overflow
      /\ call'.pc = "launch" => call.pc = "launch" /\ call'.open = call.open
  BY DEF EndGrace, CommandInv, RunnerInv, CommandCallType
<1>2. RunnerInv'
  <2>1. /\ ~Windows /\ call \in CommandCallType /\ Failed \in {"overflow", "raised"}
        /\ call' = [call EXCEPT !.pc = "end", !.result = Failed]
    BY DEF EndGrace, CommandInv, RunnerInv, Windows, Failed
  <2> HIDE DEF Failed
  <2> QED BY <2>1 DEF CommandInv, RunnerInv, CommandCallType, CommandSteps, Results, Windows
<1>3. call'.pc = "read" => \A s \in call'.events : stream[s].unread > 0 \/ ~HeldOpen(s)
  BY DEF EndGrace, CommandInv, RunnerInv, CommandCallType, OutputAccounted
<1>4. GivenUp' \/ (~GivenUp /\ call'.open = call.open)
  BY DEF EndGrace, CommandInv, RunnerInv, CommandCallType, GivenUp, Failed
<1>5. ProcsEnd
  <2>1. Obeying("KILL") \in SUBSET Process /\ \A p \in Obeying("KILL") : Running(p)
    BY DEF Obeying, InGroup
  <2>2. proc' = proc \/ proc' = Asked \/ proc' = Dead(Obeying("KILL"))
    BY DEF EndGrace
  <2> QED BY <2>1, <2>2, ProcsStay, ProcsAsked, ProcsKilled DEF CommandInv
<1>6. call'.result # "none" => ~Running("leader")' /\ (Running("child")' => ~Windows')
  <2>1. "leader" \in Process /\ (Running("leader") => "leader" \in InGroup)
    BY DEF CommandInv, ProcsInv, InGroup, Process
  <2>2. Running("leader") => ~Running("leader")'
    <3>1. Obeying("KILL") \in SUBSET Process /\ \A p \in Obeying("KILL") : Running(p)
      BY DEF Obeying, InGroup
    <3>2. Running("leader") => "leader" \in Obeying("KILL") /\ proc' = Dead(Obeying("KILL"))
      BY <2>1 DEF EndGrace, Obeying
    <3> QED BY <3>1, <3>2, ProcsKilled DEF CommandInv
  <2>3. ~Windows'
    BY DEF EndGrace, CommandInv, RunnerInv, CommandCallType, Windows
  <2> QED BY <1>5, <2>1, <2>2, <2>3 DEF ProcsEnd
<1> QED BY <1>1, <1>2, <1>3, <1>4, <1>5, <1>6, RunnerMoves

\* On Windows, what the command has come to is judged.
LEMMA RunnerJudge == CommandInv /\ Judge => CommandInv'
<1> SUFFICES ASSUME CommandInv, Judge PROVE CommandInv'
  OBVIOUS
<1>1. /\ stream' = stream /\ call'.overflow = call.overflow
      /\ call'.pc = "launch" => call.pc = "launch" /\ call'.open = call.open
  BY DEF Judge, CommandInv, RunnerInv, CommandCallType
<1>2. RunnerInv'
  BY ZenonT(60) DEF Judge, CommandInv, RunnerInv, CommandCallType, CommandSteps, Results, Windows
<1>3. call'.pc = "read" => \A s \in call'.events : stream[s].unread > 0 \/ ~HeldOpen(s)
  BY DEF Judge, CommandInv, RunnerInv, CommandCallType, OutputAccounted
<1>4. GivenUp' \/ (~GivenUp /\ call'.open = call.open)
  BY DEF Judge, CommandInv, RunnerInv, CommandCallType, GivenUp, Failed
<1>5. ProcsEnd
  <2>1. Everybody \in SUBSET Process /\ \A p \in Everybody : Running(p)
    BY DEF Everybody
  <2>2. proc' = proc \/ proc' = Asked \/ proc' = Dead(Everybody)
    BY DEF Judge
  <2> QED BY <2>1, <2>2, ProcsStay, ProcsAsked, ProcsKilled DEF CommandInv
<1>6. call'.result # "none" => ~Running("leader")' /\ (Running("child")' => ~Windows')
  BY <1>1 DEF Judge, CommandInv, RunnerInv, CommandCallType, OutputAccounted, Windows, Running
<1> QED BY <1>1, <1>2, <1>3, <1>4, <1>5, <1>6, RunnerMoves

\* On Windows, the reader threads are joined.
LEMMA RunnerJoin == CommandInv /\ Join => CommandInv'
<1> SUFFICES ASSUME CommandInv, Join PROVE CommandInv'
  OBVIOUS
<1>1. /\ stream' = stream /\ call'.overflow = call.overflow
      /\ call'.pc = "launch" => call.pc = "launch" /\ call'.open = call.open
  BY DEF Join, CommandInv, RunnerInv, CommandCallType
<1>2. RunnerInv'
  BY DEF Join, CommandInv, RunnerInv, CommandCallType, CommandSteps, Results, Windows
<1>3. call'.pc = "read" => \A s \in call'.events : stream[s].unread > 0 \/ ~HeldOpen(s)
  BY DEF Join, CommandInv, RunnerInv, CommandCallType, OutputAccounted
<1>4. GivenUp' \/ (~GivenUp /\ call'.open = call.open)
  BY DEF Join, CommandInv, RunnerInv, CommandCallType, GivenUp, Failed
<1>5. ProcsEnd
  <2>1. Everybody \in SUBSET Process /\ \A p \in Everybody : Running(p)
    BY DEF Everybody
  <2>2. proc' = proc \/ proc' = Asked \/ proc' = Dead(Everybody)
    BY DEF Join
  <2> QED BY <2>1, <2>2, ProcsStay, ProcsAsked, ProcsKilled DEF CommandInv
<1>6. call'.result # "none" => ~Running("leader")' /\ (Running("child")' => ~Windows')
  <2>1. Everybody \in SUBSET Process /\ \A p \in Everybody : Running(p)
    BY DEF Everybody
  <2>2. \A p \in Everybody : ~Running(p)'
    BY <2>1, ProcsKilled DEF Join, CommandInv
  <2>3. \A p \in Process : ~Running(p)'
    BY <1>5, <2>2 DEF Everybody, ProcsEnd
  <2> QED BY <2>3 DEF Process
<1> QED BY <1>1, <1>2, <1>3, <1>4, <1>5, <1>6, RunnerMoves

\* What fails in between ends the group before it raises.
LEMMA RunnerAbandon == CommandInv /\ Abandon => CommandInv'
<1> SUFFICES ASSUME CommandInv, Abandon PROVE CommandInv'
  OBVIOUS
<1>1. /\ stream' = stream /\ call'.overflow = call.overflow
      /\ call'.pc = "launch" => call.pc = "launch" /\ call'.open = call.open
  BY DEF Abandon, CommandInv, RunnerInv, CommandCallType
<1>2. RunnerInv'
  BY DEF Abandon, CommandInv, RunnerInv, CommandCallType, CommandSteps, Results, Windows
<1>3. call'.pc = "read" => \A s \in call'.events : stream[s].unread > 0 \/ ~HeldOpen(s)
  BY DEF Abandon, CommandInv, RunnerInv, CommandCallType, OutputAccounted
<1>4. GivenUp' \/ (~GivenUp /\ call'.open = call.open)
  BY DEF Abandon, CommandInv, RunnerInv, CommandCallType, GivenUp, Failed
<1>5. ProcsEnd
  <2>1. Everybody \in SUBSET Process /\ \A p \in Everybody : Running(p)
    BY DEF Everybody
  <2>2. proc' = proc \/ proc' = Asked \/ proc' = Dead(Everybody)
    BY DEF Abandon
  <2> QED BY <2>1, <2>2, ProcsStay, ProcsAsked, ProcsKilled DEF CommandInv
<1>6. call'.result # "none" => ~Running("leader")' /\ (Running("child")' => ~Windows')
  <2>1. Everybody \in SUBSET Process /\ \A p \in Everybody : Running(p)
    BY DEF Everybody
  <2>2. \A p \in Everybody : ~Running(p)'
    BY <2>1, ProcsKilled DEF Abandon, CommandInv
  <2>3. \A p \in Process : ~Running(p)'
    BY <1>5, <2>2 DEF Everybody, ProcsEnd
  <2> QED BY <2>3 DEF Process
<1> QED BY <1>1, <1>2, <1>3, <1>4, <1>5, <1>6, RunnerMoves

\* The end is asked of the group.
LEMMA RunnerStopCommand == CommandInv /\ StopCommand => CommandInv'
<1> SUFFICES ASSUME CommandInv, StopCommand PROVE CommandInv'
  OBVIOUS
<1>1. /\ stream' = stream /\ call'.overflow = call.overflow
      /\ call'.pc = "launch" => call.pc = "launch" /\ call'.open = call.open
  BY DEF StopCommand, CommandInv, RunnerInv, CommandCallType
<1>2. RunnerInv'
  <2>1. /\ ~Windows /\ call \in CommandCallType /\ Failed \in {"overflow", "raised"} /\ call.pc = "failing"
        /\ call.result = "none"
    BY DEF StopCommand, CommandInv, RunnerInv, Windows, Failed
  <2>2. \/ call' = [call EXCEPT !.pc = "grace", !.open = {}]
        \/ call' = [call EXCEPT !.pc = "end", !.open = {}, !.result = Failed]
    BY <2>1 DEF StopCommand, CommandCallType
  <2> HIDE DEF Failed
  <2> QED BY <2>1, <2>2, ZenonT(40) DEF CommandInv, RunnerInv, CommandCallType, CommandSteps, Results, Windows
<1>3. call'.pc = "read" => \A s \in call'.events : stream[s].unread > 0 \/ ~HeldOpen(s)
  BY DEF StopCommand, CommandInv, RunnerInv, CommandCallType, OutputAccounted
<1>4. GivenUp' \/ (~GivenUp /\ call'.open = call.open)
  BY DEF StopCommand, CommandInv, RunnerInv, CommandCallType, GivenUp, Failed
<1>5. ProcsEnd
  BY ProcsAsked DEF StopCommand, CommandInv
<1>6. call'.result # "none" => ~Running("leader")' /\ (Running("child")' => ~Windows')
  BY <1>1 DEF StopCommand, CommandInv, RunnerInv, CommandCallType, OutputAccounted, Windows, Running
<1> QED BY <1>1, <1>2, <1>3, <1>4, <1>5, <1>6, RunnerMoves

\* The process is started, or it is not.
LEMMA RunnerLaunch == CommandInv /\ Launch => CommandInv'
<1> SUFFICES ASSUME CommandInv, Launch PROVE CommandInv'
  OBVIOUS
<1>0. /\ call.pc = "launch" /\ stream' = stream
      /\ \/ /\ proc' = [proc EXCEPT !["leader"].state = "running", !["leader"].holds = Streams]
            /\ \E step \in {"assign", "loop"} : call' = [call EXCEPT !.pc = step]
         \/ proc' = proc /\ call' = [call EXCEPT !.pc = "end", !.result = "raised"]
  BY DEF Launch
<1>1. /\ stream' = stream /\ call'.overflow = call.overflow
      /\ call.result = "none" /\ call'.open = call.open
      /\ \/ /\ proc' = [proc EXCEPT !["leader"].state = "running", !["leader"].holds = Streams]
            /\ call'.pc \in {"assign", "loop"}
         \/ proc' = proc /\ call'.pc = "end"
  <2>1. call \in CommandCallType /\ call.result = "none"
    BY <1>0 DEF CommandInv, RunnerInv, Windows
  <2>2. CASE proc' = proc /\ call' = [call EXCEPT !.pc = "end", !.result = "raised"]
    BY <1>0, <2>1, <2>2 DEF CommandCallType
  <2>3. ASSUME NEW step \in {"assign", "loop"}, call' = [call EXCEPT !.pc = step]
        PROVE  /\ call'.overflow = call.overflow /\ call'.open = call.open
               /\ call'.pc \in {"assign", "loop"}
    BY <2>1, <2>3 DEF CommandCallType
  <2> QED BY <1>0, <2>1, <2>2, <2>3
<1>6. call.open = Streams /\ \A p \in Process : ~Running(p)
  BY DEF Launch, CommandInv, OutputAccounted, Running
<1>2. RunnerInv'
  BY ZenonT(60) DEF Launch, CommandInv, RunnerInv, CommandCallType, CommandSteps, Results, Windows
<1>3. CASE proc' = proc /\ call'.pc = "end"
  <2>1. call'.result = "raised"
    BY <1>3 DEF Launch, CommandInv, RunnerInv, CommandCallType
  <2>2. ProcsEnd
    BY <1>3, ProcsStay DEF CommandInv
  <2>3. ~Running("leader")' /\ ~Running("child")'
    BY <1>3, <1>6 DEF Running, Process
  <2> QED BY <1>1, <1>2, <1>3, <2>1, <2>2, <2>3, RunnerMoves DEF GivenUp
<1>4. CASE proc' = [proc EXCEPT !["leader"].state = "running", !["leader"].holds = Streams]
           /\ call'.pc \in {"assign", "loop"}
  <2>1. ProcsInv'
    BY <1>4, <1>6, ZenonT(40) DEF CommandInv, ProcsInv, ProcType, Process, Running
  <2>2. StreamsInv'
    BY <1>1, StreamsKept
  <2>3. call'.result = "none"
    BY <1>2, <1>4 DEF RunnerInv
  <2>4. OutputAccounted'
    BY <1>1, <1>4, <1>6, <2>3 DEF OutputAccounted
  <2> QED BY <1>2, <2>1, <2>2, <2>4 DEF CommandInv
<1> QED BY <1>1, <1>3, <1>4

\* The command runs: it starts a child, ends, or leaves its streams.
LEMMA CommandMoves ==
    ASSUME CommandInv, Resumed, UNCHANGED <<call, stream>>, NEW p \in Process,
           Start \/ Finish(p) \/ Detach(p)
    PROVE  CommandInv'
<1>1. CASE Finish(p)
  <2>1. {p} \in SUBSET Process /\ \A q \in {p} : Running(q)
    BY <1>1 DEF Finish
  <2>2. ProcsEnd
    BY <1>1, <2>1, ProcsKilled DEF Finish, CommandInv
  <2> QED BY <2>2, CallStays
<1>2. CASE Detach(p)
  <2>1. /\ proc' \in [Process -> ProcType]
        /\ \A q \in Process :
             /\ proc'[q].state = proc[q].state /\ proc'[q].holds \subseteq proc[q].holds
             /\ proc'[q].ignores = proc[q].ignores /\ proc'[q].escapes = proc[q].escapes
             /\ proc'[q].asked = proc[q].asked
    BY <1>2 DEF Detach, CommandInv, ProcsInv, ProcType
  <2>2. ProcsEnd
    BY <2>1 DEF ProcsEnd, CommandInv, ProcsInv, Running, HeldOpen, Process
  <2> QED BY <2>2, CallStays
<1>3. CASE Start
  <2>1. /\ proc' \in [Process -> ProcType]
        /\ \A q \in Process :
             /\ proc'[q].state = IF q = "child" THEN "running" ELSE proc[q].state
             /\ proc'[q].holds = IF q = "child" THEN proc["leader"].holds ELSE proc[q].holds
             /\ proc'[q].ignores = proc[q].ignores /\ proc'[q].escapes = proc[q].escapes
             /\ proc'[q].asked = proc[q].asked
    BY <1>3 DEF Start, CommandInv, ProcsInv, ProcType, Process
  <2>2. /\ Running("leader") /\ proc["child"].state = "unborn" /\ ~proc["child"].asked
        /\ "leader" \in Process /\ "child" \in Process
    BY <1>3 DEF Start, CommandInv, ProcsInv, Process
  <2>3. ProcsInv'
    BY <2>1, <2>2 DEF CommandInv, ProcsInv, Running
  <2>4. \A s \in Streams : HeldOpen(s)' => HeldOpen(s)
    BY <2>1, <2>2 DEF HeldOpen, Running
  <2>5. StreamsInv' /\ RunnerInv'
    BY StreamsKept DEF CommandInv, RunnerInv, Windows
  <2>6. call.pc # "launch" /\ call.result = "none"
    BY DEF Resumed
  <2>7. OutputAccounted'
    BY <2>4, <2>6 DEF CommandInv, RunnerInv, CommandCallType, OutputAccounted, StreamEnded, GivenUp
  <2> QED BY <2>3, <2>5, <2>7 DEF CommandInv
<1> QED BY <1>1, <1>2, <1>3

\* Bytes that are written wait to be read.
LEMMA CommandWrites ==
    ASSUME CommandInv, NEW p \in Process, NEW s \in Streams, Output(p, s)
    PROVE  CommandInv'
<1>1. /\ stream' \in [Streams -> StreamType]
      /\ \A z \in Streams :
           /\ stream'[z].written = IF z = s THEN stream[z].written + 1 ELSE stream[z].written
           /\ stream'[z].unread = IF z = s THEN stream[z].unread + 1 ELSE stream[z].unread
           /\ stream'[z].kept = stream[z].kept
  <2> DEFINE written == stream[s].written + 1
             unread == stream[s].unread + 1
  <2>1. stream' = [stream EXCEPT ![s].written = written, ![s].unread = unread]
    BY DEF Output
  <2>2. written \in Nat /\ unread \in Nat
    BY DEF CommandInv, StreamsInv, StreamType
  <2> HIDE DEF written, unread
  <2>3. /\ stream' \in [Streams -> StreamType]
        /\ \A z \in Streams :
             /\ stream'[z].written = IF z = s THEN written ELSE stream[z].written
             /\ stream'[z].unread = IF z = s THEN unread ELSE stream[z].unread
             /\ stream'[z].kept = stream[z].kept
    BY <2>1, <2>2 DEF CommandInv, StreamsInv, StreamType
  <2> QED BY <2>3 DEF written, unread
<1>2. /\ call' = call /\ proc' = proc /\ s \in call.open
      /\ stream["stdout"].written + stream["stderr"].written < MaxOutput
  BY DEF Output
<1>3. /\ "stdout" \in Streams /\ "stderr" \in Streams /\ (s = "stdout" \/ s = "stderr")
      /\ \A z \in Streams : stream[z].written \in Nat /\ stream[z].unread \in Nat /\ stream[z].kept \in Nat
  BY DEF Streams, CommandInv, StreamsInv, StreamType
<1>4. StreamsInv'
  <2>1. KeptBytes' = KeptBytes
    BY <1>1, <1>3 DEF KeptBytes
  <2>2. ASSUME NEW z \in Streams PROVE stream'[z].kept + stream'[z].unread = stream'[z].written
    <3>1. stream[z].kept + stream[z].unread = stream[z].written
      BY DEF CommandInv, StreamsInv
    <3>2. CASE z = s
      BY <1>1, <1>3, <3>1, <3>2
    <3>3. CASE z # s
      BY <1>1, <3>1, <3>3
    <3> QED BY <3>2, <3>3
  <2>3. stream'["stdout"].written + stream'["stderr"].written <= MaxOutput
    BY <1>1, <1>2, <1>3, CommandAssumption
  <2> QED BY <1>1, <1>2, <2>1, <2>2, <2>3 DEF CommandInv, StreamsInv
<1>5. ProcsInv' /\ RunnerInv' /\ (GivenUp' = GivenUp)
  BY <1>2 DEF CommandInv, ProcsInv, RunnerInv, Running, Windows, GivenUp
<1>6. \A z \in Streams : (HeldOpen(z)' = HeldOpen(z)) /\ (z # s => StreamEnded(z)' = StreamEnded(z))
  BY <1>1, <1>2 DEF HeldOpen, Running, StreamEnded
<1>7. call'.pc = "read" => \A z \in call'.events : stream'[z].unread > 0 \/ ~HeldOpen(z)'
  BY <1>1, <1>2, <1>3, <1>6 DEF CommandInv, RunnerInv, CommandCallType, OutputAccounted
<1>8. OutputAccounted'
  BY <1>2, <1>5, <1>6, <1>7 DEF CommandInv, OutputAccounted, Running, Windows
<1> QED BY <1>4, <1>5, <1>8 DEF CommandInv

\* What is read is kept; n is how much.
LEMMA StreamsRead ==
    ASSUME CommandInv, NEW s \in Streams, NEW n \in Nat, n <= stream[s].unread, proc' = proc,
           stream' = [stream EXCEPT ![s].unread = @ - n, ![s].kept = @ + n],
           KeptBytes + n <= OutputLimit \/ call'.overflow
    PROVE  /\ StreamsInv' /\ ProcsInv'
           /\ \A z \in Streams : z # s => stream'[z] = stream[z]
           /\ stream'[s].unread = stream[s].unread - n
           /\ \A z \in Streams : HeldOpen(z)' = HeldOpen(z)
<1> DEFINE unread == stream[s].unread - n
           kept == stream[s].kept + n
<1>1. /\ "stdout" \in Streams /\ "stderr" \in Streams /\ (s = "stdout" \/ s = "stderr")
      /\ \A z \in Streams : stream[z].written \in Nat /\ stream[z].unread \in Nat /\ stream[z].kept \in Nat
  BY DEF Streams, CommandInv, StreamsInv, StreamType
<1>2. unread \in Nat /\ kept \in Nat
  BY <1>1
<1>3. stream' = [stream EXCEPT ![s].unread = unread, ![s].kept = kept]
  BY DEF CommandInv, StreamsInv, StreamType
<1> HIDE DEF unread, kept
<1>4. /\ stream' \in [Streams -> StreamType]
      /\ \A z \in Streams :
           /\ stream'[z].written = stream[z].written
           /\ stream'[z].unread = IF z = s THEN unread ELSE stream[z].unread
           /\ stream'[z].kept = IF z = s THEN kept ELSE stream[z].kept
           /\ z # s => stream'[z] = stream[z]
  <2>1. stream \in [Streams -> StreamType]
    BY DEF CommandInv, StreamsInv
  <2> DEFINE r == [stream[s] EXCEPT !.unread = unread, !.kept = kept]
  <2>2. stream' = [stream EXCEPT ![s] = r]
    BY <1>3, <2>1
  <2>3. stream[s] \in StreamType
    BY <2>1
  <2>4. r \in StreamType /\ r.written = stream[s].written /\ r.unread = unread /\ r.kept = kept
    BY <1>2, <2>3 DEF StreamType
  <2> HIDE DEF r
  <2> QED BY <2>1, <2>2, <2>4
<1>5. KeptBytes' = KeptBytes + n
  BY <1>1, <1>4 DEF KeptBytes, kept
<1>6. \A z \in Streams : stream'[z].kept + stream'[z].unread = stream'[z].written
  BY <1>1, <1>4 DEF CommandInv, StreamsInv, kept, unread
<1>7. StreamsInv'
  BY <1>1, <1>4, <1>5, <1>6 DEF CommandInv, StreamsInv
<1>8. ProcsInv' /\ \A z \in Streams : HeldOpen(z)' = HeldOpen(z)
  BY DEF CommandInv, ProcsInv, Running, HeldOpen
<1> QED BY <1>4, <1>7, <1>8 DEF unread

\* The runner reads what select has returned.
LEMMA RunnerRead == CommandInv /\ Read => CommandInv'
<1> SUFFICES ASSUME CommandInv, Read PROVE CommandInv'
  OBVIOUS
<1>1. /\ call.pc = "read" /\ proc' = proc /\ call.result = "none" /\ ~Windows /\ ~call.overflow
      /\ call \in CommandCallType
  BY DEF Read, CommandInv, RunnerInv
<1>2. CASE call.events = {}
  <2>1. call' = [call EXCEPT !.pc = "loop"] /\ stream' = stream
    BY <1>2 DEF Read
  <2>2. RunnerInv'
    BY <1>1, <2>1 DEF CommandInv, RunnerInv, CommandCallType, CommandSteps, Windows
  <2>3. /\ call'.overflow = call.overflow /\ call'.pc = "loop" /\ call'.result = "none"
        /\ GivenUp' \/ (~GivenUp /\ call'.open = call.open)
    BY <1>1, <2>1 DEF CommandCallType, GivenUp
  <2>4. ProcsEnd
    BY <1>1, ProcsStay DEF CommandInv
  <2> QED BY <2>1, <2>2, <2>3, <2>4, RunnerMoves
<1>3. CASE call.events # {}
  <2>1. PICK s \in call.events :
          /\ stream' = [stream EXCEPT ![s].unread = @ - Readable(s), ![s].kept = @ + Readable(s)]
          /\ call' = IF Readable(s) = 0
                     THEN [call EXCEPT !.events = @ \ {s}, !.open = @ \ {s}]
                     ELSE IF KeptBytes + Readable(s) > OutputLimit
                     THEN [call EXCEPT !.pc = "failing", !.overflow = TRUE]
                     ELSE [call EXCEPT !.events = @ \ {s}]
    BY <1>3 DEF Read
  <2> DEFINE n == Readable(s)
  <2>2. s \in Streams /\ KeptBytes \in Nat /\ KeptBytes <= OutputLimit /\ stream[s].unread \in Nat
    BY <1>1 DEF CommandCallType, CommandInv, StreamsInv, StreamType, KeptBytes, Streams
  <2>3. /\ n \in Nat /\ n <= stream[s].unread
        /\ n = 0 => stream[s].unread = 0
    BY <2>2, CommandAssumption DEF Readable
  <2>4. stream[s].unread = 0 => ~HeldOpen(s)
    BY <1>1, <2>2 DEF CommandInv, OutputAccounted
  <2> HIDE DEF n
  <2>5. stream' = [stream EXCEPT ![s].unread = @ - n, ![s].kept = @ + n]
    BY <2>1 DEF n
  <2>6. \/ n = 0 /\ call' = [call EXCEPT !.events = @ \ {s}, !.open = @ \ {s}]
        \/ call' = [call EXCEPT !.pc = "failing", !.overflow = TRUE]
        \/ KeptBytes + n <= OutputLimit /\ call' = [call EXCEPT !.events = @ \ {s}]
    BY <2>1, <2>2, <2>3, CommandAssumption DEF n
  <2>7. /\ RunnerInv' /\ (KeptBytes + n <= OutputLimit \/ call'.overflow)
        /\ call'.pc \in {"read", "failing"} /\ call'.result = "none" /\ call'.backend = call.backend
        /\ call'.events \subseteq call.events /\ (call'.pc = "read" => s \notin call'.events)
        /\ \/ call'.open = call.open \/ call'.overflow
           \/ n = 0 /\ call'.open = call.open \ {s}
        /\ call'.stopped = call.stopped
    <3>1. CASE n = 0 /\ call' = [call EXCEPT !.events = @ \ {s}, !.open = @ \ {s}]
      <4>1. /\ call' \in CommandCallType /\ call'.events = call.events \ {s} /\ call'.open = call.open \ {s}
            /\ call'.overflow = call.overflow /\ call'.pc = "read" /\ call'.result = "none"
            /\ call'.stopped = call.stopped /\ call'.backend = call.backend
            /\ call'.timedOut = call.timedOut
        BY <1>1, <3>1 DEF CommandCallType
      <4>2. RunnerInv' /\ KeptBytes + n <= OutputLimit
        BY <1>1, <2>2, <3>1, <4>1 DEF CommandInv, RunnerInv, Windows
      <4> QED BY <3>1, <4>1, <4>2
    <3>2. CASE call' = [call EXCEPT !.pc = "failing", !.overflow = TRUE]
      BY <1>1, <2>2, <2>3, <3>2 DEF CommandInv, RunnerInv, CommandCallType, CommandSteps, Windows
    <3>3. CASE KeptBytes + n <= OutputLimit /\ call' = [call EXCEPT !.events = @ \ {s}]
      BY <1>1, <2>2, <2>3, <3>3 DEF CommandInv, RunnerInv, CommandCallType, CommandSteps, Windows
    <3> QED BY <2>6, <3>1, <3>2, <3>3
  <2>8. /\ StreamsInv' /\ ProcsInv'
        /\ \A z \in Streams : z # s => stream'[z] = stream[z]
        /\ stream'[s].unread = stream[s].unread - n
        /\ \A z \in Streams : HeldOpen(z)' = HeldOpen(z)
    BY <1>1, <2>2, <2>3, <2>5, <2>7, StreamsRead
  <2>9. stream[s].unread = 0 => stream'[s].unread = 0
    BY <2>2, <2>3, <2>8
  <2>10. GivenUp' \/ \A z \in Streams \ call'.open : StreamEnded(z)'
    <3>1. \A z \in Streams : StreamEnded(z) => StreamEnded(z)'
      BY <2>8, <2>9 DEF StreamEnded
    <3>2. n = 0 => StreamEnded(s)'
      BY <2>2, <2>3, <2>4, <2>8, <2>9 DEF StreamEnded
    <3>3. GivenUp \/ \A z \in Streams \ call.open : StreamEnded(z)
      BY DEF CommandInv, OutputAccounted
    <3>4. GivenUp => call.stopped
      BY <1>1 DEF GivenUp
    <3> QED BY <2>7, <3>1, <3>2, <3>3, <3>4 DEF GivenUp
  <2>11. call'.pc = "read" => \A z \in call'.events : stream'[z].unread > 0 \/ ~HeldOpen(z)'
    BY <1>1, <2>7, <2>8 DEF CommandInv, OutputAccounted, CommandCallType
  <2>12. OutputAccounted'
    BY <2>7, <2>10, <2>11 DEF OutputAccounted
  <2> QED BY <2>7, <2>8, <2>12 DEF CommandInv
<1> QED BY <1>2, <1>3

\* A reader thread reads its stream.
LEMMA ReaderReads == ASSUME CommandInv, NEW s \in Streams, ReadStream(s) PROVE CommandInv'
<1>1. /\ call.pc \notin {"launch", "read"} /\ proc' = proc /\ call.result = "none" /\ Windows
      /\ call \in CommandCallType /\ s \in call.open
  BY DEF ReadStream, Resumed, CommandInv, RunnerInv
<1>2. stream[s].unread \in Nat /\ KeptBytes \in Nat
  BY DEF CommandInv, StreamsInv, StreamType, KeptBytes, Streams
<1>3. CASE stream' = stream
           /\ \/ call' = [call EXCEPT !.open = @ \ {s}] /\ StreamEnded(s)
              \/ call' = [call EXCEPT !.open = @ \ {s}, !.overflow = TRUE]
  <2>1. /\ RunnerInv' /\ (~call'.overflow => ~call.overflow)
        /\ call'.pc = call.pc /\ call'.result = "none"
        /\ call'.stopped = call.stopped /\ call'.open = call.open \ {s}
        /\ StreamEnded(s) \/ call'.overflow
    BY <1>1, <1>3, ZenonT(40) DEF CommandInv, RunnerInv, CommandCallType, Windows
  <2>2. StreamsInv'
    BY <1>3, <2>1 DEF CommandInv, StreamsInv, KeptBytes
  <2>3. ProcsEnd
    BY <1>1, ProcsStay DEF CommandInv
  <2>4. \A z \in Streams : StreamEnded(z)' = StreamEnded(z)
    BY <1>1, <1>3 DEF StreamEnded, HeldOpen, Running
  <2>5. OutputAccounted'
    BY <1>1, <2>1, <2>4 DEF CommandInv, OutputAccounted, GivenUp
  <2> QED BY <2>1, <2>2, <2>3, <2>5 DEF CommandInv, ProcsEnd
<1>4. CASE /\ call' = call /\ KeptBytes + stream[s].unread <= OutputLimit
           /\ stream' = [stream EXCEPT ![s].unread = 0, ![s].kept = @ + stream[s].unread]
  <2> DEFINE n == stream[s].unread
  <2>1. n - n = 0 /\ n <= n /\ n \in Nat
    BY <1>2
  <2>2. stream' = [stream EXCEPT ![s].unread = @ - n, ![s].kept = @ + n]
    BY <1>4, <2>1 DEF CommandInv, StreamsInv, StreamType
  <2>3. KeptBytes + n <= OutputLimit
    BY <1>4
  <2> HIDE DEF n
  <2>4. /\ StreamsInv' /\ ProcsInv'
        /\ \A z \in Streams : z # s => stream'[z] = stream[z]
        /\ \A z \in Streams : HeldOpen(z)' = HeldOpen(z)
    BY <1>1, <2>1, <2>2, <2>3, StreamsRead DEF n
  <2>5. RunnerInv' /\ (GivenUp' = GivenUp)
    BY <1>4 DEF CommandInv, RunnerInv, Windows, GivenUp
  <2>6. OutputAccounted'
    BY <1>1, <1>4, <2>4, <2>5 DEF CommandInv, OutputAccounted, StreamEnded
  <2> QED BY <2>4, <2>5, <2>6 DEF CommandInv
<1>5. \/ stream' = stream
           /\ \/ call' = [call EXCEPT !.open = @ \ {s}] /\ StreamEnded(s)
              \/ call' = [call EXCEPT !.open = @ \ {s}, !.overflow = TRUE]
      \/ /\ call' = call /\ KeptBytes + stream[s].unread <= OutputLimit
         /\ stream' = [stream EXCEPT ![s].unread = 0, ![s].kept = @ + stream[s].unread]
  BY <1>2, CommandAssumption DEF ReadStream, StreamEnded
<1> QED BY <1>3, <1>4, <1>5

\* Every step of the runner, its readers and the command keeps the invariant.
LEMMA CommandInvNext == CommandInv /\ [CommandNext]_commandVars => CommandInv'
<1> SUFFICES ASSUME CommandInv, [CommandNext]_commandVars PROVE CommandInv'
  OBVIOUS
<1>1. CASE UNCHANGED commandVars
  <2>1. call' = call /\ proc' = proc /\ stream' = stream
    BY <1>1 DEF commandVars
  <2> QED BY <2>1, ProcsStay, CallStays DEF CommandInv
<1>2. CASE CommandStep
  <2>1. ASSUME NEW p \in Process, Start \/ Finish(p) \/ Detach(p) PROVE CommandInv'
    BY <1>2, <2>1, CommandMoves DEF CommandStep, Start, Finish, Detach
  <2>2. ASSUME NEW p \in Process, NEW s \in Streams, Output(p, s) PROVE CommandInv'
    BY <2>2, CommandWrites
  <2>3. "leader" \in Process
    BY DEF Process
  <2> QED BY <1>2, <2>1, <2>2, <2>3 DEF CommandStep
<1>3. CASE PosixStep
  BY <1>3, RunnerLaunch, RunnerCheck, RunnerSelect, RunnerRead, RunnerStopCommand, RunnerEndGrace
     DEF PosixStep
<1>4. CASE WindowsStep
  BY <1>4, RunnerAssignOrResume, RunnerWaitLeader, RunnerJudge, RunnerJoin, RunnerAbandon
     DEF WindowsStep
<1>5. CASE Tick \/ Interrupt \/ \E s \in Streams : ReadStream(s)
  BY <1>5, RunnerTick, RunnerInterrupt, ReaderReads
<1> QED BY <1>1, <1>2, <1>3, <1>4, <1>5 DEF CommandNext

\* It says what the run checks.
LEMMA CommandInvSafe == CommandInv => WholeOutput /\ CommandStopped
<1> SUFFICES ASSUME CommandInv PROVE WholeOutput /\ CommandStopped
  OBVIOUS
<1>1. WholeOutput
  <2> SUFFICES ASSUME call.result = "returned" PROVE WholeOutput
    BY DEF WholeOutput
  <2>1. ~call.overflow /\ call.open = {} /\ KeptBytes <= OutputLimit
    BY DEF CommandInv, RunnerInv, StreamsInv
  <2>2. ASSUME ~call.timedOut, NEW s \in Streams
        PROVE  stream[s].kept = stream[s].written /\ ~HeldOpen(s)
    <3>1. StreamEnded(s)
      <4>1. call.pc = "end" /\ ~call.stopped
        BY <2>2 DEF CommandInv, RunnerInv
      <4>2. ~GivenUp
        BY <2>1, <4>1 DEF GivenUp
      <4> QED BY <2>1, <4>2 DEF CommandInv, OutputAccounted
    <3> QED BY <3>1 DEF StreamEnded, CommandInv, StreamsInv, StreamType
  <2> QED BY <2>1, <2>2 DEF WholeOutput
<1>2. CommandStopped
  BY DEF CommandStopped, CommandInv, ProcsInv, ProcType, OutputAccounted, Process
<1> QED BY <1>1, <1>2

-----------------------------------------------------------------------------
(* How Git is run: no program of the repository starts.                     *)

GitSteps == {"executable", "kind", "config", "toplevel", "keys", "index", "arguments", "run", "ran",
             "refused"}
GitCallType == [command : Commands, second : Seconds, pc : GitSteps, neutral : BOOLEAN,
                diffOff : BOOLEAN]

\* The keys were judged, or there are none, or the command reads none of them.
KeysJudged ==
    \/ RepositoryKind(repo) = "none" \/ SafeQuery
    \/ \A k \in repo.keys : ~IsExecutableKey(k, DiffNeutralized)

\* What the probes that are done have found out, and what a repository is.
GitInv ==
    /\ git \in GitCallType
    /\ RepositoryKind(repo) = "none" => repo.keys = {}
    /\ "core.worktree" \notin repo.keys => repo.worktree = "root"
    /\ git.pc \notin {"executable", "kind", "refused"} => RepositoryKind(repo) # "unsafe"
    /\ git.pc \in {"keys", "index", "arguments", "run", "ran"} => repo.worktree = "root"
    /\ git.pc \in {"index", "arguments", "run", "ran"} => KeysJudged
    /\ git.pc \in {"run", "ran"} =>
         (git.diffOff = (\/ git.command \in {"diff", "show", "range-diff"}
                         \/ git.command = "reflog" /\ git.second \in {"show", "option"}))

\* The invariant holds when the command is to be run.
LEMMA GitInvInit == GitInit => GitInv
<1> SUFFICES ASSUME GitInit PROVE GitInv
  OBVIOUS
<1>1. /\ repo.marker = "none" /\ repo.bare = "no" => repo.keys = {}
      /\ repo.marker \in {"none", "directory", "file", "link"} /\ repo.bare \in {"no", "yes", "partial"}
      /\ "core.worktree" \notin repo.keys => repo.worktree = "root"
  BY DEF GitInit
<1>2. RepositoryKind(repo) = "none" => repo.marker = "none" /\ repo.bare = "no"
  BY <1>1 DEF RepositoryKind, GitfileKind
<1>3. git \in GitCallType /\ git.pc = "executable"
  BY DEF GitInit, GitCallType, GitSteps
<1> QED BY <1>1, <1>2, <1>3 DEF GitInv

\* Every probe keeps it.
LEMMA GitInvNext == GitInv /\ [GitNext]_gitVars => GitInv'
<1> SUFFICES ASSUME GitInv, [GitNext]_gitVars PROVE GitInv'
  OBVIOUS
<1>1. CASE UNCHANGED gitVars
  BY <1>1 DEF gitVars, GitInv, KeysJudged, SafeQuery, DiffNeutralized
<1>2. ASSUME NEW step \in GitSteps \ {"run", "ran"}, GoTo(step), repo' = repo,
             step \notin {"executable", "kind", "refused"} => RepositoryKind(repo) # "unsafe",
             step \in {"keys", "index", "arguments"} => repo.worktree = "root",
             step \in {"index", "arguments"} => KeysJudged
      PROVE  GitInv'
  <2>1. /\ git' \in GitCallType /\ git'.pc = step
        /\ git'.command = git.command /\ git'.second = git.second
    BY <1>2 DEF GoTo, GitInv, GitCallType
  <2>2. KeysJudged' = KeysJudged
    BY <1>2, <2>1 DEF KeysJudged, SafeQuery, DiffNeutralized
  <2> QED BY <1>2, <2>1, <2>2 DEF GitInv
<1>3. CASE Prepare
  <2>1. PICK ok \in BOOLEAN : GoTo(IF ok THEN "kind" ELSE "refused")
    BY <1>3 DEF Prepare
  <2> DEFINE step == IF ok THEN "kind" ELSE "refused"
  <2>2. step \in {"kind", "refused"}
    OBVIOUS
  <2> HIDE DEF step
  <2> QED BY <1>2, <1>3, <2>1, <2>2 DEF Prepare, Probe, GitSteps, step
<1>4. CASE LookAtFiles
  <2>1. \/ RepositoryKind(repo) = "none" /\ GoTo("arguments")
        \/ RepositoryKind(repo) \notin {"none", "unsafe"} /\ GoTo("config")
        \/ GoTo("refused")
    BY <1>4 DEF LookAtFiles
  <2>2. RepositoryKind(repo) = "none" => KeysJudged /\ repo.worktree = "root"
    BY DEF KeysJudged, GitInv
  <2> QED BY <1>2, <1>4, <2>1, <2>2 DEF LookAtFiles, Probe, GitSteps
<1>5. CASE ListConfig
  <2>1. git.pc = "config" /\ repo' = repo /\ RepositoryKind(repo) # "unsafe"
    BY <1>5 DEF ListConfig, Probe, GitInv
  <2>2. \/ GoTo("refused") \/ GoTo("toplevel")
        \/ /\ "core.worktree" \notin repo.keys
           /\ (SafeQuery /\ GoTo("arguments")) \/ GoTo("keys")
    BY <1>5 DEF ListConfig
  <2>3. SafeQuery => KeysJudged
    BY DEF KeysJudged
  <2>4. "core.worktree" \notin repo.keys => repo.worktree = "root"
    BY DEF GitInv
  <2> QED BY <1>2, <2>1, <2>2, <2>3, <2>4 DEF GitSteps
<1>6. CASE CheckTopLevel
  <2>1. git.pc = "toplevel" /\ repo' = repo /\ RepositoryKind(repo) # "unsafe"
    BY <1>6 DEF CheckTopLevel, Probe, GitInv
  <2>2. \/ GoTo("refused")
        \/ repo.worktree = "root" /\ ((SafeQuery /\ GoTo("arguments")) \/ GoTo("keys"))
    BY <1>6 DEF CheckTopLevel
  <2>3. SafeQuery => KeysJudged
    BY DEF KeysJudged
  <2> QED BY <1>2, <2>1, <2>2, <2>3 DEF GitSteps
<1>7. CASE JudgeKeys
  <2>1. git.pc = "keys" /\ repo' = repo /\ RepositoryKind(repo) # "unsafe" /\ repo.worktree = "root"
    BY <1>7 DEF JudgeKeys, Probe, GitInv
  <2>2. GoTo("refused") \/ (KeysJudged /\ GoTo("index"))
    BY <1>7 DEF JudgeKeys, KeysJudged
  <2> QED BY <1>2, <2>1, <2>2 DEF GitSteps
<1>8. CASE ListIndex
  <2>1. /\ git.pc = "index" /\ repo' = repo /\ RepositoryKind(repo) # "unsafe"
        /\ repo.worktree = "root" /\ KeysJudged
    BY <1>8 DEF ListIndex, Probe, GitInv
  <2>2. GoTo("refused") \/ GoTo("arguments")
    BY <1>8 DEF ListIndex
  <2> QED BY <1>2, <2>1, <2>2 DEF GitSteps
<1>9. CASE BuildArguments \/ RunGit
  <2>1. /\ git.pc \in {"arguments", "run"} /\ repo' = repo /\ RepositoryKind(repo) # "unsafe"
        /\ repo.worktree = "root" /\ KeysJudged
    BY <1>9 DEF BuildArguments, RunGit, Probe, GitInv
  <2>2. /\ git' \in GitCallType /\ git'.pc \in {"run", "ran"}
        /\ git'.command = git.command /\ git'.second = git.second
    <3> DEFINE off == \/ git.command \in {"diff", "show", "range-diff"}
                      \/ git.command = "reflog" /\ git.second \in {"show", "option"}
    <3>1. off \in BOOLEAN
      OBVIOUS
    <3>2. \/ git' = [git EXCEPT !.pc = "run", !.diffOff = off]
          \/ git' = [git EXCEPT !.pc = "ran"]
      BY <1>9 DEF BuildArguments, RunGit, GoTo
    <3> HIDE DEF off
    <3> QED BY <3>1, <3>2 DEF GitInv, GitCallType, GitSteps
  <2>3. git'.diffOff = (\/ git.command \in {"diff", "show", "range-diff"}
                        \/ git.command = "reflog" /\ git.second \in {"show", "option"})
    BY <1>9 DEF BuildArguments, RunGit, GoTo, Probe, GitInv, GitCallType
  <2>4. KeysJudged' = KeysJudged
    BY <2>1, <2>2 DEF KeysJudged, SafeQuery, DiffNeutralized
  <2> QED BY <2>1, <2>2, <2>3, <2>4 DEF GitInv
<1> QED BY <1>1, <1>3, <1>4, <1>5, <1>6, <1>7, <1>8, <1>9 DEF GitNext

\* It says what the run checks.
LEMMA GitInvSafe == GitInv => GitStartsNothingForeign
<1> SUFFICES ASSUME GitInv, git.pc = "ran" PROVE GitStartsNothingForeign
  BY DEF GitStartsNothingForeign
<1>1. ASSUME NEW k \in repo.keys, MayStart(k) PROVE k \in DiffKeys /\ git.diffOff
  <2>1. git.command # "rev-parse" /\ k \in ProgramKeys \ Overridden
    BY <1>1 DEF MayStart, ProgramKeys, DiffKeys, Overridden
  <2>2. SafeQuery => git.second = "HEAD:path" /\ git.command = "show"
    BY <2>1 DEF SafeQuery
  <2>3. SafeQuery => k \in DiffKeys
    BY <1>1, <2>2 DEF MayStart
  <2>4. ~SafeQuery => k \in DiffKeys /\ DiffNeutralized
    BY <2>1 DEF GitInv, KeysJudged, IsExecutableKey
  <2>5. SafeQuery \/ DiffNeutralized => git.diffOff
    BY <2>2 DEF GitInv, DiffNeutralized
  <2> QED BY <2>3, <2>4, <2>5
<1>2. repo.worktree = "root" /\ RepositoryKind(repo) # "unsafe"
  BY DEF GitInv
<1> QED BY <1>1, <1>2 DEF GitStartsNothingForeign

-----------------------------------------------------------------------------
(* The types of the components.                                            *)

\* The edits stay within their bound, only what writes holds the lock, and
\* what has ended has a status.
ToolBounded ==
    /\ workspace.edits <= MaxEdits
    /\ \A e \in Callers :
          /\ mutator = e => tool[e].pc \in {"before", "run", "after", "leave"}
                            /\ Effect(tool[e].name) # "read_only"
          /\ tool[e].pc \in {"leave", "done"} => tool[e].status # "none"

LEMMA ToolBoundedInit == ToolInit => ToolBounded
<1> SUFFICES ASSUME ToolInit PROVE ToolBounded
  OBVIOUS
<1>1. /\ workspace.edits = 0 /\ mutator \notin Callers
      /\ \A e \in Callers : tool[e].pc = "request"
  BY ToolAssumption DEF ToolInit, NewCall
<1> QED BY <1>1, ToolAssumption DEF ToolBounded

\* A step of one call.
LEMMA ToolBoundedCall ==
    ASSUME ToolInv, ToolBounded, NEW e \in Callers, CallStep(e)
    PROVE  /\ tool'[e].pc \in {"leave", "done"} => tool'[e].status # "none"
           /\ mutator' = e => tool'[e].pc \in {"before", "run", "after", "leave"}
                              /\ Effect(tool'[e].name) # "read_only"
           /\ mutator' \in {mutator, e, NoCaller}
           /\ workspace'.edits = workspace.edits
           /\ \A u \in Callers \ {e} : tool'[u] = tool[u]
<1>1. /\ tool \in [Callers -> ToolCall] /\ tool[e] \in ToolCall /\ CallInv(e)
      /\ workspace \in [version : Nat, edits : Nat, replaced : BOOLEAN]
      /\ e # NoCaller
  BY ToolAssumption DEF ToolInv, ToolTyped
<1>2. /\ mutator = e => tool[e].pc \in {"before", "run", "after", "leave"}
                        /\ Effect(tool[e].name) # "read_only"
      /\ tool[e].pc = "leave" => tool[e].status # "none"
      /\ tool[e].pc = "lock" => Effect(tool[e].name) # "read_only"
  BY <1>1 DEF ToolBounded, CallInv, Alone, IsAt
<1>3. CASE RequestTool(e) \/ ApproveShell(e) \/ Approve(e)
  <2>1. tool[e].pc \in {"request", "approve"} /\ UNCHANGED <<workspace, mutator>>
    BY <1>3 DEF RequestTool, ApproveShell, Approve, IsAt
  <2>2. mutator' # e
    BY <1>2, <2>1
  <2>3. ASSUME Result(e, "done", "rejected")
        PROVE  tool'[e].status # "none" /\ \A u \in Callers \ {e} : tool'[u] = tool[u]
    BY <1>1, <2>3 DEF Result, ToolCall
  <2>4. ASSUME NEW step, step \notin {"leave", "done"}, Step(e, step)
        PROVE  tool'[e].pc \notin {"leave", "done"} /\ \A u \in Callers \ {e} : tool'[u] = tool[u]
    BY <1>1, <2>4 DEF Step, ToolCall
  <2>5. CASE RequestTool(e)
    <3>1. CASE Result(e, "done", "rejected")
      BY <2>1, <2>2, <2>3, <3>1
    <3>2. CASE ~Result(e, "done", "rejected")
      <4>1. PICK t \in Tools, step \in {"approve", "run", "lock"} :
                tool' = [tool EXCEPT ![e].name = t, ![e].pc = step]
        BY <2>5, <3>2 DEF RequestTool
      <4>2. tool'[e].pc = step /\ \A u \in Callers \ {e} : tool'[u] = tool[u]
        BY <1>1, <4>1 DEF ToolCall
      <4> QED BY <2>1, <2>2, <4>2
    <3> QED BY <3>1, <3>2
  <2>6. CASE ApproveShell(e) \/ Approve(e)
    <3>1. Result(e, "done", "rejected") \/ Step(e, "lock") \/ Step(e, "run")
      BY <2>6 DEF ApproveShell, Approve
    <3> QED BY <2>1, <2>2, <2>3, <2>4, <3>1
  <2> QED BY <1>3, <2>5, <2>6
<1>4. CASE EnterLock(e) \/ ObserveBefore(e)
  BY <1>1, <1>2, <1>4 DEF EnterLock, ObserveBefore, Result, Step, IsAt, ToolCall
<1>5. CASE Touch(e)
  BY <1>1, <1>2, <1>5 DEF Touch, IsAt, ToolCall
<1>6. ASSUME NEW outcome \in Outcomes(e), EndRun(e, outcome)
      PROVE  /\ tool'[e].pc \in {"leave", "done"} => tool'[e].status # "none"
             /\ mutator = e => tool'[e].pc \in {"before", "run", "after", "leave"}
             /\ tool'[e].name = tool[e].name
             /\ \A u \in Callers \ {e} : tool'[u] = tool[u]
  <2>1. Unobserved(outcome) # "none"
    BY DEF Unobserved
  <2> QED BY <1>1, <1>2, <1>6, <2>1 DEF EndRun, IsAt, ToolCall
<1>7. CASE ObserveAfter(e)
  <2>1. \A outcome, changed : StatusOf(outcome, changed) # "none"
    BY DEF StatusOf
  <2> QED BY <1>1, <1>2, <1>7, <2>1 DEF ObserveAfter, IsAt, ToolCall
<1>8. CASE ObservationFails(e) \/ FinalizeFails(e)
  BY <1>1, <1>2, <1>8 DEF ObservationFails, FinalizeFails, Result, IsAt, ToolCall
<1>9. CASE LeaveLock(e)
  BY <1>1, <1>2, <1>9 DEF LeaveLock, Step, IsAt, ToolCall
<1>10. ASSUME NEW outcome \in Outcomes(e), EndRun(e, outcome)
       PROVE  UNCHANGED <<workspace, mutator>>
  BY <1>10 DEF EndRun
<1> QED BY <1>2, <1>3, <1>4, <1>5, <1>6, <1>7, <1>8, <1>9, <1>10 DEF CallStep

LEMMA ToolBoundedNext ==
    ASSUME ToolInv, ToolBounded, [ToolNext]_toolVars
    PROVE  ToolBounded'
<1>1. workspace \in [version : Nat, edits : Nat, replaced : BOOLEAN] /\ NoCaller \notin Callers
  BY ToolAssumption DEF ToolInv, ToolTyped
<1>2. ASSUME NEW e \in Callers, CallStep(e) PROVE ToolBounded'
  BY <1>1, <1>2, ToolBoundedCall DEF ToolBounded
<1>3. CASE Edit
  <2> DEFINE count == workspace.edits
  <2>1. count \in Nat
    BY <1>1
  <2>2. workspace'.edits = count + 1 /\ count < MaxEdits /\ UNCHANGED <<mutator, tool>>
    BY <1>1, <1>3 DEF Edit
  <2> HIDE DEF count
  <2>3. count + 1 <= MaxEdits
    BY <2>1, <2>2, ToolAssumption
  <2> QED BY <2>2, <2>3 DEF ToolBounded
<1>4. CASE ReplaceRoot \/ UNCHANGED toolVars
  BY <1>1, <1>4 DEF ReplaceRoot, toolVars, ToolBounded
<1> QED BY <1>2, <1>3, <1>4 DEF ToolNext

LEMMA ToolInvTypes == ToolInv /\ ToolBounded => ToolTypeOK
<1> SUFFICES ASSUME ToolInv, ToolBounded PROVE ToolTypeOK
  OBVIOUS
<1>1. workspace.edits \in 0..MaxEdits
  <2> DEFINE count == workspace.edits
  <2>1. count \in Nat /\ count <= MaxEdits
    BY DEF ToolInv, ToolTyped, ToolBounded
  <2> HIDE DEF count
  <2>2. count \in 0..MaxEdits
    BY <2>1, ToolAssumption
  <2> QED BY <2>2 DEF count
<1> QED BY <1>1 DEF ToolInv, ToolTyped, ToolBounded, ToolTypeOK, ToolCall, ToolStatuses, Done, IsAt

LEMMA PolicyInvTypes == PolicyInv => PolicyTypeOK
<1> SUFFICES ASSUME PolicyInv PROVE PolicyTypeOK
  OBVIOUS
<1>1. shell.levels \in Seq(Levels) /\ verdict.phase \in PolicyPhases
  BY DEF PolicyInv, ShellType, VerdictType
<1>2. Len(shell.levels) \in 1..MaxLevels \/ shell.levels = <<>>
  BY <1>1 DEF PolicyInv, LevelsKnown, PolicyPhases
<1>3. MaxLevels \in Nat
  BY PolicyAssumption
<1>4. Len(<<>>) = 0
  OBVIOUS
<1>5. Len(shell.levels) <= MaxLevels
  <2> DEFINE n == Len(shell.levels)
  <2>1. n \in 1..MaxLevels \/ n = 0
    BY <1>2, <1>4
  <2> HIDE DEF n
  <2>2. n <= MaxLevels
    BY <1>3, <2>1
  <2> QED BY <2>2 DEF n
<1> QED BY <1>5 DEF PolicyInv, PolicyTypeOK, VerdictType, PolicyPhases

\* What is found at the root of the repository stays there.
MarkerKnown == repo.marker \in {"none", "directory", "file", "link"}

LEMMA MarkerKnownInit == GitInit => MarkerKnown
  BY DEF GitInit, MarkerKnown

LEMMA MarkerKnownNext == MarkerKnown /\ [GitNext]_gitVars => MarkerKnown'
<1>1. [GitNext]_gitVars => repo' = repo
  BY DEF GitNext, gitVars, Probe, Prepare, LookAtFiles, ListConfig,
     CheckTopLevel, JudgeKeys, ListIndex, BuildArguments, RunGit
<1> QED BY <1>1 DEF MarkerKnown

LEMMA GitInvTypes == GitInv /\ MarkerKnown => GitTypeOK
<1> SUFFICES ASSUME GitInv, MarkerKnown PROVE GitTypeOK
  OBVIOUS
<1>1. RepositoryKind(repo) \in {"directory", "linked-worktree", "absorbed-submodule",
                                "bare", "none", "unsafe"}
  BY DEF RepositoryKind, GitfileKind, MarkerKnown
<1> QED BY <1>1 DEF GitInv, GitTypeOK, GitCallType

LEMMA CommandInvTypes == CommandInv => CommandTypeOK
<1> SUFFICES ASSUME CommandInv PROVE CommandTypeOK
  OBVIOUS
<1>1. /\ call \in CommandCallType /\ (call.result # "none") = (call.pc = "end")
      /\ proc \in [Process -> ProcType] /\ stream \in [Streams -> StreamType]
  BY DEF CommandInv, ProcsInv, StreamsInv, RunnerInv
<1>2. ASSUME NEW s \in Streams
      PROVE  stream[s] \in [written : 0..MaxOutput, unread : 0..MaxOutput, kept : 0..MaxOutput]
  <2> DEFINE a == stream["stdout"].written
             b == stream["stderr"].written
             c == stream[s].written
             u == stream[s].unread
             k == stream[s].kept
  <2>1. s \in {"stdout", "stderr"} /\ "stdout" \in Streams /\ "stderr" \in Streams
    BY <1>2 DEF Streams
  <2>2. /\ a \in Nat /\ b \in Nat /\ c \in Nat /\ u \in Nat /\ k \in Nat
    BY <1>1, <2>1 DEF StreamType
  <2>3. c = a \/ c = b
    BY <2>1
  <2>4. k + u = c /\ a + b <= MaxOutput
    BY <2>1 DEF CommandInv, StreamsInv
  <2>5. stream[s] = [written |-> c, unread |-> u, kept |-> k]
    BY <1>1 DEF StreamType
  <2> HIDE DEF a, b, c, u, k
  <2>6. c \in 0..MaxOutput /\ u \in 0..MaxOutput /\ k \in 0..MaxOutput
    BY <2>2, <2>3, <2>4, CommandAssumption
  <2> QED BY <2>5, <2>6
<1>3. call.late \in 0..2 /\ call.open \subseteq Streams /\ call.events \subseteq Streams
      /\ call.result \in Results /\ call.pc \in CommandSteps
  BY <1>1 DEF CommandCallType
<1> QED BY <1>1, <1>2, <1>3 DEF CommandTypeOK, CommandSteps, ProcType
=============================================================================
