------------------------------ MODULE RunRecord -----------------------------
(***************************************************************************)
(* The record one run leaves under .pony/runs/<run_id>: task_state.json,   *)
(* trace.jsonl and report.json, as agent/loop.py writes them through       *)
(* state/run_store.py while the turn goes on, and as                       *)
(* agent/observability.py reads them back.  A record that does not read    *)
(* back is "incomplete" in `pony runs summary`, and one such record makes  *)
(* the whole directory refuse a migration.                                 *)
(*                                                                         *)
(* Of the trace only the events the reader's automaton looks at are kept:  *)
(* the life of each streamed model attempt and of each tool call, and the  *)
(* end of the run.  The raw results the run retains are kept beside them.  *)
(***************************************************************************)
EXTENDS Naturals, SequencesExt

CONSTANTS
    ResultContents,      \* tool results too long for the transcript, by their hash
    MaxRetained,   \* raw results a run retains (MAX_RUN_TOOL_RESULT_FILES)
    MaxRunSteps,   \* agent.max_steps
    MaxCalls,      \* model attempts of the loop (max_attempts)
    MaxAux,        \* calls of the model beside them, to summarise
    MaxRecordFaults      \* writes that fail, foreign appends, and Ctrl+C

ASSUME RunRecordAssumption ==
    {MaxRetained, MaxRunSteps, MaxCalls, MaxAux, MaxRecordFaults} \subseteq Nat

VARIABLES
    run,       \* the run in memory: TaskState, model_execution, the place in the loop
    record,    \* the files: [task, trace, report, raw]
    history    \* ghost: the calls that were carried out, the promises made

recordVars == <<run, record, history>>

NoRecordFile == [present |-> FALSE]

RecordInit ==
    /\ \E stream \in BOOLEAN :
           run = [at |-> "start", stream |-> stream, attempts |-> 0, aux |-> 0,
                  steps |-> 0, malformed |-> 0, status |-> "running", reason |-> "",
                  calls |-> << >>, committed |-> FALSE, tool |-> "", then |-> "",
                  raised |-> FALSE, blocked |-> FALSE, errors |-> 0, faults |-> 0]
    /\ record = [task |-> NoRecordFile, trace |-> << >>, report |-> NoRecordFile, raw |-> {}]
    /\ history = [carriedOut |-> << >>, recoverable |-> {}, swallowed |-> FALSE,
                  cut |-> FALSE]

-----------------------------------------------------------------------------
(* The reader: load_run_artifacts, validate_trace, validate_report. *)

Positions(trace, kinds, number) ==
    {i \in DOMAIN trace : trace[i].event \in kinds /\ trace[i].of = number}

Once(set) == Cardinality(set) = 1

\* Every call started once, then executed or interrupted once, then perhaps
\* finished once as it was executed; no tool event after the end of the run.
ToolLivesWhole(trace) ==
    LET tools == {"tool_started", "tool_executed", "tool_interrupted", "tool_finished"}
    IN  \A i \in DOMAIN trace : trace[i].event \in tools =>
            LET of(kinds) == Positions(trace, kinds, trace[i].of)
                ends      == of({"tool_executed", "tool_interrupted"})
            IN  /\ Once(of({"tool_started"})) /\ Once(ends)
                /\ \A s \in of({"tool_started"}), e \in ends :
                       /\ s < e
                       /\ trace[e].event = "tool_interrupted" <=> trace[e].status = "interrupted"
                       /\ Cardinality(of({"tool_finished"})) <= 1
                       /\ \A f \in of({"tool_finished"}) :
                              /\ e < f /\ trace[e].event = "tool_executed"
                              /\ trace[f].status = trace[e].status
                /\ \A j \in 1..(i - 1) : trace[j].event # "run_finished"

\* A streamed attempt is requested once, decoded at most once, and then ends
\* once, as it was decoded; a success was decoded and had been committed.
StreamLivesWhole(trace) ==
    LET model == {"model_requested", "action_decoded", "model_turn", "model_failed"}
    IN  \A i \in DOMAIN trace : trace[i].event \in model =>
            LET of(kinds) == Positions(trace, kinds, trace[i].of)
                ends      == of({"model_turn", "model_failed"})
            IN  /\ Once(of({"model_requested"})) /\ Once(ends)
                /\ Cardinality(of({"action_decoded"})) <= 1
                /\ \A r \in of({"model_requested"}), e \in ends :
                       /\ r < e /\ ~trace[r].committed
                       /\ \A d \in of({"action_decoded"}) :
                              r < d /\ d < e /\ trace[d].committed = trace[e].committed
                       /\ trace[e].event = "model_turn" =>
                              of({"action_decoded"}) # {} /\ trace[e].committed

ValidTrace(trace) ==
    /\ \A i \in DOMAIN trace : trace[i].event # "torn"
    /\ Once({i \in DOMAIN trace : trace[i].event = "run_finished"})
    /\ ToolLivesWhole(trace)
    /\ StreamLivesWhole(trace)

\* The calls the trace tells of, in their order.
ToldCalls(trace) ==
    FlattenSeq([i \in DOMAIN trace |-> IF trace[i].event \in {"tool_executed", "tool_interrupted"}
                                       THEN <<trace[i].status>> ELSE << >>])

TerminalPairs ==
    {<<"completed", "final_answer_returned">>, <<"stopped", "step_limit_reached">>,
     <<"stopped", "retry_limit_reached">>, <<"stopped", "interrupted">>,
     <<"failed", "model_error">>, <<"failed", "persistence_error">>,
     <<"failed", "runtime_error">>}

\* name_counts and status_counts: the calls as a bag.
SameCounts(s, t) ==
    /\ Len(s) = Len(t)
    /\ \A x \in ToSet(s) : Cardinality({i \in DOMAIN s : s[i] = x})
                           = Cardinality({i \in DOMAIN t : t[i] = x})

ReadsBack(files) ==
    /\ files.report.present /\ files.task.present
    /\ <<files.report.status, files.report.reason>> \in TerminalPairs
    /\ ValidTrace(files.trace)
    /\ files.task.status = files.report.status /\ files.task.reason = files.report.reason
    /\ files.task.attempts = files.report.attempts
    /\ SameCounts(files.report.calls, ToldCalls(files.trace))

-----------------------------------------------------------------------------
(* What the writer's steps are made of. *)

\* A model event is of interest only with the metadata of a stream.
ModelEvent(kind, committed) ==
    IF run.stream
    THEN <<[event |-> kind, of |-> run.attempts, status |-> "", committed |-> committed]>>
    ELSE << >>

ToolEvent(kind, number, status) ==
    <<[event |-> kind, of |-> number, status |-> status, committed |-> FALSE]>>

\* The line of the trace this place of the loop writes.
Line ==
    CASE run.at = "request"      -> ModelEvent("model_requested", FALSE)
      [] run.at = "decoded"      -> ModelEvent("action_decoded", run.committed)
      [] run.at = "turn"         -> ModelEvent("model_turn", run.committed)
      [] run.at = "model failed" -> ModelEvent("model_failed", run.committed)
      [] run.at = "open tool"    -> ToolEvent("tool_started", Len(run.calls) + 1, "")
      [] run.at = "close tool"   -> ToolEvent("tool_executed", Len(run.calls), run.tool)
      [] run.at = "finish tool"  -> ToolEvent("tool_finished", Len(run.calls), run.tool)
      [] run.at = "run finished" -> ToolEvent("run_finished", 0, run.status)
      [] OTHER                   -> << >>

Traced(events) == record' = [record EXCEPT !.trace = @ \o events]

TaskState == [present |-> TRUE, status |-> run.status, reason |-> run.reason,
              attempts |-> run.attempts]

Reaches(place) == run' = [run EXCEPT !.at = place]

StatusFor(reason) ==
    IF reason = "final_answer_returned" THEN "completed"
    ELSE IF reason \in {"step_limit_reached", "retry_limit_reached", "interrupted"}
         THEN "stopped" ELSE "failed"

\* task_state.stop: the run is over, with or without an exception to raise.
Stopped(r, reason, raised) ==
    [r EXCEPT !.at = "terminal message", !.reason = reason, !.status = StatusFor(reason),
              !.raised = raised]

Faulted(r) == [r EXCEPT !.faults = @ + 1]

MayFail == run.faults < MaxRecordFaults

\* append_private_bytes truncates what it could not make durable; when that
\* fails too, or the process dies in it, the line stays, whole or in part.
LeftByAppend ==
    \/ UNCHANGED record
    \/ /\ Line # << >> /\ run'.faults < MaxRecordFaults
       /\ \/ Traced(Line)
          \/ Traced(ToolEvent("torn", 0, ""))

-----------------------------------------------------------------------------
(* The turn: _start_agent_run, _run_agent_attempts and what they call. *)

StartRun ==
    /\ run.at = "start"
    /\ record' = [record EXCEPT !.task = TaskState]
    /\ Reaches("attempt")
    /\ UNCHANGED history

MayAttempt ==
    run.at = "attempt" /\ run.steps < MaxRunSteps /\ run.attempts - run.aux < MaxCalls

\* The budget asks for a compaction, whose own model call counts as an
\* attempt of the run; a compaction that fails ends the turn.
CompactFirst ==
    /\ MayAttempt /\ run.aux < MaxAux
    /\ LET counted == [run EXCEPT !.attempts = @ + 1, !.aux = @ + 1]
       IN  /\ record' = [record EXCEPT !.task = [TaskState EXCEPT !.attempts = counted.attempts]]
           /\ \/ run' = counted
              \/ run' = Stopped(counted, "runtime_error", TRUE)
    /\ UNCHANGED history

\* The loop ends at the limits of the turn, with a message to commit.
EndLoop ==
    /\ run.at = "attempt" /\ ~MayAttempt
    /\ run' = [Stopped(run, IF run.steps < MaxRunSteps THEN "retry_limit_reached"
                            ELSE "step_limit_reached", FALSE) EXCEPT !.at = "commit"]
    /\ UNCHANGED <<record, history>>

\* task_state is written with the attempt counted before the trace asks.
CountAttempt ==
    /\ MayAttempt
    /\ run' = [run EXCEPT !.at = "request", !.attempts = @ + 1, !.committed = FALSE]
    /\ record' = [record EXCEPT !.task = [TaskState EXCEPT !.attempts = run.attempts + 1]]
    /\ UNCHANGED history

TraceRequest ==
    /\ run.at = "request"
    /\ Traced(Line)
    /\ Reaches("guard")
    /\ UNCHANGED history

\* The Session must still be the one the request was built from, before the
\* request is sent and again when it was answered.
CheckSession ==
    /\ run.at \in {"guard", "checked"}
    /\ \/ /\ Reaches(IF run.at = "guard" THEN "model" ELSE "act")
          /\ UNCHANGED history
       \/ /\ MayFail
          /\ run' = [Stopped(Faulted(run), "runtime_error", TRUE) EXCEPT !.blocked = TRUE]
          /\ history' = [history EXCEPT !.cut = @ \/ run.at = "guard"]
    /\ UNCHANGED record

\* The provider fails: retried while the stream showed nothing.
ModelFails ==
    /\ run.at = "model"
    /\ \E committed \in {FALSE, run.stream}, then \in {"retry", "model_error", "interrupted"} :
           /\ then = "retry" => ~committed /\ run.attempts - run.aux < MaxCalls
           /\ then = "interrupted" => MayFail
           /\ run' = [(IF then = "interrupted" THEN Faulted(run) ELSE run)
                          EXCEPT !.at = "model failed", !.committed = committed, !.then = then]
    /\ UNCHANGED <<record, history>>

\* A stream that is answered was committed; the answer may not decode.
ModelAnswers ==
    /\ run.at = "model"
    /\ \/ run' = [run EXCEPT !.at = "decoded", !.committed = run.stream]
       \/ run' = [run EXCEPT !.at = "model failed", !.committed = run.stream,
                             !.then = "runtime_error"]
    /\ UNCHANGED <<record, history>>

TraceAnswer ==
    /\ run.at \in {"decoded", "turn"}
    /\ Traced(Line)
    /\ Reaches(IF run.at = "decoded" THEN "turn" ELSE "checked")
    /\ UNCHANGED history

\* Mutant of TraceFailure: only exceptions, not Ctrl+C, end the attempt in the trace.
TraceException ==
    /\ run.at = "model failed"
    /\ run' = IF run.then = "retry" THEN [run EXCEPT !.at = "attempt"]
              ELSE Stopped(run, run.then, TRUE)
    /\ IF run.then = "interrupted" THEN UNCHANGED record ELSE Traced(Line)
    /\ UNCHANGED history

\* _record_model_failure: that its event cannot be written is only logged.
TraceFailure ==
    /\ run.at = "model failed"
    /\ LET r == IF run.then = "retry" THEN [run EXCEPT !.at = "attempt"]
                ELSE Stopped(run, run.then, TRUE)
       IN  \/ Traced(Line) /\ run' = r /\ UNCHANGED history
           \/ /\ MayFail
              /\ run' = Faulted(r)
              /\ history' = [history EXCEPT !.swallowed = @ \/ run.stream]
              /\ LeftByAppend

\* A final answer, a malformed one (once, and never after a stream), a tool.
Act ==
    /\ run.at = "act"
    /\ \/ run' = [Stopped(run, "final_answer_returned", FALSE) EXCEPT !.at = "commit"]
       \/ IF run.stream \/ run.malformed >= 1
          THEN run' = [Stopped(run, "retry_limit_reached", FALSE) EXCEPT !.at = "commit"]
          ELSE run' = [run EXCEPT !.at = "attempt", !.malformed = @ + 1]
       \/ Reaches("open tool")
    /\ UNCHANGED <<record, history>>

\* finish_success comes after the commit of the answer, the other stops before.
CommitLast ==
    /\ run.at = "commit"
    /\ \/ Reaches("terminal message")
       \/ /\ MayFail
          /\ \E blocked \in BOOLEAN :
                 run' = [Stopped(Faulted(run), "persistence_error", TRUE) EXCEPT !.blocked = blocked]
    /\ UNCHANGED <<record, history>>

OpenTool ==
    /\ run.at = "open tool"
    /\ Traced(Line)
    /\ Reaches("run tool")
    /\ UNCHANGED history

\* Mutant of Counted: every call that returns is taken for one that succeeded.
CountedAsOk(r, status) == [r EXCEPT !.calls = Append(@, "ok"), !.tool = "ok"]

\* The tool report of the run counts the call before anything is written.
Counted(r, status) == [r EXCEPT !.calls = Append(@, status), !.tool = status]

RunTool ==
    /\ run.at = "run tool"
    /\ \E status \in {"ok", "error", "rejected"} :
           /\ run' = [Counted(run, status) EXCEPT !.at = "prepare result"]
           /\ history' = [history EXCEPT !.carriedOut = Append(@, status)]
    /\ UNCHANGED record

\* Ctrl+C inside the runner is told by the executor; as the result returns
\* it is told with the status of that result; before the runner it is not told.
InterruptTool ==
    /\ run.at = "run tool" /\ MayFail
    /\ \/ \E status \in {"interrupted", "ok"} :
              /\ run' = Stopped(Counted(Faulted(run), status), "interrupted", TRUE)
              /\ history' = [history EXCEPT !.carriedOut = Append(@, status),
                                            !.cut = @ \/ status = "ok"]
              /\ Traced(ToolEvent("tool_interrupted", Len(run.calls) + 1, status))
       \/ /\ run' = Stopped(Faulted(run), "interrupted", TRUE)
          /\ history' = [history EXCEPT !.cut = TRUE]
          /\ UNCHANGED record

\* Mutant of MayRetain: one result beyond the limit the reader accepts.
MayRetainOneMore(content) ==
    content \in record.raw \/ Cardinality(record.raw) <= MaxRetained

\* write_tool_result, under the lock: within the limits, and once by content.
MayRetain(content) == content \in record.raw \/ Cardinality(record.raw) < MaxRetained

\* _prepare_tool_result: a long result becomes a preview, recoverable when
\* its text could be retained.
PrepareResult ==
    /\ run.at = "prepare result"
    /\ \/ Reaches("commit tool") /\ UNCHANGED <<record, history>>
       \/ \E content \in ResultContents :
              \/ /\ MayRetain(content)
                 /\ record' = [record EXCEPT !.raw = @ \cup {content}]
                 /\ history' = [history EXCEPT !.recoverable = @ \cup {content}]
                 /\ Reaches("commit tool")
              \/ /\ ~MayRetain(content)
                 /\ Reaches("commit tool")
                 /\ UNCHANGED <<record, history>>
              \/ /\ MayFail
                 /\ run' = [Faulted(run) EXCEPT !.at = "commit tool"]
                 /\ UNCHANGED <<record, history>>

CommitTool ==
    /\ run.at = "commit tool"
    /\ \/ /\ run' = [run EXCEPT !.at = "close tool",
                                !.steps = IF run.tool = "rejected" THEN @ ELSE @ + 1]
          /\ UNCHANGED history
       \/ /\ MayFail
          /\ \E blocked \in BOOLEAN :
                 run' = [Stopped(Faulted(run), "persistence_error", TRUE) EXCEPT !.blocked = blocked]
          /\ history' = [history EXCEPT !.cut = TRUE]
    /\ UNCHANGED record

\* After the events of the call: an effect that could not be observed stops
\* the run, and so does a rejection that one correction did not remove.
CloseTool ==
    /\ run.at = "close tool"
    /\ Traced(Line)
    /\ Reaches("finish tool")
    /\ UNCHANGED history

FinishTool ==
    /\ run.at = "finish tool"
    /\ Traced(Line)
    /\ \/ Reaches("attempt")
       \/ /\ run.tool = "error"
          /\ run' = [Stopped(run, "runtime_error", FALSE) EXCEPT !.at = "commit"]
       \/ /\ run.tool = "rejected"
          /\ run' = [Stopped(run, "retry_limit_reached", FALSE) EXCEPT !.at = "commit"]
    /\ UNCHANGED history

\* A write of the record fails: an exception like any other, but for the
\* events of an answer, which become those of a failed attempt.
WriteFails ==
    /\ MayFail
    /\ run.at \in {"start", "request", "decoded", "turn", "open tool", "close tool", "finish tool"}
    /\ run' = IF run.at \in {"decoded", "turn"}
              THEN [Faulted(run) EXCEPT !.at = "model failed", !.then = "runtime_error"]
              ELSE Stopped(Faulted(run), "runtime_error", TRUE)
    /\ history' = [history EXCEPT !.cut = TRUE]
    /\ LeftByAppend

\* Ctrl+C elsewhere in the turn; what was begun in the trace stays open.
InterruptBetween ==
    /\ MayFail
    /\ run.at \in {"start", "attempt", "request", "guard", "decoded", "turn", "checked", "act",
                   "open tool", "prepare result", "commit tool", "close tool", "finish tool",
                   "commit"}
    /\ run' = Stopped(Faulted(run), "interrupted", TRUE)
    /\ history' = [history EXCEPT !.cut = TRUE]
    /\ UNCHANGED record

-----------------------------------------------------------------------------
(* _finalize_run: every step is tried, and a failure is counted. *)

Finalize(from, to) == run.at = from /\ \/ Reaches(to)
                                       \/ MayFail /\ run' = [Faulted(run) EXCEPT
                                                        !.at = to, !.errors = @ + 1]

CommitTerminalMessage ==
    /\ Finalize("terminal message", "last state")
    /\ run'.errors > run.errors => run.raised /\ ~run.blocked
    /\ UNCHANGED <<record, history>>

WriteLastState ==
    /\ Finalize("last state", "checkpoint")
    /\ record' = IF run'.errors > run.errors THEN record ELSE [record EXCEPT !.task = TaskState]
    /\ UNCHANGED history

\* A checkpoint that fails turns a run without an exception into a failed one.
WriteCheckpoint ==
    /\ run.at = "checkpoint"
    /\ \/ Reaches("run finished") /\ UNCHANGED record
       \/ /\ MayFail /\ ~run.blocked
          /\ LET failed == [Faulted(run) EXCEPT !.at = "run finished", !.errors = @ + 1]
                 told   == [failed EXCEPT !.status = "failed", !.reason = "persistence_error"]
             IN  IF run.raised THEN run' = failed /\ UNCHANGED record
                 ELSE \/ /\ run' = told
                         /\ record' = [record EXCEPT !.task = [TaskState EXCEPT
                                          !.status = told.status, !.reason = told.reason]]
                      \/ /\ told.faults < MaxRecordFaults
                         /\ run' = [Faulted(told) EXCEPT !.errors = @ + 1]
                         /\ UNCHANGED record
    /\ UNCHANGED history

TraceRunFinished ==
    /\ Finalize("run finished", "report")
    /\ IF run'.errors > run.errors THEN LeftByAppend ELSE Traced(Line)
    /\ UNCHANGED history

WriteReport ==
    /\ Finalize("report", "done")
    /\ record' = IF run'.errors > run.errors THEN record
                 ELSE [record EXCEPT !.report =
                          [present |-> TRUE, status |-> run.status, reason |-> run.reason,
                           attempts |-> run.attempts, calls |-> run.calls,
                           complete |-> run.errors = 0]]
    /\ UNCHANGED history

\* The process may die, or be interrupted where nothing catches it.
CrashRun ==
    /\ run.at \notin {"done", "dead"} /\ MayFail
    /\ run' = [Faulted(run) EXCEPT !.at = "dead"]
    /\ LeftByAppend
    /\ UNCHANGED history

-----------------------------------------------------------------------------
RecordNext ==
    \/ StartRun \/ CompactFirst \/ EndLoop \/ CountAttempt \/ TraceRequest
    \/ CheckSession \/ ModelFails \/ ModelAnswers \/ TraceAnswer \/ TraceFailure
    \/ Act \/ CommitLast \/ OpenTool \/ RunTool \/ InterruptTool \/ PrepareResult
    \/ CommitTool \/ CloseTool \/ FinishTool \/ WriteFails \/ InterruptBetween
    \/ CommitTerminalMessage \/ WriteLastState \/ WriteCheckpoint
    \/ TraceRunFinished \/ WriteReport \/ CrashRun

RecordSpec == RecordInit /\ [][RecordNext]_recordVars

-----------------------------------------------------------------------------
RecordTypeOK ==
    /\ run.attempts \in 0..(MaxCalls + MaxAux) /\ run.aux \in 0..MaxAux /\ run.steps \in 0..MaxRunSteps
    /\ run.status \in {"running", "completed", "stopped", "failed"}
    /\ record.raw \subseteq ResultContents
    /\ record.task.present \in BOOLEAN /\ record.report.present \in BOOLEAN
    /\ \A i \in DOMAIN record.trace : record.trace[i].of \in 0..(MaxCalls + MaxAux)

(* A record that reads back tells the truth, at whatever moment it is read *)
(* and whatever failed: every call that was carried out is in it, with its *)
(* outcome and in its order, and every attempt, and how the run ended.     *)
ReadRecordIsTrue ==
    ReadsBack(record) =>
        /\ ToldCalls(record.trace) = history.carriedOut
        /\ record.report.attempts = run.attempts
        /\ record.report.status = run.status /\ record.report.reason = run.reason

(* The record of a run that ended by itself reads back when the report     *)
(* says that nothing failed at its end: an answer, a limit, a provider     *)
(* that failed, and Ctrl+C while the model or a tool was at work.  (Not    *)
(* when the event of a failed streamed attempt could not be written: the   *)
(* code logs that, goes on, and calls the finalization complete.)          *)
OrderlyRecordReads ==
    /\ run.at = "done" /\ record.report.present /\ record.report.complete
    /\ run.reason \notin {"runtime_error", "persistence_error"}
    /\ ~history.cut /\ ~history.swallowed
    => ReadsBack(record)

\* read_tool_result: only of a running run, and only while its directory is
\* within the limits.
CanRecover(content) ==
    run.status = "running" /\ content \in record.raw /\ Cardinality(record.raw) <= MaxRetained

(* A preview that calls its text recoverable keeps that promise as long as *)
(* the run goes on, whatever results are retained after it.                *)
PreviewsRecoverable ==
    run.status = "running" => \A content \in history.recoverable : CanRecover(content)
=============================================================================
