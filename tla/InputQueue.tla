----------------------------- MODULE InputQueue -----------------------------
(***************************************************************************)
(* The interactive interface: the thread that reads the terminal (the      *)
(* plain prompt of cli/start.py or the prompt_toolkit one of tui/app.py)   *)
(* and the worker thread that runs one turn at a time, meeting in the      *)
(* InputQueue of cli/input_queue.py.  A turn may ask the user to approve   *)
(* an operation; the request is answered at the same terminal.             *)
(*                                                                         *)
(* Every section under the queue's lock is one action.  An input is the    *)
(* number of its submission; a request the number of its confirm().        *)
(***************************************************************************)
EXTENDS Naturals, SequencesExt

CONSTANTS
    MaxPending,  \* the length of the queue (MAX_PENDING_INPUTS)
    MaxInputs,   \* inputs the user has accepted into the queue
    MaxAsks,     \* requests for confirmation
    MaxTyped     \* lines the user types

ASSUME InputQueueAssumption ==
    /\ MaxPending \in Nat \ {0}
    /\ {MaxInputs, MaxAsks, MaxTyped} \subseteq Nat

VARIABLES
    inputs,      \* the InputQueue
    worker,      \* pony-input-worker, the one busy stands for
    terminal,    \* the thread of the interface
    told         \* ghost: what was accepted, taken, dropped and granted

inputVars == <<inputs, worker, terminal, told>>

NoRequest == 0

Free == [at |-> "none", input |-> 0, request |-> NoRequest]

InputInit ==
    /\ inputs = [pending |-> << >>, busy |-> FALSE, closing |-> FALSE,
                 terminal |-> FALSE, confirmation |-> NoRequest,
                 answered |-> {}, accepted |-> {}]
    /\ worker = Free
    /\ \E interface \in {"plain", "tui"} :
           terminal = [at |-> "loop", interface |-> interface, typed |-> "",
                       shown |-> NoRequest, woken |-> FALSE, lines |-> 0]
    /\ told = [submitted |-> 0, taken |-> << >>, dropped |-> {}, asked |-> 0,
               yes |-> {}, granted |-> {}, uiFailed |-> FALSE]

Tui == terminal.interface = "tui"

Goes(place) == terminal' = [terminal EXCEPT !.at = place]

Works(place) == worker' = [worker EXCEPT !.at = place]

\* ToSet of pending: what clear, close and _finish throw away.
Dropping == told' = [told EXCEPT !.dropped = @ \cup ToSet(inputs.pending)]

\* The pending confirmation, if any, gets this answer.
Answering(q, accepted) ==
    IF q.confirmation = NoRequest THEN q
    ELSE [q EXCEPT !.confirmation = NoRequest,
                   !.answered = @ \cup {q.confirmation},
                   !.accepted = IF accepted THEN @ \cup {q.confirmation} ELSE @]

-----------------------------------------------------------------------------
(* The thread of the interface. *)

\* A turn that ended the program is seen only between two prompts.
SeeTerminal ==
    /\ terminal.at = "loop"
    /\ Goes(IF inputs.terminal THEN "closing" ELSE "look")
    /\ UNCHANGED <<inputs, worker, told>>

\* What the prompt shows is decided before it is drawn.
ShowPrompt ==
    /\ terminal.at = "look"
    /\ terminal' = [terminal EXCEPT !.at = "prompt", !.woken = FALSE,
                                    !.shown = inputs.confirmation]
    /\ UNCHANGED <<inputs, worker, told>>

TypeLine(line) ==
    /\ terminal.at = "prompt"
    /\ terminal.lines < MaxTyped
    /\ terminal' = [terminal EXCEPT !.at = "route", !.typed = line, !.lines = @ + 1]
    /\ UNCHANGED <<inputs, worker, told>>

EndOfInput ==
    /\ terminal.at = "prompt"
    /\ Goes("closing")
    /\ UNCHANGED <<inputs, worker, told>>

\* Ctrl+C denies what is asked and drops what is queued while a turn runs.
\* Otherwise the plain prompt ends, and the other one waits for a second.
InterruptLoop ==
    /\ terminal.at = "prompt"
    /\ terminal.lines < MaxTyped
    /\ \E second \in BOOLEAN :
           terminal' = [terminal EXCEPT
               !.lines = @ + 1,
               !.at = IF inputs.busy THEN "deny"
                      ELSE IF Tui /\ ~second THEN "loop" ELSE "closing"]
    /\ UNCHANGED <<inputs, worker, told>>

DenyInterrupted ==
    /\ terminal.at = "deny"
    /\ inputs' = Answering(inputs, FALSE)
    /\ Goes("clear")
    /\ UNCHANGED <<worker, told>>

ClearQueue ==
    /\ terminal.at \in {"clear", "clearAndClose"}
    /\ inputs' = [inputs EXCEPT !.pending = << >>]
    /\ Dropping
    /\ Goes(IF terminal.at = "clear" THEN "loop" ELSE "closing")
    /\ UNCHANGED worker

\* on_wake leaves the prompt, so that the confirmation is shown at the next.
LeavePrompt ==
    /\ terminal.at = "prompt" /\ terminal.woken
    /\ Goes("loop")
    /\ UNCHANGED <<inputs, worker, told>>

\* Mutant of RouteLine: a line answers whatever request is pending.
RouteLineUnseen ==
    /\ terminal.at = "route"
    /\ Goes(IF inputs.confirmation = NoRequest THEN "judge" ELSE "answer")
    /\ UNCHANGED <<inputs, worker, told>>

\* _route_repl_input: a request that was not on the screen is not answered.
RouteLine ==
    /\ terminal.at = "route"
    /\ Goes(IF inputs.confirmation = NoRequest THEN "judge"
            ELSE IF terminal.shown # NoRequest THEN "answer" ELSE "loop")
    /\ UNCHANGED <<inputs, worker, told>>

AnswerConfirmation ==
    /\ terminal.at = "answer"
    /\ inputs' = Answering(inputs, terminal.typed = "yes")
    /\ told' = [told EXCEPT !.yes = IF terminal.typed = "yes"
                                    THEN @ \cup {terminal.shown} ELSE @]
    /\ Goes("loop")
    /\ UNCHANGED worker

\* A command of the interface runs in its own thread, never beside a turn.
JudgeLine ==
    /\ terminal.at = "judge"
    /\ \/ terminal.typed \in {"yes", "text"} /\ Goes("submit")
       \/ terminal.typed = "clear" /\ Goes("clear")
       \/ terminal.typed = "exit" /\ Goes(IF inputs.busy THEN "clearAndClose" ELSE "closing")
       \/ terminal.typed = "local" /\ Goes("loop")
    /\ UNCHANGED <<inputs, worker, told>>

\* The verdict of submit, taken under the lock.
SubmitResult(q) ==
    IF q.closing \/ q.terminal THEN "closed"
    ELSE IF ~q.busy THEN "started"
    ELSE IF Len(q.pending) = MaxPending THEN "full" ELSE "queued"

Submit ==
    /\ terminal.at = "submit"
    /\ LET status == SubmitResult(inputs)
           input  == told.submitted + 1
       IN  \/ /\ status \in {"closed", "full"}
              /\ Goes("loop")
              /\ UNCHANGED <<inputs, worker, told>>
           \/ /\ status = "queued" /\ input <= MaxInputs
              /\ inputs' = [inputs EXCEPT !.pending = Append(@, input)]
              /\ told' = [told EXCEPT !.submitted = input]
              /\ Goes("loop")
              /\ UNCHANGED worker
           \/ /\ status = "started" /\ input <= MaxInputs
              /\ inputs' = [inputs EXCEPT !.busy = TRUE]
              /\ told' = [told EXCEPT !.submitted = input]
              /\ Goes("starting")
              /\ UNCHANGED worker
           \/ /\ status \in {"queued", "started"} /\ input > MaxInputs  \* the bound
              /\ Goes("loop")
              /\ UNCHANGED <<inputs, worker, told>>

StartWorker ==
    /\ terminal.at = "starting"
    /\ \/ /\ worker' = [Free EXCEPT !.at = "start", !.input = told.submitted]
          /\ told' = [told EXCEPT !.taken = Append(@, told.submitted)]
          /\ Goes("loop")
          /\ UNCHANGED inputs
       \/ /\ inputs' = [inputs EXCEPT !.busy = FALSE]    \* no thread to be had
          /\ told' = [told EXCEPT !.dropped = @ \cup {told.submitted}]
          /\ Goes("closing")
          /\ UNCHANGED worker

CloseQueue ==
    /\ terminal.at = "closing"
    /\ inputs' = [Answering(inputs, FALSE) EXCEPT !.closing = TRUE, !.pending = << >>]
    /\ Dropping
    /\ Goes("wait")
    /\ UNCHANGED worker

CloseReturns ==
    /\ terminal.at = "wait" /\ ~inputs.busy
    /\ Goes("gone")
    /\ UNCHANGED <<inputs, worker, told>>

-----------------------------------------------------------------------------
(* The worker thread: _run, the turn, and the confirm() the turn calls. *)

\* on_start draws the input; only the full interface can fail in it.
TurnStarts ==
    /\ worker.at = "start"
    /\ \/ Works("turn")
       \/ Tui /\ Works("finish")
    /\ UNCHANGED <<inputs, terminal, told>>

\* Mutant of Confirm: a request after the close, which nobody will answer.
ConfirmAnyTime ==
    /\ worker.at = "turn" /\ told.asked < MaxAsks
    /\ told' = [told EXCEPT !.asked = @ + 1]
    /\ IF inputs.confirmation # NoRequest
       THEN UNCHANGED <<inputs, worker>>
       ELSE /\ inputs' = [inputs EXCEPT !.confirmation = told'.asked]
            /\ worker' = [worker EXCEPT !.at = "ready", !.request = told'.asked]
    /\ UNCHANGED terminal

\* confirm: refused at once when closing or when another one is pending.
Confirm ==
    /\ worker.at = "turn" /\ told.asked < MaxAsks
    /\ told' = [told EXCEPT !.asked = @ + 1]
    /\ IF inputs.closing \/ inputs.confirmation # NoRequest
       THEN UNCHANGED <<inputs, worker>>
       ELSE /\ inputs' = [inputs EXCEPT !.confirmation = told'.asked]
            /\ worker' = [worker EXCEPT !.at = "ready", !.request = told'.asked]
    /\ UNCHANGED terminal

\* on_ready shows the request and on_wake ends the prompt that does not.
UiCall(place) ==
    \/ Works(place) /\ UNCHANGED told
    \/ Tui /\ Works("refuse") /\ told' = [told EXCEPT !.uiFailed = TRUE]

Wakes ==
    IF Tui /\ terminal.at = "prompt"
    THEN terminal' = [terminal EXCEPT !.woken = TRUE] ELSE UNCHANGED terminal

RequestShown ==
    /\ worker.at = "ready"
    /\ UiCall("wake")
    /\ UNCHANGED <<inputs, terminal>>

PromptWoken ==
    /\ worker.at = "wake"
    /\ UiCall("answer")
    /\ IF worker'.at = "answer" THEN Wakes ELSE UNCHANGED terminal
    /\ UNCHANGED inputs

\* A request the interface could not show is denied.
RefuseUnshown ==
    /\ worker.at = "refuse"
    /\ inputs' = Answering(inputs, FALSE)
    /\ Works("turn")
    /\ UNCHANGED <<terminal, told>>

Confirmed ==
    /\ worker.at = "answer" /\ worker.request \in inputs.answered
    /\ told' = [told EXCEPT !.granted =
                   IF worker.request \in inputs.accepted THEN @ \cup {worker.request} ELSE @]
    /\ Works("turn")
    /\ UNCHANGED <<inputs, terminal>>

\* _process returns nothing, or a result, or raises.
TurnEnds ==
    /\ worker.at = "turn"
    /\ \E place \in {"next", "finish"} : Works(place)
    /\ UNCHANGED <<inputs, terminal, told>>

\* Mutant of TakeNext: the worker looks at the queue and says it leaves in two sections.
TakeNextApart ==
    /\ worker.at \in {"next", "leave"}
    /\ IF worker.at = "leave"
       THEN inputs' = [inputs EXCEPT !.busy = FALSE] /\ worker' = Free /\ UNCHANGED told
       ELSE IF inputs.pending = << >> \/ inputs.closing
       THEN Works("leave") /\ UNCHANGED <<inputs, told>>
       ELSE /\ inputs' = [inputs EXCEPT !.pending = Tail(@)]
            /\ worker' = [Free EXCEPT !.at = "start", !.input = Head(inputs.pending)]
            /\ told' = [told EXCEPT !.taken = Append(@, Head(inputs.pending))]
    /\ UNCHANGED terminal

\* One section under the lock: the next input, or no worker any more.
TakeNext ==
    /\ worker.at = "next"
    /\ IF inputs.pending # << >> /\ ~inputs.closing
       THEN /\ inputs' = [inputs EXCEPT !.pending = Tail(@)]
            /\ worker' = [Free EXCEPT !.at = "start", !.input = Head(inputs.pending)]
            /\ told' = [told EXCEPT !.taken = Append(@, Head(inputs.pending))]
       ELSE /\ inputs' = [inputs EXCEPT !.busy = FALSE]
            /\ worker' = Free
            /\ UNCHANGED told
    /\ UNCHANGED terminal

FinishInput ==
    /\ worker.at = "finish"
    /\ inputs' = [inputs EXCEPT !.terminal = TRUE, !.pending = << >>, !.busy = FALSE]
    /\ Dropping
    /\ worker' = Free
    /\ Wakes \/ UNCHANGED terminal
-----------------------------------------------------------------------------
TerminalNext ==
    \/ SeeTerminal \/ ShowPrompt \/ EndOfInput \/ InterruptLoop \/ DenyInterrupted
    \/ ClearQueue \/ LeavePrompt \/ RouteLine \/ AnswerConfirmation
    \/ JudgeLine \/ Submit \/ StartWorker \/ CloseQueue \/ CloseReturns
    \/ \E line \in {"yes", "text", "clear", "exit", "local"} : TypeLine(line)

WorkerNext ==
    \/ TurnStarts \/ Confirm \/ RequestShown \/ PromptWoken \/ RefuseUnshown
    \/ Confirmed \/ TurnEnds \/ TakeNext \/ FinishInput

InputNext == TerminalNext \/ WorkerNext

InputSpec == InputInit /\ [][InputNext]_inputVars

-----------------------------------------------------------------------------
Requests == 1..MaxAsks

InputTypeOK ==
    /\ inputs.pending \in Seq(1..MaxInputs) /\ Len(inputs.pending) <= MaxPending
    /\ {inputs.busy, inputs.closing, inputs.terminal, terminal.woken} \subseteq BOOLEAN
    /\ inputs.confirmation \in {NoRequest} \cup Requests
    /\ inputs.accepted \subseteq inputs.answered /\ inputs.answered \subseteq Requests
    /\ worker.at \in {"none", "start", "turn", "ready", "wake", "refuse", "answer",
                      "next", "finish"}
    /\ terminal.at \in {"loop", "look", "prompt", "route", "judge", "answer", "deny",
                        "clear", "clearAndClose", "submit", "starting", "closing",
                        "wait", "gone"}

(* Every input the queue accepted is taken once, waits, or was dropped by  *)
(* a clear, a close or the end of the program; the turns start in the      *)
(* order the inputs were typed; and an input that waits has a worker that  *)
(* will look at the queue again: the worker leaves and says so in the same *)
(* section in which it found nothing to take.                              *)
InputsKept ==
    LET kept == told.taken \o inputs.pending
    IN  /\ \A i, j \in DOMAIN kept : i < j => kept[i] < kept[j]
        /\ told.dropped \cap ToSet(kept) = {}
        /\ 1..told.submitted = told.dropped \cup ToSet(kept)
                               \cup {i \in {told.submitted} : terminal.at = "starting"}
        /\ inputs.pending # << >> => inputs.busy
        /\ worker.at # "none" => inputs.busy

(* The thread that closes the queue waits for the turn and the turn may    *)
(* wait for an answer only that thread can give: once closing, no request  *)
(* is pending or will be, so a turn that ends lets the program end.        *)
NobodyWaitsClosed ==
    /\ inputs.closing => inputs.confirmation = NoRequest
    /\ terminal.at = "wait" /\ worker.at = "answer" => worker.request \in inputs.answered

(* An operation goes ahead only if the user said yes to that very request, *)
(* the one on the screen: not to an earlier prompt, and not with a line    *)
(* typed before the request was drawn.  (When drawing or waking fails      *)
(* while the request is on the screen, the line is for the next one.)      *)
GrantedAsShown == told.uiFailed \/ told.granted \subseteq told.yes
=============================================================================
