-------------------------- MODULE PreviewCoalescer --------------------------
(***************************************************************************)
(* _PreviewCoalescer of tui/app.py: the worker thread streams a response   *)
(* and submits every longer snapshot of it; the first is drawn at once,    *)
(* then one slot holds the latest and a timer on the event loop of the     *)
(* prompt draws it, at most every tenth of a second.  Each section under   *)
(* the lock of the coalescer is one action, each drawing another.          *)
(***************************************************************************)
EXTENDS Naturals

CONSTANTS MaxStreams,    \* responses that are streamed
          MaxSnapshots   \* snapshots of one response

ASSUME PreviewAssumption == MaxStreams \in Nat /\ MaxSnapshots \in Nat

VARIABLES slot,      \* the coalescer: generation, latest snapshot, flags
          streamer,  \* the worker thread
          flush,     \* the flush that runs on the event loop
          timers,    \* timers on the event loop, by generation
          screen     \* what the prompt shows, and whether it runs

previewVars == <<slot, streamer, flush, timers, screen>>

Generations == 0..2 * MaxStreams
Unset == 0
Empty == [generation |-> 0, active |-> FALSE, first |-> TRUE,
          latest |-> Unset, scheduled |-> FALSE]
Asleep == [at |-> "idle", generation |-> 0, snapshot |-> Unset, drawn |-> FALSE]

PreviewInit ==
    /\ slot = Empty
    /\ streamer = [at |-> "idle", generation |-> 0, snapshot |-> Unset,
                   drawn |-> FALSE, streams |-> 0]
    /\ flush = Asleep
    /\ timers = [g \in Generations |-> 0]
    /\ screen = [stream |-> 0, running |-> TRUE, lost |-> FALSE]

\* The event loop draws for one caller at a time.
LoopIsFree == flush.at = "idle"

\* begin and finish open and close a generation; what is left of the previous
\* one is recognised by its number.
BeginStream ==
    /\ streamer.at = "idle" /\ streamer.streams < MaxStreams
    /\ slot' = [Empty EXCEPT !.generation = slot.generation + 1, !.active = TRUE]
    /\ streamer' = [streamer EXCEPT !.at = "stream", !.streams = @ + 1, !.snapshot = Unset]
    /\ screen' = [screen EXCEPT !.lost = FALSE]
    /\ UNCHANGED <<flush, timers>>

FinishStream ==
    /\ streamer.at = "stream"
    /\ slot' = [slot EXCEPT !.generation = @ + 1, !.active = FALSE,
                            !.latest = Unset, !.scheduled = FALSE]
    /\ streamer' = [streamer EXCEPT !.at = "clear"]
    /\ UNCHANGED <<flush, timers, screen>>

ClearLine ==
    /\ streamer.at = "clear" /\ LoopIsFree
    /\ streamer' = [streamer EXCEPT !.at = "idle"]
    /\ screen' = [screen EXCEPT !.stream = 0]
    /\ UNCHANGED <<slot, flush, timers>>

\* submit: the first snapshot is drawn by its submitter, later ones wait in
\* the slot, and whoever finds no timer scheduled schedules one.
SubmitSnapshot ==
    /\ streamer.at = "stream" /\ streamer.snapshot < MaxSnapshots
    /\ LET snapshot == streamer.snapshot + 1
           place == IF ~slot.active THEN "stream"
                    ELSE IF slot.first THEN "draw"
                    ELSE IF slot.scheduled THEN "stream" ELSE "schedule"
       IN  /\ streamer' = [streamer EXCEPT !.at = place, !.snapshot = snapshot,
                                           !.generation = slot.generation]
           /\ slot' = IF ~slot.active THEN slot
                      ELSE IF slot.first THEN [slot EXCEPT !.first = FALSE]
                      ELSE [slot EXCEPT !.latest = snapshot, !.scheduled = TRUE]
    /\ UNCHANGED <<flush, timers, screen>>

DrawFirst ==
    /\ streamer.at = "draw" /\ LoopIsFree
    /\ \E drawn \in BOOLEAN :
          /\ streamer' = [streamer EXCEPT !.at = "drawn", !.drawn = drawn]
          /\ screen' = [screen EXCEPT !.stream = IF drawn THEN streamer.streams ELSE @]
    /\ UNCHANGED <<slot, flush, timers>>

FirstDrawn ==
    /\ streamer.at = "drawn"
    /\ slot' = IF streamer.generation = slot.generation /\ ~streamer.drawn
               THEN [slot EXCEPT !.active = FALSE] ELSE slot
    /\ streamer' = [streamer EXCEPT !.at = "stream"]
    /\ UNCHANGED <<flush, timers, screen>>

\* _schedule_flush: the prompt that runs takes the timer; when none runs, the
\* preview of this generation is over.
ScheduleFlush(generation) ==
    IF screen.running
    THEN timers' = [timers EXCEPT ![generation] = @ + 1] /\ UNCHANGED slot
    ELSE /\ slot' = IF generation = slot.generation
                    THEN [slot EXCEPT !.active = FALSE, !.latest = Unset, !.scheduled = FALSE]
                    ELSE slot
         /\ UNCHANGED timers

\* The submitter, or the flush that found a new snapshot when it had drawn.
ScheduleTimer ==
    \E timed \in {streamer, flush} :
        /\ timed.at = "schedule"
        /\ ScheduleFlush(timed.generation)
        /\ streamer' = IF timed = streamer THEN [streamer EXCEPT !.at = "stream"] ELSE streamer
        /\ flush' = IF timed = flush THEN Asleep ELSE flush
        /\ UNCHANGED screen

\* Mutant of OfThisStream: any timer is served while a preview is active.
OfAnyStream(generation) == slot.active

\* A flush looks at the slot in one section: a timer of a stream that is over
\* does nothing, one of the present stream takes the latest snapshot.
OfThisStream(generation) == slot.active /\ generation = slot.generation

Serves(generation) == OfThisStream(generation) /\ slot.latest # Unset

StartFlush(generation) ==
    /\ screen.running /\ LoopIsFree /\ timers[generation] > 0
    /\ timers' = [timers EXCEPT ![generation] = @ - 1]
    /\ slot' = IF OfThisStream(generation)
               THEN [slot EXCEPT !.latest = Unset, !.scheduled = FALSE] ELSE slot
    /\ flush' = IF Serves(generation)
                THEN [at |-> "draw", generation |-> generation,
                      snapshot |-> slot.latest, drawn |-> FALSE]
                ELSE Asleep
    /\ UNCHANGED <<streamer, screen>>

DrawLatest ==
    /\ flush.at = "draw"
    /\ \E drawn \in BOOLEAN :
          /\ flush' = [flush EXCEPT !.at = "drawn", !.drawn = drawn]
          /\ screen' = [screen EXCEPT !.stream = IF drawn THEN (flush.generation + 1) \div 2 ELSE @]
    /\ UNCHANGED <<slot, streamer, timers>>

EndFlush ==
    /\ flush.at = "drawn"
    /\ LET again == flush.drawn /\ slot.latest # Unset /\ ~slot.scheduled
       IN  IF OfThisStream(flush.generation)
           THEN /\ slot' = IF ~flush.drawn THEN [slot EXCEPT !.active = FALSE, !.latest = Unset]
                           ELSE [slot EXCEPT !.scheduled = @ \/ again]
                /\ flush' = IF again THEN [flush EXCEPT !.at = "schedule"] ELSE Asleep
           ELSE flush' = Asleep /\ UNCHANGED slot
    /\ UNCHANGED <<streamer, timers, screen>>

\* The user sends a line: the prompt and its event loop end with their
\* timers, and the next prompt starts with a loop of its own.
PromptEnds ==
    /\ screen.running /\ LoopIsFree
    /\ screen' = [screen EXCEPT !.running = FALSE,
                     !.lost = @ \/ timers[slot.generation] > 0]
    /\ timers' = [g \in Generations |-> 0]
    /\ UNCHANGED <<slot, streamer, flush>>

PromptBegins ==
    /\ ~screen.running
    /\ screen' = [screen EXCEPT !.running = TRUE]
    /\ UNCHANGED <<slot, streamer, flush, timers>>

PreviewNext ==
    \/ BeginStream \/ FinishStream \/ ClearLine \/ SubmitSnapshot \/ DrawFirst \/ FirstDrawn
    \/ ScheduleTimer \/ DrawLatest \/ EndFlush \/ PromptEnds \/ PromptBegins
    \/ \E g \in Generations : StartFlush(g)

PreviewSpec == PreviewInit /\ [][PreviewNext]_previewVars

-----------------------------------------------------------------------------
PreviewTypeOK ==
    /\ slot.generation \in Generations /\ slot.latest \in 0..MaxSnapshots
    /\ {slot.active, slot.first, slot.scheduled} \subseteq BOOLEAN
    /\ streamer.at \in {"idle", "stream", "draw", "drawn", "schedule", "clear"}
    /\ flush.at \in {"idle", "draw", "drawn", "schedule"}

\* Once a stream was cleared from the screen none of its previews comes back,
\* and a timer left over from it does not draw for the next.
NoStalePreview ==
    /\ screen.stream # 0 => streamer.at # "idle" /\ screen.stream = streamer.streams
    /\ timers[slot.generation] + (IF streamer.at = "schedule" THEN 1 ELSE 0) <= 1

\* The latest snapshot always has a timer that will draw it, or somebody about
\* to set one, unless the prompt that held the timer ended.
LatestIsDrawn ==
    slot.active /\ slot.latest # Unset =>
        \/ timers[slot.generation] > 0
        \/ streamer.at = "schedule" \/ flush.at = "schedule"
        \/ screen.lost
=============================================================================
