------------------------------ MODULE Commands ------------------------------
(***************************************************************************)
(* _capture_process of pony/tools/subprocess.py and capture_process of     *)
(* windows_process.py: one command, run with a time limit and an output    *)
(* limit.  The command is a leader that may leave a child behind; both     *)
(* hold the two output streams.  POSIX polls the streams in one loop and   *)
(* signals a process group; Windows reads each stream in a thread and      *)
(* kills a job.                                                            *)
(***************************************************************************)
EXTENDS Naturals, FiniteSets

CONSTANTS OutputLimit,  \* bytes kept of a command's output
          MaxOutput     \* bytes the command writes

ASSUME CommandAssumption == OutputLimit \in Nat \ {0} /\ MaxOutput \in Nat

VARIABLES call,     \* the runner
          proc,     \* the processes of the command
          stream    \* what was written to each stream, is unread, is kept

commandVars == <<call, proc, stream>>

Streams == {"stdout", "stderr"}
Process == {"leader", "child"}
Results == {"none", "returned", "overflow", "raised"}

Running(p) == proc[p].state = "running"
HeldOpen(s) == \E p \in Process : Running(p) /\ s \in proc[p].holds
KeptBytes == stream["stdout"].kept + stream["stderr"].kept
Windows == call.backend = "nt"

\* A job contains every descendant; a process group loses those that start a
\* session of their own.
CommandInit ==
    /\ \E backend \in {"posix", "nt"} :
          call = [backend |-> backend, pc |-> "launch", late |-> 0, timedOut |-> FALSE,
                  stopped |-> FALSE, overflow |-> FALSE, exited |-> FALSE,
                  open |-> Streams, events |-> {}, result |-> "none"]
    /\ \E ignores \in [Process -> BOOLEAN], escapes \in BOOLEAN :
          /\ Windows => ~escapes /\ \A p \in Process : ~ignores[p]
          /\ proc = [p \in Process |->
                    [state |-> "unborn", holds |-> {},
                     ignores |-> ignores[p], escapes |-> p = "child" /\ escapes,
                     asked |-> FALSE]]
    /\ stream = [s \in Streams |-> [written |-> 0, unread |-> 0, kept |-> 0]]

-----------------------------------------------------------------------------
(* Starting it.  On Windows the leader is created suspended, put into its   *)
(* job and only then resumed; any of the three can fail.                    *)

Launch ==
    /\ call.pc = "launch"
    /\ \/ /\ proc' = [proc EXCEPT !["leader"].state = "running", !["leader"].holds = Streams]
          /\ call' = [call EXCEPT !.pc = IF Windows THEN "assign" ELSE "loop"]
       \/ /\ call' = [call EXCEPT !.pc = "end", !.result = "raised"]
          /\ UNCHANGED proc
    /\ UNCHANGED stream

AssignOrResume ==
    /\ call.pc \in {"assign", "resume"}
    /\ \E step \in {IF call.pc = "assign" THEN "resume" ELSE "loop", "failing"} :
          call' = [call EXCEPT !.pc = step]
    /\ UNCHANGED <<proc, stream>>

\* The leader runs, and on Windows the threads that read its streams.
Resumed == call.result = "none" /\ call.pc \notin {"launch", "assign", "resume"}

-----------------------------------------------------------------------------
(* The command. *)

Start ==
    /\ Running("leader") /\ proc["child"].state = "unborn"
    /\ proc' = [proc EXCEPT !["child"].state = "running",
                            !["child"].holds = proc["leader"].holds]
    /\ UNCHANGED <<call, stream>>

Output(p, s) ==
    /\ Running(p) /\ s \in proc[p].holds /\ s \in call.open
    /\ stream["stdout"].written + stream["stderr"].written < MaxOutput
    /\ stream' = [stream EXCEPT ![s].written = @ + 1, ![s].unread = @ + 1]
    /\ UNCHANGED <<call, proc>>

Detach(p) ==
    /\ Running(p) /\ proc[p].holds # {}
    /\ proc' = [proc EXCEPT ![p].holds = {}]
    /\ UNCHANGED <<call, stream>>

Dead(targets) == [p \in Process |-> IF p \in targets
                                    THEN [proc[p] EXCEPT !.state = "dead", !.holds = {}]
                                    ELSE proc[p]]

Finish(p) ==
    /\ Running(p)
    /\ proc' = Dead({p})
    /\ UNCHANGED <<call, stream>>

CommandStep ==
    /\ Resumed
    /\ Start \/ \E p \in Process : Finish(p) \/ Detach(p) \/ \E s \in Streams : Output(p, s)

\* The time limit passes; then, on POSIX, the grace given to a command that
\* was asked to stop.
Tick ==
    /\ call.late = 0 \/ (call.late = 1 /\ call.timedOut /\ ~Windows)
    /\ call.result = "none"
    /\ call' = [call EXCEPT !.late = @ + 1]
    /\ UNCHANGED <<proc, stream>>

-----------------------------------------------------------------------------
(* POSIX. *)

InGroup == {p \in Process : Running(p) /\ ~proc[p].escapes}
Obeying(signal) == IF signal = "KILL" THEN InGroup ELSE {p \in InGroup : ~proc[p].ignores}

\* SIGTERM, and the history of who was sent one.
Asked == [p \in Process |-> [Dead(Obeying("TERM"))[p] EXCEPT !.asked = @ \/ p \in InGroup]]

\* The head of the loop.  At the limit the group is asked to stop; after the
\* grace the leader is killed and the streams are closed whoever holds them.
Check ==
    /\ call.pc = "loop" /\ ~Windows
    /\ IF call.open = {} /\ ~Running("leader")
       THEN /\ call' = [call EXCEPT !.pc = "end", !.result = "returned"]
            /\ UNCHANGED proc
       ELSE \/ /\ ~call.timedOut /\ call.late > 0
               /\ call' = [call EXCEPT !.pc = "select", !.timedOut = TRUE]
               /\ proc' = Asked
            \/ /\ call.timedOut /\ call.late = 2 /\ ~call.stopped
               /\ call' = [call EXCEPT !.pc = "select", !.stopped = TRUE, !.open = {}]
               /\ proc' = IF Running("leader") THEN Dead(Obeying("KILL")) ELSE proc
            \/ /\ IF call.timedOut THEN call.late < 2 \/ call.stopped ELSE call.late = 0
               /\ call' = [call EXCEPT !.pc = "select"]
               /\ UNCHANGED proc
    /\ UNCHANGED stream

\* Mutant of Select: a stream somebody holds open is waited for without a time limit.
SelectWithoutLimit ==
    /\ call.pc = "select"
    /\ \A s \in call.open : stream[s].unread > 0 \/ ~HeldOpen(s)
    /\ call' = [call EXCEPT !.pc = "read", !.events = call.open]
    /\ UNCHANGED <<proc, stream>>

Select ==
    /\ call.pc = "select"
    /\ call' = [call EXCEPT !.pc = "read",
                   !.events = {s \in call.open : stream[s].unread > 0 \/ ~HeldOpen(s)}]
    /\ UNCHANGED <<proc, stream>>

\* Mutant of Readable: only as many bytes as fit are read, and none means the end.
ReadableWithin(s) == LET room == OutputLimit - KeptBytes
                     IN  IF stream[s].unread < room THEN stream[s].unread ELSE room

\* One byte more than the limit may be read: that is how it is noticed.
Readable(s) == LET room == OutputLimit - KeptBytes + 1
               IN  IF stream[s].unread < room THEN stream[s].unread ELSE room

Read ==
    /\ call.pc = "read"
    /\ IF call.events = {}
       THEN call' = [call EXCEPT !.pc = "loop"] /\ UNCHANGED stream
       ELSE \E s \in call.events :
               /\ stream' = [stream EXCEPT ![s].unread = @ - Readable(s),
                                           ![s].kept = @ + Readable(s)]
               /\ call' = IF Readable(s) = 0
                          THEN [call EXCEPT !.events = @ \ {s}, !.open = @ \ {s}]
                          ELSE IF KeptBytes + Readable(s) > OutputLimit
                          THEN [call EXCEPT !.pc = "failing", !.overflow = TRUE]
                          ELSE [call EXCEPT !.events = @ \ {s}]
    /\ UNCHANGED proc

\* Too much output, or an exception: the streams are closed and the group is
\* asked to stop, then killed.
Failed == IF call.overflow THEN "overflow" ELSE "raised"

StopCommand ==
    /\ call.pc = "failing" /\ ~Windows
    /\ proc' = Asked
    /\ call' = [call EXCEPT !.pc = IF proc'["leader"].state = "running" THEN "grace" ELSE "end",
                            !.open = {},
                            !.result = IF proc'["leader"].state = "running" THEN @ ELSE Failed]
    /\ UNCHANGED stream

EndGrace ==
    /\ call.pc = "grace"
    /\ proc' = IF Running("leader") THEN Dead(Obeying("KILL")) ELSE proc
    /\ call' = [call EXCEPT !.pc = "end", !.result = Failed]
    /\ UNCHANGED stream

\* The caller is interrupted while it waits for the command.
Interrupt ==
    /\ call.pc \in {"loop", "select", "read", "judge", "join"} /\ call.result = "none"
    /\ call' = [call EXCEPT !.pc = "failing"]
    /\ UNCHANGED <<proc, stream>>

PosixStep == Launch \/ Check \/ Select \/ Read \/ StopCommand \/ EndGrace

-----------------------------------------------------------------------------
(* Windows: a thread per stream, and a loop that watches the leader. *)

ReadStream(s) ==
    /\ Windows /\ Resumed /\ s \in call.open
    /\ stream[s].unread > 0 \/ ~HeldOpen(s)
    /\ IF stream[s].unread = 0
       THEN call' = [call EXCEPT !.open = @ \ {s}] /\ UNCHANGED stream
       ELSE IF KeptBytes + stream[s].unread > OutputLimit
       THEN call' = [call EXCEPT !.open = @ \ {s}, !.overflow = TRUE] /\ UNCHANGED stream
       ELSE /\ stream' = [stream EXCEPT ![s].unread = 0, ![s].kept = @ + stream[s].unread]
            /\ UNCHANGED call
    /\ UNCHANGED proc

WaitLeader ==
    /\ call.pc = "loop" /\ Windows
    /\ call' = [call EXCEPT !.pc = "judge", !.exited = ~Running("leader")]
    /\ UNCHANGED <<proc, stream>>

Everybody == {p \in Process : Running(p)}

Judge ==
    /\ call.pc = "judge"
    /\ LET over == call.overflow
           late == ~over /\ ~call.exited /\ call.late > 0
       IN  IF over \/ call.exited \/ late
           THEN /\ proc' = IF call.exited /\ ~over /\ call.open = {} THEN proc ELSE Dead(Everybody)
                /\ call' = [call EXCEPT !.pc = "join", !.timedOut = late]
           ELSE /\ call' = [call EXCEPT !.pc = "loop"]
                /\ UNCHANGED proc
    /\ UNCHANGED stream

\* Both readers have ended; closing the job kills whatever is left in it.
Join ==
    /\ call.pc = "join" /\ call.open = {}
    /\ proc' = Dead(Everybody)
    /\ call' = [call EXCEPT !.pc = "end", !.result = IF call.overflow THEN "overflow" ELSE "returned"]
    /\ UNCHANGED stream

Abandon ==
    /\ call.pc = "failing" /\ Windows
    /\ proc' = Dead(Everybody)
    /\ call' = [call EXCEPT !.pc = "end", !.open = {}, !.result = "raised"]
    /\ UNCHANGED stream

WindowsStep == AssignOrResume \/ WaitLeader \/ Judge \/ Join \/ Abandon

-----------------------------------------------------------------------------

CommandNext == \/ CommandStep \/ Tick \/ PosixStep \/ WindowsStep \/ Interrupt
               \/ \E s \in Streams : ReadStream(s)

\* Time passes, and the runner and its readers are scheduled.  Nothing is
\* assumed of the command.
CommandFairness ==
    /\ WF_commandVars(Tick)
    /\ WF_commandVars(PosixStep)
    /\ WF_commandVars(WindowsStep)
    /\ \A s \in Streams : WF_commandVars(ReadStream(s))

CommandSpec == CommandInit /\ [][CommandNext]_commandVars /\ CommandFairness

-----------------------------------------------------------------------------
(* Properties. *)

CommandTypeOK ==
    /\ call.pc \in {"launch", "assign", "resume", "loop", "select", "read", "failing", "grace",
                    "judge", "join", "end"}
    /\ call.late \in 0..2 /\ call.open \subseteq Streams /\ call.events \subseteq Streams
    /\ call.result \in Results /\ (call.result # "none" <=> call.pc = "end")
    /\ \A p \in Process : proc[p].state \in {"unborn", "running", "dead"}
    /\ \A s \in Streams : stream[s] \in [written : 0..MaxOutput, unread : 0..MaxOutput,
                                         kept : 0..MaxOutput]

\* A command that is reported as finished in time is reported with all it
\* wrote, and nobody can write more of it; never with more than the limit.
WholeOutput ==
    call.result = "returned" =>
        /\ KeptBytes <= OutputLimit
        /\ ~call.timedOut => \A s \in Streams : stream[s].kept = stream[s].written /\ ~HeldOpen(s)

\* run_process_group never returns, or raises, while its command runs.  What
\* is left on Windows is nothing; on POSIX it is a child that left the group
\* or its streams, ignores SIGTERM, or was started after it.
CommandStopped ==
    call.result # "none" =>
        /\ ~Running("leader")
        /\ Running("child") => /\ ~Windows
                               /\ \/ proc["child"].escapes \/ proc["child"].ignores
                                  \/ ~proc["child"].asked

\* The call has ended; it does, whatever a command and its descendants do.
CommandEnded == call.result # "none"

=============================================================================
