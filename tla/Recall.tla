------------------------------- MODULE Recall -------------------------------
(***************************************************************************)
(* What a turn is given beside the conversation: the chunks of the Context *)
(* Sources (pony/context/sources.py), the notes recalled for it among them *)
(* (pony/memory/recall.py), allocated to a token pool as whole chunks      *)
(* (pony/context/chunks.py) and frozen for all requests of the turn        *)
(* (pony/context/renderer.py).  Notes recalled lately are left out; which  *)
(* ones those are is recorded with every request and forgotten with the    *)
(* task checkpoint that ends a run (pony/state/checkpoint.py).             *)
(***************************************************************************)
EXTENDS Naturals, SequencesExt

CONSTANTS Notes,         \* the notes a query hits
          TopK,          \* notes recalled at most
          SkipTurns,     \* skip_recent_turns
          Pool,          \* tokens for all sources
          SourceCap,     \* tokens for one source
          MaxRequests,   \* requests of one turn
          MaxTurns       \* bound on the turns of a process

ASSUME RecallAssumption ==
    /\ IsFiniteSet(Notes)
    /\ {TopK, SkipTurns, Pool, SourceCap, MaxRequests, MaxTurns} \subseteq Nat

VARIABLES recent,   \* session["recently_recalled"]
          turn,     \* the turn that runs
          given,    \* its allocation
          past      \* what the turns before it recalled

recallVars == <<recent, turn, given, past>>

NoTurn == [pc |-> "idle", recalled |-> {}, requests |-> 0, turns |-> 0]
NothingGiven == [offered |-> <<>>, selected |-> {}, failed |-> FALSE]

RecallInit ==
    /\ recent = <<>>
    /\ turn = NoTurn
    /\ given = NothingGiven
    /\ past = <<>>

LastOf(n, seq) == SubSeq(seq, 1 + (IF Len(seq) > n THEN Len(seq) - n ELSE 0), Len(seq))
AllOf(seq) == UNION {seq[i] : i \in DOMAIN seq}

-----------------------------------------------------------------------------
(* Sources.  A chunk is optional unless said otherwise; of most sources a     *)
(* turn may have nothing, which is a size of 0.                              *)

Chunk(source, key, priority, rank, tokens) ==
    [source |-> source, key |-> key, priority |-> priority, rank |-> rank,
     tokens |-> tokens, required |-> FALSE]
Some(chunk) == IF chunk.tokens = 0 THEN <<>> ELSE <<chunk>>
RequiredChunk(chunk) == [chunk EXCEPT !.required = TRUE]

Sizes == [skill : {0, 2}, recovery : 0..1, checkpoint : 0..2, resumed : BOOLEAN,
          note : 1..2, structure : 1..2, details : 0..1]

ActiveSkill(size) == Some(RequiredChunk(Chunk("active_skill", "skill", 0, 0, size.skill)))

\* Its chunk has no rank of its own: its place in the list stands for it.
RecoveryState(size) ==
    Some(RequiredChunk(Chunk("recovery_state", "recovery", 0, Len(ActiveSkill(size)), size.recovery)))

WorkspaceState ==
    <<Chunk("workspace_state", "identity", 0, 0, 1),
      Chunk("workspace_state", "state-0", 0, 1, 1),
      Chunk("workspace_state", "state-1", 1, 2, 1)>>

\* The checkpoint is required, a goal without one is not.
TaskWorkingSet(size) ==
    LET state == Chunk("task_working_set", "checkpoint-state", 0, 1, size.checkpoint)
    IN  Some(IF size.resumed THEN RequiredChunk(state) ELSE state)
        \o Some(Chunk("task_working_set", "working-details-0", 1, 30, size.details))

RecalledMemory(size, ranked) ==
    [i \in DOMAIN ranked |-> Chunk("recalled_memory", ranked[i], 1, i - 1, size.note)]

ProjectStructure(size) ==
    <<Chunk("project_structure", "project-map-0", 1, 0, size.structure),
      Chunk("project_structure", "project-map-1", 1, 1, 1)>>

MemoryIndex ==
    LET documents == SetToSeq(Notes)
    IN  [i \in DOMAIN documents |-> Chunk("memory_index", documents[i], 2, i - 1, 1)]

\* build_source_chunks: source by source.
BuiltChunks(size, ranked) ==
    ActiveSkill(size) \o RecoveryState(size) \o WorkspaceState \o TaskWorkingSet(size)
    \o RecalledMemory(size, ranked) \o ProjectStructure(size) \o MemoryIndex

-----------------------------------------------------------------------------
(* Allocation *)

\* The order of the allocator: what is required first, then by priority, then
\* by the rank within the source, whatever the source; ties as built.
SameRank(c, d) == c.required = d.required /\ c.priority = d.priority /\ c.rank = d.rank
Outranks(c, d) ==
    \/ c.required /\ ~d.required
    \/ c.required = d.required /\ c.priority < d.priority
    \/ c.required = d.required /\ c.priority = d.priority /\ c.rank < d.rank

Ahead(chunks, i) ==
    {j \in DOMAIN chunks : \/ Outranks(chunks[j], chunks[i])
                           \/ SameRank(chunks[j], chunks[i]) /\ j < i}

\* Mutant of Sorted: the rank of a chunk is not looked at.
SortedByPriority(chunks) ==
    LET before(i) == {j \in DOMAIN chunks :
                        \/ chunks[j].required /\ ~chunks[i].required
                        \/ /\ chunks[j].required = chunks[i].required
                           /\ \/ chunks[j].priority < chunks[i].priority
                              \/ chunks[j].priority = chunks[i].priority /\ j < i}
    IN  [n \in DOMAIN chunks |-> chunks[CHOOSE i \in DOMAIN chunks : Cardinality(before(i)) = n - 1]]

Sorted(chunks) ==
    LET place == [i \in DOMAIN chunks |-> Cardinality(Ahead(chunks, i))]
    IN  [n \in DOMAIN chunks |-> chunks[CHOOSE i \in DOMAIN chunks : place[i] = n - 1]]

\* The tokens of the chunks in S, of one source or of all.
Tokens(offered, S) == MapThenSumSet(LAMBDA i : offered[i].tokens, S)
OfSource(offered, S, source) == {i \in S : offered[i].source = source}

Fits(offered, selected, i) ==
    /\ Tokens(offered, OfSource(offered, selected, offered[i].source)) + offered[i].tokens <= SourceCap
    /\ Tokens(offered, selected) + offered[i].tokens <= Pool

\* allocate_context_chunks: what does not fit is left out as a whole, and the
\* turn fails over a required chunk.
Allocation(offered) ==
    LET selected[n \in 0..Len(offered)] ==
            IF n = 0 THEN {}
            ELSE LET prior == selected[n - 1]
                 IN  prior \cup {i \in {n} : Fits(offered, prior, n)}
        chosen == selected[Len(offered)]
    IN  [offered |-> offered, selected |-> chosen,
         failed |-> \E i \in DOMAIN offered : offered[i].required /\ i \notin chosen]

-----------------------------------------------------------------------------
(* The turns of one process                                                 *)

\* search: a query may hit any notes, the ones its hits link to included, in any
\* order of score.
Hits == SUBSET Notes

\* recall_candidates: the best hits that the last entries do not have.
Candidates == {S \ AllOf(LastOf(SkipTurns, recent)) : S \in Hits}

\* build_injection_snapshot: the paths of the selected notes are remembered.
BeginTurn ==
    /\ turn.pc = "idle" /\ turn.turns < MaxTurns
    /\ \E hits \in {S \in Candidates : Cardinality(S) <= TopK}, size \in Sizes :
        LET allocation == Allocation(Sorted(BuiltChunks(size, SetToSeq(hits))))
            notes == OfSource(allocation.offered, allocation.selected, "recalled_memory")
        IN  /\ given' = allocation
            /\ turn' = [turn EXCEPT !.pc = IF allocation.failed THEN "ending" ELSE "asking",
                                    !.turns = @ + 1,
                                    !.recalled = IF allocation.failed THEN {}
                                                 ELSE {allocation.offered[i].key : i \in notes}]
    /\ UNCHANGED <<recent, past>>

\* Every request of the turn records what it shows.
AskModel ==
    /\ turn.pc = "asking" /\ turn.requests < MaxRequests
    /\ recent' = IF turn.recalled = {} THEN recent
                 ELSE LastOf(SkipTurns + 1, Append(recent, turn.recalled))
    /\ turn' = [turn EXCEPT !.requests = @ + 1]
    /\ UNCHANGED <<given, past>>

\* The run ends; its task checkpoint clears the list, unless it could not be
\* written.
EndTurn ==
    /\ turn.pc = "ending" \/ turn.requests > 0
    /\ turn.pc # "idle"
    /\ \E written \in BOOLEAN : recent' = IF written THEN <<>> ELSE recent
    /\ past' = LastOf(SkipTurns, Append(past, turn.recalled))
    /\ turn' = [turn EXCEPT !.pc = "idle", !.recalled = {}, !.requests = 0]
    /\ given' = NothingGiven

RecallNext == BeginTurn \/ AskModel \/ EndTurn

RecallSpec == RecallInit /\ [][RecallNext]_recallVars

-----------------------------------------------------------------------------
(* Properties *)

RecallTypeOK ==
    /\ recent \in Seq(SUBSET Notes) /\ Len(recent) <= SkipTurns + 1
    /\ turn.recalled \subseteq Notes
    /\ given.selected \subseteq DOMAIN given.offered

\* The context of a turn is within its caps, and a chunk is missing only when it
\* would not fit beside the chunks selected that are ahead of it: nothing of
\* lower rank takes its place, of whatever source, and a turn fails only when its
\* required chunks do not fit by themselves (allocate_context_chunks).
TurnContextFits ==
    LET all == DOMAIN given.offered
        required == {i \in all : given.offered[i].required}
        tokens(S) == Tokens(given.offered, S)
        within(S) == /\ tokens(S) <= Pool
                     /\ \A i \in S : tokens(OfSource(given.offered, S, given.offered[i].source)) <= SourceCap
    IN  /\ within(given.selected)
        /\ given.failed <=> ~within(required)
        /\ \A i \in all \ given.selected :
              ~within((given.selected \cap Ahead(given.offered, i)) \cup {i})

\* A note is not recalled again within the two turns after the one that recalled
\* it (the default contract of recall in docs/memory.md).
RecentNotesSkipped == turn.recalled \cap AllOf(past) = {}

=============================================================================
