---------------------------- MODULE SessionClone ----------------------------
(***************************************************************************)
(* Cloning the active branch of a Session into another worktree            *)
(* (SessionStore.clone_to_worktree of pony/state/session_store.py).  The   *)
(* clone is a new file: the messages become one chain, and the newest      *)
(* compaction, the branch summary shown with it and the current checkpoint *)
(* follow them.  Every id is new, so what names an entry is translated.    *)
(***************************************************************************)
EXTENDS SessionStore

\* The place of i among the numbers of S, and the n-th of them.
Rank(S, i) == Cardinality({j \in S : j <= i})
Nth(S, n) == CHOOSE i \in S : Rank(S, i) = n

\* The messages on the active path, in order.
ActiveMessages(tree) == MessagesOn(tree, PathTo(tree, Leaf(tree)))
MessageOrder(tree) ==
    [n \in 1..Cardinality(ActiveMessages(tree)) |-> Nth(ActiveMessages(tree), n)]

BodyOf(entry) == [kind |-> entry.kind, data |-> entry.data]

\* _render_new_tree: the state is stated first, then come the messages.
RenderNewTree(state, bodies) ==
    LET info == Add(<<>>, 0, Info(state.model, state.identity, state.rules))
        restated == RestatePlan(RestatePermissions(info, state), state)
        chain[n \in 0..Len(bodies)] ==
            IF n = 0 THEN restated ELSE Add(chain[n - 1], Leaf(chain[n - 1]), bodies[n])
    IN  chain[Len(bodies)]

\* Where the n-th message of the source is in the clone.
SourceToTarget(source, target) ==
    [i \in ActiveMessages(source) |-> Nth(ActiveMessages(target), Rank(ActiveMessages(source), i))]

\* The newest branch summary that no compaction follows.
NewestBranchSummary(tree) ==
    LET path == PathTo(tree, Leaf(tree))
        unfolded == {i \in path : tree[i].kind = "branch_summary"
                        /\ \A c \in NewestCompaction(tree, Leaf(tree)) : c < i}
    IN  {b \in unfolded : \A c \in unfolded : c <= b}

\* Mutant of CloneCompaction: the kept entry keeps the id it has in the source.
CloneCompactionVerbatim(source, target, position) ==
    LET c == NewestCompaction(source, Leaf(source))
    IN  IF c = {} THEN target
        ELSE Add(target, Leaf(target), BodyOf(source[CHOOSE i \in c : TRUE]))

\* A kept entry that is no message has no counterpart.
CloneCompaction(source, target, position) ==
    LET c == NewestCompaction(source, Leaf(source))
        data == source[CHOOSE i \in c : TRUE].data
        kept == IF data.kept \in DOMAIN position THEN position[data.kept] ELSE 0
    IN  IF c = {} THEN target
        ELSE Add(target, Leaf(target), Compaction(kept, data.summary))

CloneBranchSummary(source, target) ==
    LET b == NewestBranchSummary(source)
        data == source[CHOOSE i \in b : TRUE].data
    IN  IF b = {} THEN target
        ELSE Add(target, Leaf(target), BranchSummary(0, data.summary))

\* The checkpoint goes along without the identity of the runtime.
CloneCheckpoint(source, target) ==
    AddIf(Projection(source).checkpoint # 0, target,
          [kind |-> "task_checkpoint", data |-> [identity |-> None]])

CloneLog(source) ==
    LET state == [Projection(source) EXCEPT !.identity = None, !.checkpoint = 0]
        order == MessageOrder(source)
        copied == RenderNewTree(state, [n \in DOMAIN order |-> BodyOf(source[order[n]])])
        compacted == CloneCompaction(source, copied, SourceToTarget(source, copied))
    IN  CloneCheckpoint(source, CloneBranchSummary(source, compacted))

-----------------------------------------------------------------------------

\* The model goes on in the clone from what it was shown in the source: the
\* same messages verbatim and in their order, the same summaries for the others,
\* and the same mode, rules, plan and binding, whatever was compacted, abandoned
\* or summarised before.  Only the identity of the runtime stays behind.  One
\* thing moves: context_view_from_tree shows the summary of an abandoned branch
\* before the first message after it, and clone_to_worktree appends it behind all
\* messages, so in the clone it is always read last.
CloneKeepsConversation ==
    LET clone == CloneLog(log)
        position == SourceToTarget(log, clone)
        BranchShown(tree) == {tree[b].data.summary : b \in NewestBranchSummary(tree)}
        shown == Shown(log, Leaf(log))
    IN  KeptEntryOnPath =>
            /\ KeptEntryFound(clone, Leaf(clone))
            /\ Shown(clone, Leaf(clone)) = {position[i] : i \in shown}
            /\ \A i, j \in shown : i < j => position[i] < position[j]
            /\ \A i \in shown : BodyOf(clone[position[i]]) = BodyOf(log[i])
            /\ Summarised(clone, Leaf(clone)) = Summarised(log, Leaf(log))
            /\ BranchShown(clone) = BranchShown(log)
            /\ \A b \in NewestBranchSummary(clone), i \in Shown(clone, Leaf(clone)) : i < b
            /\ Controls(Projection(clone)) = Controls(Projection(log))
            /\ Projection(clone).identity = None
=============================================================================
