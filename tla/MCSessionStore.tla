--------------------------- MODULE MCSessionStore ---------------------------
(***************************************************************************)
(* Instances of SessionStore for TLC.  The conversation instance leaves    *)
(* out the control operations, to reach histories with several messages,   *)
(* compactions and branches within the bound.                              *)
(***************************************************************************)
EXTENDS SessionClone

ConversationStep(w) ==
    \/ Observe(w)
    \/ \E body \in TurnBodies : AppendMessages(w, body)
    \/ \E kept \in 1..Leaf(log) : Compact(w, kept)
    \/ \E target \in 1..Leaf(log) : Rewind(w, target)
    \/ \E target \in 1..Leaf(log) : RewindWithSummary(w, target)

ConversationSpec ==
    Init /\ [][RepairTail \/ \E w \in Writers : ConversationStep(w)]_vars
=============================================================================
