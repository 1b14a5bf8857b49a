----------------------------- MODULE AtomicFile -----------------------------
(***************************************************************************)
(* What an atomic write promises: whoever opens the file finds all of the  *)
(* old or all of the new contents, a write that returned has its contents  *)
(* in place, and a write that raised has changed nothing.  Until it ends   *)
(* the new file may appear and be withdrawn again.                         *)
(***************************************************************************)
VARIABLES before,   \* the file when the write began: "absent" or "old"
          value,    \* the file as it is now
          status    \* writing, or how the write ended

fileVars == <<before, value, status>>

Start == before \in {"absent", "old"} /\ value = before /\ status = "writing"

Install == status = "writing" /\ value' = "new" /\ UNCHANGED <<before, status>>
Withdraw == status = "writing" /\ value' = before /\ UNCHANGED <<before, status>>

Finish(how) ==
    /\ status = "writing"
    /\ CASE how = "returned" -> value = "new"
         [] how = "raised" -> value = before
         [] OTHER -> TRUE
    /\ status' = how
    /\ UNCHANGED <<before, value>>

Step == Install \/ Withdraw \/ \E how \in {"returned", "raised", "ambiguous", "died"} : Finish(how)

AtomicWrite == Start /\ [][Step]_fileVars

=============================================================================
