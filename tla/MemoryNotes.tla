---------------------------- MODULE MemoryNotes ----------------------------
(***************************************************************************)
(* Durable memory: agents append to agent_notes.md under its lock and      *)
(* replace it as a whole (pony/memory/block_store.py), the user edits his  *)
(* notes in place, and a turn works on one snapshot of all of them, which  *)
(* Retrieval keeps while an inventory of the files stays the same          *)
(* (pony/memory/retrieval.py).  Inventory and files are read one by one    *)
(* while others write, and the clock of the file system is coarser than    *)
(* the process's: two writes in one tick have one time stamp.              *)
(***************************************************************************)
EXTENDS Naturals, FiniteSets

CONSTANTS Savers,        \* processes that save agent notes
          Coarse,        \* length of a tick of the file system's clock
          RacyWindow,    \* how long before a scan a file must have been at rest
          MaxTime,       \* bound on the clock
          MaxRewrites    \* bound on the user's edits

ASSUME MemoryAssumption ==
    /\ {Coarse, RacyWindow, MaxTime, MaxRewrites} \subseteq Nat
    /\ 0 < Coarse /\ Coarse <= RacyWindow
    /\ "none" \notin Savers

VARIABLES doc,      \* the files: text, inode, time stamp
          clock,    \* the time, and what was done so far
          saver,    \* each saver: what it read under the lock
          saved,    \* notes whose save returned
          query,    \* the turn that takes a snapshot
          cache     \* the snapshot kept from an earlier turn

memoryVars == <<doc, clock, saver, saved, query, cache>>

\* The user's note is of one size whatever it says.
UserTexts == {"this", "that"}
Documents == {"user", "agent"}
NotesOf == [agent |-> SUBSET Savers, user |-> UserTexts]

Stamp == clock.now - (clock.now % Coarse)
NoCache == [rows |-> <<>>, texts |-> <<>>]
NoQuery == [pc |-> "idle"]
Unread == {"none"}
NoRows == [d \in Documents |-> <<>>]
NoTexts == [d \in Documents |-> IF d = "user" THEN "none" ELSE Unread]

MemoryInit ==
    /\ doc = [d \in Documents |->
                [text |-> IF d = "user" THEN "this" ELSE {}, node |-> 0, stamp |-> 0]]
    /\ clock = [now |-> 0, rewrites |-> 0, nodes |-> 0]
    /\ saver = [s \in Savers |-> Unread]
    /\ saved = {}
    /\ query = NoQuery
    /\ cache = NoCache

Pass ==
    /\ clock.now < MaxTime
    /\ query.pc # "served"
    /\ clock' = [clock EXCEPT !.now = @ + 1]
    /\ UNCHANGED <<doc, saver, saved, query, cache>>

\* Whatever a running query may show from now on.
Seen(d, text) == IF query.pc \in {"idle", "served"} THEN query ELSE [query EXCEPT !.since[d] = @ \cup {text}]

-----------------------------------------------------------------------------
(* Writers *)

\* An editor rewrites the note in place.
Rewrite ==
    /\ clock.rewrites < MaxRewrites
    /\ \E text \in UserTexts \ {doc["user"].text} :
        /\ doc' = [doc EXCEPT !["user"].text = text, !["user"].stamp = Stamp]
        /\ query' = Seen("user", text)
    /\ clock' = [clock EXCEPT !.rewrites = @ + 1]
    /\ UNCHANGED <<saver, saved, cache>>

LockFree == \A s \in Savers : saver[s] = Unread

\* Mutant of ReadNotes: the file is read before the lock is taken.
ReadNotesUnlocked(s) ==
    /\ s \notin saved /\ saver[s] = Unread
    /\ saver' = [saver EXCEPT ![s] = doc["agent"].text]
    /\ UNCHANGED <<doc, clock, saved, query, cache>>

\* append_agent_note reads what is there under the lock.
ReadNotes(s) ==
    /\ s \notin saved /\ LockFree
    /\ saver' = [saver EXCEPT ![s] = doc["agent"].text]
    /\ UNCHANGED <<doc, clock, saved, query, cache>>

\* The file is replaced, and the lock given up.
SaveNote(s) ==
    /\ saver[s] # Unread
    /\ LET notes == saver[s] \cup {s}
       IN  /\ doc' = [doc EXCEPT !["agent"] =
                        [text |-> notes, node |-> clock.nodes + 1, stamp |-> Stamp]]
           /\ query' = Seen("agent", notes)
    /\ clock' = [clock EXCEPT !.nodes = @ + 1]
    /\ saved' = saved \cup {s}
    /\ saver' = [saver EXCEPT ![s] = Unread]
    /\ UNCHANGED cache

\* The result would be too large or hold a secret, or the process dies: nothing
\* is written and the lock is free.
GiveUpSaving(s) ==
    /\ saver[s] # Unread
    /\ saver' = [saver EXCEPT ![s] = Unread]
    /\ UNCHANGED <<doc, clock, saved, query, cache>>

-----------------------------------------------------------------------------
(* Retrieval.snapshot *)

Row(d) == <<doc[d].node, doc[d].stamp>>
Order(d) == IF d = "user" THEN "agent" ELSE "none"

Served(texts) == [pc |-> "served", texts |-> texts, since |-> query.since]

\* The time is taken first.
BeginQuery ==
    /\ query.pc = "idle"
    /\ query' = [pc |-> "inventory", at |-> "user", started |-> clock.now,
                 rows |-> NoRows, again |-> NoRows, texts |-> NoTexts,
                 since |-> [d \in Documents |-> {doc[d].text}]]
    /\ UNCHANGED <<doc, clock, saver, saved, cache>>

\* One row of the first inventory.  After the last one the kept snapshot serves
\* if its inventory was the same.
Inventory ==
    /\ query.pc = "inventory"
    /\ LET d == query.at
           rows == [query.rows EXCEPT ![d] = Row(d)]
           last == Order(d) = "none"
       IN  query' = IF ~last THEN [query EXCEPT !.rows = rows, !.at = Order(d)]
                    ELSE IF cache.rows = rows
                    THEN Served(cache.texts)
                    ELSE [query EXCEPT !.pc = "load", !.rows = rows, !.at = "user"]
    /\ UNCHANGED <<doc, clock, saver, saved, cache>>

\* _load_document
Load ==
    /\ query.pc = "load"
    /\ LET d == query.at
       IN  query' = [query EXCEPT !.texts[d] = doc[d].text,
                                  !.pc = IF Order(d) = "none" THEN "again" ELSE @,
                                  !.at = IF Order(d) = "none" THEN "user" ELSE Order(d)]
    /\ UNCHANGED <<doc, clock, saver, saved, cache>>

\* Mutant of Racy: any snapshot whose inventory stayed the same is kept.
NeverRacy(rows) == FALSE

\* snapshot_signature_is_racy: a file may still change within its time stamp.
Racy(rows) == \E d \in Documents : rows[d][2] + RacyWindow >= query.started

\* The inventory is taken again, and the snapshot is kept if nothing moved.
InventoryAgain ==
    /\ query.pc = "again"
    /\ LET d == query.at
           rows == [query.again EXCEPT ![d] = Row(d)]
           last == Order(d) = "none"
       IN  /\ query' = IF last THEN Served(query.texts)
                       ELSE [query EXCEPT !.again = rows, !.at = Order(d)]
           /\ cache' = IF ~last THEN cache
                       ELSE IF rows = query.rows /\ ~Racy(rows)
                       THEN [rows |-> rows, texts |-> query.texts] ELSE NoCache
    /\ UNCHANGED <<doc, clock, saver, saved>>

EndQuery ==
    /\ query.pc = "served"
    /\ query' = NoQuery
    /\ UNCHANGED <<doc, clock, saver, saved, cache>>

MemoryNext ==
    \/ Pass \/ Rewrite \/ BeginQuery \/ Inventory \/ Load \/ InventoryAgain \/ EndQuery
    \/ \E s \in Savers : ReadNotes(s) \/ SaveNote(s) \/ GiveUpSaving(s)

MemorySpec == MemoryInit /\ [][MemoryNext]_memoryVars

-----------------------------------------------------------------------------
(* Properties *)

MemoryTypeOK ==
    /\ \A d \in Documents : doc[d].text \in NotesOf[d]
    /\ saved \subseteq Savers
    /\ query.pc \in {"idle", "inventory", "load", "again", "served"}

\* A note whose save returned stays in the file, however many processes append
\* to it and wherever one of them dies (append_agent_note).
NotesKept == saved \subseteq doc["agent"].text

\* What a turn is shown of a file was in it at some moment since the turn began:
\* a kept snapshot never hides a change, not even one within a tick of the file
\* system's clock that leaves size, inode and times alone (Retrieval.snapshot).
SnapshotFresh ==
    query.pc = "served" => \A d \in Documents : query.texts[d] \in query.since[d]

=============================================================================
