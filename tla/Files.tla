------------------------------- MODULE Files -------------------------------
(***************************************************************************)
(* One directory as the writers of pony/security see it: names that bind   *)
(* inodes and inodes that hold contents.  A system call either has its     *)
(* effect or fails, a file may be bound by somebody else, and the process  *)
(* may die between any two calls.                                          *)
(***************************************************************************)
EXTENDS Naturals, FiniteSets

CONSTANTS MaxFaults,    \* system calls that may fail in one write
          MaxForeign    \* entries another program may rebind meanwhile

ASSUME FilesAssumption == MaxFaults \in Nat /\ MaxForeign \in Nat

VARIABLES entry,     \* the inode each name binds
          content,   \* what each inode holds
          before,    \* the file before the write: "absent" or "old"
          limit,     \* the failures and foreign changes this write will meet
          budget     \* those of them still to come

files == <<entry, content>>
fixed == <<before, limit>>

\* The file that is written, the writer's temporary file and its copy of the
\* old file, with the inodes it creates for them.
Names == {"path", "temp", "backup"}
Inodes == {"original", "written", "copy", "rebuilt", "foreign"}
NoFile == "none"
Contents == {"old", "new", "other", "part", "empty"}

Links(i) == Cardinality({n \in Names : entry[n] = i})
Held(n) == IF entry[n] = NoFile THEN "absent" ELSE content[entry[n]]

\* os.replace by name, and a call that binds or removes one name.
Renamed(a, b) == [entry EXCEPT ![b] = entry[a], ![a] = NoFile]
Bound(n, i) == [entry EXCEPT ![n] = i]

\* A name is removed only while it still binds the inode the writer created.
Removed(n, i) == IF entry[n] = i THEN Bound(n, NoFile) ELSE entry

Trouble == [faults : 0..MaxFaults, foreign : 0..MaxForeign]
Fault == budget.faults > 0 /\ budget' = [budget EXCEPT !.faults = @ - 1] /\ UNCHANGED fixed
NoFault == UNCHANGED <<before, limit, budget>>
Calm == limit.foreign = 0

FilesTypeOK ==
    /\ entry \in [Names -> Inodes \cup {NoFile}]
    /\ content \in [Inodes -> Contents]
    /\ before \in {"absent", "old"}
    /\ limit \in Trouble /\ budget \in Trouble

\* Every kind of trouble a write may run into, decided at the start.
FilesInit ==
    /\ before \in {"absent", "old"}
    /\ entry = [n \in Names |->
                  IF n = "path" /\ before = "old" THEN "original" ELSE NoFile]
    /\ content = [i \in Inodes |-> CASE i = "original" -> "old"
                                     [] i = "foreign" -> "other"
                                     [] OTHER -> "empty"]
    /\ limit \in Trouble /\ budget = limit

\* Another program puts a file of its own in place of one of these names, or
\* removes it; the callers' lock keeps only Pony's own processes away.
Interfere ==
    /\ budget.foreign > 0
    /\ budget' = [budget EXCEPT !.foreign = @ - 1]
    /\ \E n \in {"path", "backup"}, i \in {"foreign", NoFile} :
        /\ entry[n] # NoFile
        /\ entry' = Bound(n, i)
    /\ UNCHANGED <<content, before, limit>>

\* Another program creates the file where there is none.
Appear ==
    /\ budget.foreign > 0 /\ entry["path"] = NoFile
    /\ budget' = [budget EXCEPT !.foreign = @ - 1]
    /\ entry' = Bound("path", "foreign")
    /\ UNCHANGED <<content, before, limit>>

=============================================================================
