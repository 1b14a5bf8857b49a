------------------------------ MODULE FileLock ------------------------------
(***************************************************************************)
(* locked_file of pony/state/file_lock.py and windows_file_lock.py: the    *)
(* lock every store assumes.  A party is a thread of some process; threads *)
(* of one process share nothing here, because the bookkeeping is           *)
(* thread-local and each opens the files itself.  A child forked inside    *)
(* the lock inherits its parent's descriptors.                             *)
(***************************************************************************)
EXTENDS Naturals

CONSTANTS Parties,      \* threads that lock one path
          Child,        \* the one that is forked by another
          MaxReplaced   \* times each file of the lock is replaced

Nobody == "nobody"

ASSUME LockAssumption == Child \in Parties /\ Nobody \notin Parties /\ MaxReplaced \in Nat

VARIABLES platform,   \* "posix" or "nt"
          replaced,   \* how often somebody replaced each file of the lock
          bound,      \* the inode bound to the authority and to the lock file
          owner,      \* who holds the flock on each inode
          refs,       \* who holds a descriptor of what each party opened
          party       \* the call of locked_file each party is in

lockVars == <<platform, replaced, bound, owner, refs, party>>

LockFiles == {"authority", "file"}
Inode == 0..(MaxReplaced + 1)
Missing == 0
Waiting == {"authority", "flock"}
Inside == {"held"}
Idle == [pc |-> "idle", before |-> Missing, authority |-> Missing, file |-> Missing]

LockInit ==
    /\ platform \in {"posix", "nt"} /\ replaced = [f \in LockFiles |-> 0]
    /\ \E exists \in BOOLEAN : bound = [authority |-> 1, file |-> IF exists THEN 1 ELSE Missing]
    /\ owner = [f \in LockFiles |-> [i \in Inode |-> Nobody]]
    /\ refs = [p \in Parties |-> {}]
    /\ party = [p \in Parties |-> [Idle EXCEPT !.pc = IF p = Child THEN "unborn" ELSE "idle"]]

Reached(p, step) == party[p].pc = step
Move(p, step) == party' = [party EXCEPT ![p].pc = step]

\* A flock is given up by LOCK_UN on any copy of the descriptor, or when the
\* last copy is closed.
Unlocked(f, p) == [owner EXCEPT ![f] = [i \in Inode |-> IF @[i] = p THEN Nobody ELSE @[i]]]
Freed(p) == [f \in LockFiles |-> [i \in Inode |-> IF owner[f][i] = p THEN Nobody ELSE owner[f][i]]]

\* Every failure closes what was opened and releases the authority.
Fail(p) ==
    /\ owner' = Freed(p)
    /\ refs' = [refs EXCEPT ![p] = {}]
    /\ party' = [party EXCEPT ![p] = Idle]

\* The path is looked at and the authority directory opened, before any lock.
\* Windows has no authority: it opens the file at once, which keeps anybody
\* from replacing it.
Begin(p) ==
    /\ Reached(p, "idle")
    /\ party' = [party EXCEPT ![p].pc = IF platform = "posix" THEN "authority" ELSE "open",
                              ![p].before = bound.file, ![p].authority = bound.authority]
    /\ refs' = [refs EXCEPT ![p] = {p}]
    /\ UNCHANGED <<platform, replaced, bound, owner>>

\* _acquire_authority: the directory locked must still be the authority.
TakeAuthority(p) ==
    /\ Reached(p, "authority")
    /\ owner["authority"][party[p].authority] = Nobody
    /\ IF bound.authority = party[p].authority
       THEN /\ owner' = [owner EXCEPT !["authority"][party[p].authority] = p]
            /\ Move(p, "open") /\ UNCHANGED refs
       ELSE Fail(p)
    /\ UNCHANGED <<platform, replaced, bound>>

\* The lock file is opened, or created; it must be the one looked at before.
OpenLock(p) ==
    /\ Reached(p, "open")
    /\ LET inode == IF bound.file = Missing THEN 1 ELSE bound.file
       IN  IF party[p].before \in {Missing, inode} \/ platform = "nt"
           THEN /\ party' = [party EXCEPT ![p].pc = "flock", ![p].file = inode]
                /\ UNCHANGED <<owner, refs>>
           ELSE Fail(p)
    /\ bound' = [bound EXCEPT !.file = IF @ = Missing THEN 1 ELSE @]
    /\ UNCHANGED <<platform, replaced>>

\* _acquire_flock, then the look at the path that finds a replaced file.
TakeLock(p) ==
    /\ Reached(p, "flock")
    /\ owner["file"][party[p].file] = Nobody
    /\ IF bound.file = party[p].file
       THEN /\ owner' = [owner EXCEPT !["file"][party[p].file] = p]
            /\ Move(p, "held") /\ UNCHANGED refs
       ELSE Fail(p)
    /\ UNCHANGED <<platform, replaced, bound>>

TimeOut(p) ==
    /\ party[p].pc \in Waiting
    /\ Fail(p)
    /\ UNCHANGED <<platform, replaced, bound>>

\* The end of the with-block: unlock the file, close it, unlock the authority.
Leave(p) ==
    /\ Reached(p, "held")
    /\ owner' = Unlocked("file", p)
    /\ Move(p, "leaving")
    /\ UNCHANGED <<platform, replaced, bound, refs>>

ReleaseAuthority(p) ==
    /\ Reached(p, "leaving")
    /\ Fail(p)
    /\ UNCHANGED <<platform, replaced, bound>>

\* A fork inside the block, and the child's end of the block: it closes its
\* copies and, because the lock is not its own, unlocks nothing.
Fork(p) ==
    /\ Reached(p, "held") /\ Reached(Child, "unborn") /\ platform = "posix"
    /\ refs' = [refs EXCEPT ![p] = @ \cup {Child}]
    /\ Move(Child, "inherited")
    /\ UNCHANGED <<platform, replaced, bound, owner>>

\* Mutant of LeaveInherited: a forked child unlocks what it inherited.
LeaveInheritedUnlocking(p) ==
    /\ p = Child /\ Reached(Child, "inherited")
    /\ refs' = [q \in Parties |-> refs[q] \ {Child}]
    /\ owner' = [f \in LockFiles |-> [i \in Inode |->
                    IF \E q \in Parties : owner[f][i] = q /\ Child \in refs[q]
                    THEN Nobody ELSE owner[f][i]]]
    /\ party' = [party EXCEPT ![Child] = Idle]
    /\ UNCHANGED <<platform, replaced, bound>>

LeaveInherited(p) ==
    /\ p = Child /\ Reached(Child, "inherited")
    /\ refs' = [q \in Parties |-> refs[q] \ {Child}]
    /\ owner' = [f \in LockFiles |-> [i \in Inode |->
                    IF \E q \in Parties : owner[f][i] = q /\ refs[q] = {Child}
                    THEN Nobody ELSE owner[f][i]]]
    /\ party' = [party EXCEPT ![Child] = Idle]
    /\ UNCHANGED <<platform, replaced, bound>>

\* A process ends: the kernel closes its descriptors.
Exit(p) ==
    /\ party[p].pc \notin {"unborn", "dead", "inherited"}
    /\ refs' = [refs EXCEPT ![p] = @ \ {p}]
    /\ owner' = IF refs[p] \subseteq {p} THEN Freed(p) ELSE owner
    /\ party' = [party EXCEPT ![p] = [Idle EXCEPT !.pc = "dead"]]
    /\ UNCHANGED <<platform, replaced, bound>>

\* Somebody replaces the lock file or cleans up the authority directory.
Replace(f) ==
    /\ bound[f] # Missing
    /\ replaced[f] < MaxReplaced
    /\ replaced' = [replaced EXCEPT ![f] = @ + 1]
    /\ platform = "nt" => \A p \in Parties : party[p].file = Missing
    /\ bound' = [bound EXCEPT ![f] = @ + 1]
    /\ UNCHANGED <<platform, owner, refs, party>>

LockStep(p) ==
    \/ Begin(p) \/ TakeAuthority(p) \/ OpenLock(p) \/ TakeLock(p) \/ TimeOut(p)
    \/ Leave(p) \/ ReleaseAuthority(p) \/ Fork(p) \/ LeaveInherited(p) \/ Exit(p)

LockNext == \/ \E p \in Parties : LockStep(p)
            \/ \E f \in LockFiles : Replace(f)

LockSpec == LockInit /\ [][LockNext]_lockVars

-----------------------------------------------------------------------------
(* Properties. *)

LockTypeOK ==
    /\ platform \in {"posix", "nt"} /\ replaced \in [LockFiles -> 0..MaxReplaced]
    /\ bound \in [authority : Inode, file : Inode]
    /\ owner \in [LockFiles -> [Inode -> Parties \cup {Nobody}]]
    /\ refs \in [Parties -> SUBSET Parties]
    /\ party \in [Parties -> [pc : {"unborn", "idle", "authority", "open", "flock", "held",
                                    "leaving", "inherited", "dead"},
                              before : Inode, authority : Inode, file : Inode]]

\* locked_file excludes: threads, processes and forked children are never
\* inside together, unless both of its files have been replaced.
LockExcludes ==
    (\E f \in LockFiles : replaced[f] = 0) =>
        \A p, q \in Parties : party[p].pc \in Inside /\ party[q].pc \in Inside => p = q

\* No lock outlives its holder, unless a forked child still has the files open.
NoLockLeaks ==
    \A f \in LockFiles, i \in Inode :
        LET p == owner[f][i]
        IN  p # Nobody => party[p].pc \in {"open", "flock", "held", "leaving"}
                          \/ (Reached(p, "dead") /\ refs[p] # {})

=============================================================================
