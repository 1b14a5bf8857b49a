----------------------------- MODULE FilesProofs ----------------------------
(*****************************************************************************)
(* The lock files and the files that are replaced: mutual exclusion of       *)
(* locked_file for any number of threads and processes, and what the atomic  *)
(* writers keep for any number of failing calls and of files that other      *)
(* programs put in the way.  And the migrations of files: that of a Session  *)
(* loses no turn, and that of the run artifacts no run, for any number of    *)
(* edits by other programs and of attempts that raise or are killed.         *)
(*****************************************************************************)
EXTENDS FileLock, WorkspaceWrite, PrivateWrite, WindowsWrite, SessionMigration, ArtifactMigration,
        FiniteSetTheorems, TLAPS

-----------------------------------------------------------------------------
(* locked_file of pony/state/file_lock.py.                                  *)

\* Past the authority a party of a POSIX system holds the flock on it.
BehindAuthority == {"open", "flock", "held"}
Open == {"authority", "open", "flock", "held", "leaving"}

\* An inode of a party is one its path was bound to; as long as a file was not
\* replaced there is only one.
InodesKnown ==
    /\ bound.authority = replaced["authority"] + 1
    /\ bound.file \in {Missing, replaced["file"] + 1}
    /\ replaced["file"] > 0 => bound.file # Missing
    /\ \A p \in Parties :
          /\ party[p].pc \in Open /\ replaced["authority"] = 0 => party[p].authority = 1
          /\ party[p].pc \in {"flock", "held", "leaving"} =>
                /\ party[p].file # Missing /\ bound.file # Missing
                /\ replaced["file"] = 0 => party[p].file = 1
                /\ platform = "nt" => party[p].file = bound.file

\* Who is inside owns what it waited for, with a descriptor of its own.
HoldersOwn ==
    \A p \in Parties :
        /\ party[p].pc \in Open => p \in refs[p]
        /\ party[p].pc \in BehindAuthority /\ platform = "posix" =>
              owner["authority"][party[p].authority] = p
        /\ party[p].pc = "held" => owner["file"][party[p].file] = p

LockInv == LockTypeOK /\ InodesKnown /\ HoldersOwn

LEMMA MissingIsInode == Missing \in Inode
  BY LockAssumption DEF Missing, Inode

LEMMA LockInvInit == LockInit => LockInv
<1> SUFFICES ASSUME LockInit PROVE LockInv
  OBVIOUS
<1>1. PICK exists \in BOOLEAN : bound = [authority |-> 1, file |-> IF exists THEN 1 ELSE Missing]
  BY DEF LockInit
<1>2. LockTypeOK
  BY <1>1, LockAssumption DEF LockInit, LockTypeOK, LockFiles, Inode, Missing, Idle
<1>3. InodesKnown /\ HoldersOwn
  BY <1>1 DEF LockInit, InodesKnown, HoldersOwn, LockFiles, Missing, Idle, Open, BehindAuthority
<1> QED BY <1>2, <1>3 DEF LockInv

\* A failure or an ordinary end takes one party out and touches nobody else.
LEMMA FailPreserves ==
  ASSUME LockInv, NEW p \in Parties, Fail(p), UNCHANGED <<platform, replaced, bound>>
  PROVE  LockInv'
<1> USE DEF LockInv
<1>1. LockTypeOK'
  <2>1. owner' \in [LockFiles -> [Inode -> Parties \cup {Nobody}]]
    BY DEF LockTypeOK, Fail, Freed
  <2>2. refs' \in [Parties -> SUBSET Parties]
    BY DEF LockTypeOK, Fail
  <2> QED BY <2>1, <2>2, MissingIsInode DEF LockTypeOK, Fail, Idle
<1>2. /\ \A q \in Parties \ {p} : party'[q] = party[q] /\ refs'[q] = refs[q]
      /\ party'[p].pc = "idle"
      /\ \A q \in Parties \ {p}, f \in LockFiles, i \in Inode : owner[f][i] = q => owner'[f][i] = q
  BY DEF LockTypeOK, Fail, Freed, Idle
<1>3. InodesKnown'
  BY <1>2 DEF InodesKnown, Open
<1>4. HoldersOwn'
  BY <1>2 DEF HoldersOwn, Open, BehindAuthority, LockFiles, LockTypeOK
<1> QED BY <1>1, <1>3, <1>4

LEMMA BeginPreserves ==
  ASSUME LockInv, NEW p \in Parties, Begin(p)
  PROVE  LockInv'
<1> USE DEF LockInv
<1>1. LockTypeOK'
  <2>1. refs' \in [Parties -> SUBSET Parties]
    BY DEF LockTypeOK, Begin
  <2>2. party' = [party EXCEPT ![p] = [party[p] EXCEPT
                    !.pc = IF platform = "posix" THEN "authority" ELSE "open",
                    !.before = bound.file, !.authority = bound.authority]]
    BY DEF LockTypeOK, Begin
  <2> QED BY <2>1, <2>2 DEF LockTypeOK, Begin
<1>2. /\ \A q \in Parties \ {p} : party'[q] = party[q] /\ refs'[q] = refs[q]
      /\ party'[p].pc = IF platform = "posix" THEN "authority" ELSE "open"
      /\ party'[p].authority = bound.authority
      /\ refs'[p] = {p}
      /\ UNCHANGED <<platform, replaced, bound, owner>>
  BY DEF LockTypeOK, Begin
<1>3. InodesKnown'
  BY <1>2, LockAssumption DEF InodesKnown, Open, LockTypeOK, LockFiles
<1>4. HoldersOwn'
  BY <1>2 DEF HoldersOwn, Open, BehindAuthority, LockTypeOK
<1> QED BY <1>1, <1>3, <1>4

LEMMA TakeAuthorityPreserves ==
  ASSUME LockInv, NEW p \in Parties, TakeAuthority(p)
  PROVE  LockInv'
<1> USE DEF LockInv
<1>1. CASE bound.authority # party[p].authority
  BY <1>1, FailPreserves DEF TakeAuthority
<1>2. CASE bound.authority = party[p].authority
  <2>1. LockTypeOK'
    <3>1. owner' = [owner EXCEPT !["authority"] = [owner["authority"] EXCEPT ![party[p].authority] = p]]
      BY <1>2 DEF LockTypeOK, TakeAuthority
    <3>2. owner' \in [LockFiles -> [Inode -> Parties \cup {Nobody}]]
      BY <3>1 DEF LockTypeOK, LockFiles
    <3>3. party' \in [Parties -> [pc : {"unborn", "idle", "authority", "open", "flock",
                                        "held", "leaving", "inherited", "dead"},
                                  before : Inode, authority : Inode, file : Inode]]
      <4>1. party' = [party EXCEPT ![p].pc = "open"]
        BY <1>2 DEF TakeAuthority, Move
      <4> QED BY <4>1 DEF LockTypeOK
    <3> QED BY <1>2, <3>2, <3>3 DEF LockTypeOK, TakeAuthority
  <2>2. /\ \A q \in Parties \ {p} : party'[q] = party[q]
        /\ party[p].pc = "authority" /\ party'[p].pc = "open"
        /\ party'[p].authority = party[p].authority /\ party'[p].file = party[p].file
        /\ owner'["authority"][party[p].authority] = p
        /\ \A f \in LockFiles, i \in Inode :
              owner[f][i] # Nobody => owner'[f][i] = owner[f][i]
        /\ UNCHANGED <<platform, replaced, bound, refs>>
    BY <1>2 DEF LockTypeOK, TakeAuthority, Move, Reached, LockFiles
  <2>3. InodesKnown'
    BY <2>2 DEF InodesKnown, Open
  <2>4. HoldersOwn'
    BY <2>2, LockAssumption DEF HoldersOwn, Open, BehindAuthority, LockFiles, LockTypeOK
  <2> QED BY <2>1, <2>3, <2>4
<1> QED BY <1>1, <1>2

LEMMA OpenLockPreserves ==
  ASSUME LockInv, NEW p \in Parties, OpenLock(p)
  PROVE  LockInv'
<1> USE DEF LockInv
<1> DEFINE inode == IF bound.file = Missing THEN 1 ELSE bound.file
           opens == party[p].before \in {Missing, inode} \/ platform = "nt"
<1>1. /\ inode \in Inode \ {Missing}
      /\ replaced["file"] = 0 => inode = 1
  BY LockAssumption DEF LockTypeOK, InodesKnown, Inode, Missing, LockFiles
<1>2. /\ bound' = [bound EXCEPT !.file = inode]
      /\ bound'.authority = bound.authority /\ bound'.file = inode
      /\ UNCHANGED <<platform, replaced>>
  BY DEF OpenLock, LockTypeOK
<1>3. CASE opens
  <2>1. LockTypeOK'
    BY <1>1, <1>2, <1>3, SMTT(30) DEF OpenLock, LockTypeOK
  <2>2. /\ \A q \in Parties \ {p} : party'[q] = party[q]
        /\ party[p].pc = "open" /\ party'[p].pc = "flock"
        /\ party'[p].authority = party[p].authority /\ party'[p].file = inode
        /\ UNCHANGED <<owner, refs>>
    BY <1>3 DEF LockTypeOK, OpenLock, Reached
  <2>3. InodesKnown'
    BY <1>1, <1>2, <2>2, LockAssumption DEF InodesKnown, Open, Missing, LockTypeOK, LockFiles
  <2>4. HoldersOwn'
    BY <1>2, <2>2 DEF HoldersOwn, Open, BehindAuthority
  <2> QED BY <2>1, <2>3, <2>4
<1>4. CASE ~opens
  <2>1. Fail(p)
    BY <1>4 DEF OpenLock
  <2>2. LockTypeOK'
    <3>1. owner' \in [LockFiles -> [Inode -> Parties \cup {Nobody}]]
      BY <2>1 DEF LockTypeOK, Fail, Freed
    <3>2. refs' \in [Parties -> SUBSET Parties]
      BY <2>1 DEF LockTypeOK, Fail
    <3> QED BY <1>1, <1>2, <2>1, <3>1, <3>2, MissingIsInode DEF LockTypeOK, Fail, Idle
  <2>3. /\ \A q \in Parties \ {p} : party'[q] = party[q] /\ refs'[q] = refs[q]
        /\ party'[p].pc = "idle"
        /\ \A q \in Parties \ {p}, f \in LockFiles, i \in Inode :
              owner[f][i] = q => owner'[f][i] = q
    BY <2>1 DEF LockTypeOK, Fail, Freed, Idle
  <2>4. InodesKnown'
    BY <1>1, <1>2, <2>3, LockAssumption DEF InodesKnown, Open, Missing, LockTypeOK, LockFiles
  <2>5. HoldersOwn'
    BY <1>2, <2>3 DEF HoldersOwn, Open, BehindAuthority, LockFiles, LockTypeOK
  <2> QED BY <2>2, <2>4, <2>5
<1> QED BY <1>3, <1>4

LEMMA TakeLockPreserves ==
  ASSUME LockInv, NEW p \in Parties, TakeLock(p)
  PROVE  LockInv'
<1> USE DEF LockInv
<1>1. CASE bound.file # party[p].file
  BY <1>1, FailPreserves DEF TakeLock
<1>2. CASE bound.file = party[p].file
  <2>1. LockTypeOK'
    <3>1. owner' = [owner EXCEPT !["file"] = [owner["file"] EXCEPT ![party[p].file] = p]]
      BY <1>2 DEF LockTypeOK, TakeLock
    <3>2. owner' \in [LockFiles -> [Inode -> Parties \cup {Nobody}]]
      BY <3>1 DEF LockTypeOK, LockFiles
    <3>3. party' \in [Parties -> [pc : {"unborn", "idle", "authority", "open", "flock",
                                        "held", "leaving", "inherited", "dead"},
                                  before : Inode, authority : Inode, file : Inode]]
      <4>1. party' = [party EXCEPT ![p].pc = "held"]
        BY <1>2 DEF TakeLock, Move
      <4> QED BY <4>1 DEF LockTypeOK
    <3> QED BY <1>2, <3>2, <3>3 DEF LockTypeOK, TakeLock
  <2>2. /\ \A q \in Parties \ {p} : party'[q] = party[q]
        /\ party[p].pc = "flock" /\ party'[p].pc = "held"
        /\ party'[p].authority = party[p].authority /\ party'[p].file = party[p].file
        /\ owner'["file"][party[p].file] = p
        /\ \A f \in LockFiles, i \in Inode :
              owner[f][i] # Nobody => owner'[f][i] = owner[f][i]
        /\ UNCHANGED <<platform, replaced, bound, refs>>
    BY <1>2 DEF LockTypeOK, TakeLock, Move, Reached, LockFiles
  <2>3. InodesKnown'
    BY <2>2 DEF InodesKnown, Open
  <2>4. HoldersOwn'
    BY <2>2, LockAssumption DEF HoldersOwn, Open, BehindAuthority, LockFiles, LockTypeOK
  <2> QED BY <2>1, <2>3, <2>4
<1> QED BY <1>1, <1>2

LEMMA LeavePreserves ==
  ASSUME LockInv, NEW p \in Parties, Leave(p)
  PROVE  LockInv'
<1> USE DEF LockInv
<1>1. LockTypeOK'
  BY DEF LockTypeOK, Leave, Move, Unlocked, LockFiles
<1>2. /\ \A q \in Parties \ {p} : party'[q] = party[q]
      /\ party[p].pc = "held" /\ party'[p].pc = "leaving"
      /\ party'[p].authority = party[p].authority /\ party'[p].file = party[p].file
      /\ \A q \in Parties \ {p}, f \in LockFiles, i \in Inode : owner[f][i] = q => owner'[f][i] = q
      /\ UNCHANGED <<platform, replaced, bound, refs>>
  BY DEF LockTypeOK, Leave, Move, Reached, Unlocked, LockFiles
<1>3. InodesKnown'
  BY <1>2 DEF InodesKnown, Open
<1>4. HoldersOwn'
  BY <1>2 DEF HoldersOwn, Open, BehindAuthority, LockFiles, LockTypeOK
<1> QED BY <1>1, <1>3, <1>4

LEMMA ForkPreserves ==
  ASSUME LockInv, NEW p \in Parties, Fork(p)
  PROVE  LockInv'
<1> USE DEF LockInv
<1>1. LockTypeOK'
  BY LockAssumption DEF LockTypeOK, Fork, Move
<1>2. /\ \A q \in Parties \ {Child} : party'[q] = party[q]
      /\ party'[Child].pc = "inherited"
      /\ \A q \in Parties : refs[q] \subseteq refs'[q]
      /\ UNCHANGED <<platform, replaced, bound, owner>>
  BY LockAssumption DEF LockTypeOK, Fork, Move
<1>3. InodesKnown'
  BY <1>2 DEF InodesKnown, Open
<1>4. HoldersOwn'
  BY <1>2 DEF HoldersOwn, Open, BehindAuthority
<1> QED BY <1>1, <1>3, <1>4

\* The child closes its copies: who is inside has one of his own, so the
\* kernel unlocks only what dead holders left to the child.
LEMMA LeaveInheritedPreserves ==
  ASSUME LockInv, NEW p \in Parties, LeaveInherited(p)
  PROVE  LockInv'
<1> USE DEF LockInv
<1>1. LockTypeOK'
  BY LockAssumption DEF LockTypeOK, LeaveInherited, Idle, Missing, Inode
<1>2. /\ \A q \in Parties \ {Child} : party'[q] = party[q] /\ (q \in refs[q] => q \in refs'[q])
      /\ party[Child].pc = "inherited" /\ party'[Child].pc = "idle"
      /\ \A q \in Parties \ {Child}, f \in LockFiles, i \in Inode :
            owner[f][i] = q /\ q \in refs[q] => owner'[f][i] = q
      /\ UNCHANGED <<platform, replaced, bound>>
  <2>1. \A q \in Parties \ {Child}, f \in LockFiles, i \in Inode :
           owner[f][i] = q /\ q \in refs[q] => owner'[f][i] = q
    BY DEF LockTypeOK, LeaveInherited
  <2> QED BY <2>1, LockAssumption DEF LockTypeOK, LeaveInherited, Reached, Idle
<1>3. InodesKnown'
  BY <1>2 DEF InodesKnown, Open
<1>4. HoldersOwn'
  BY <1>2 DEF HoldersOwn, Open, BehindAuthority, LockFiles, LockTypeOK
<1> QED BY <1>1, <1>3, <1>4

LEMMA ExitPreserves ==
  ASSUME LockInv, NEW p \in Parties, Exit(p)
  PROVE  LockInv'
<1> USE DEF LockInv
<1>1. LockTypeOK'
  BY LockAssumption, SMTT(30) DEF LockTypeOK, Exit, Freed, Idle, Missing, Inode
<1>2. /\ \A q \in Parties \ {p} : party'[q] = party[q] /\ refs'[q] = refs[q]
      /\ party'[p].pc = "dead"
      /\ \A q \in Parties \ {p}, f \in LockFiles, i \in Inode : owner[f][i] = q => owner'[f][i] = q
      /\ UNCHANGED <<platform, replaced, bound>>
  BY DEF LockTypeOK, Exit, Freed, Idle
<1>3. InodesKnown'
  BY <1>2 DEF InodesKnown, Open
<1>4. HoldersOwn'
  BY <1>2 DEF HoldersOwn, Open, BehindAuthority, LockFiles, LockTypeOK
<1> QED BY <1>1, <1>3, <1>4

\* On Windows a lock file that somebody has open cannot be replaced.
LEMMA ReplacePreserves ==
  ASSUME LockInv, NEW f \in LockFiles, Replace(f)
  PROVE  LockInv'
<1> USE DEF LockInv
<1>1. /\ replaced[f] \in 0..MaxReplaced /\ replaced[f] < MaxReplaced
      /\ replaced' = [replaced EXCEPT ![f] = @ + 1]
      /\ UNCHANGED <<platform, owner, refs, party>>
  BY DEF Replace, LockTypeOK
<1>2. CASE f = "authority"
  <2>1. bound'.authority = bound.authority + 1 /\ bound'.file = bound.file
    BY <1>2 DEF Replace, LockTypeOK
  <2>2. /\ replaced'["authority"] = replaced["authority"] + 1
        /\ replaced'["file"] = replaced["file"]
    BY <1>1, <1>2 DEF LockTypeOK, LockFiles
  <2>3. bound' \in [authority : Inode, file : Inode]
    BY <1>1, <1>2, <2>1, LockAssumption DEF Replace, LockTypeOK, InodesKnown, Inode
  <2>4. LockTypeOK'
    BY <1>1, <2>3, LockAssumption DEF LockTypeOK
  <2>5. InodesKnown'
    BY <1>1, <1>2, <2>1, <2>2, LockAssumption DEF InodesKnown, LockTypeOK
  <2> QED BY <1>1, <2>4, <2>5 DEF HoldersOwn
<1>3. CASE f = "file"
  <2>1. /\ bound.file # Missing
        /\ bound'.authority = bound.authority /\ bound'.file = bound.file + 1
    BY <1>3 DEF Replace, LockTypeOK
  <2>2. /\ replaced'["authority"] = replaced["authority"]
        /\ replaced'["file"] = replaced["file"] + 1
    BY <1>1, <1>3 DEF LockTypeOK, LockFiles
  <2>3. bound.file = replaced["file"] + 1
    BY <2>1 DEF InodesKnown
  <2>4. bound' \in [authority : Inode, file : Inode]
    <3>1. bound' = [bound EXCEPT !.file = bound.file + 1]
      BY <1>3 DEF Replace, LockTypeOK
    <3>2. bound.file + 1 \in Inode
      BY <1>1, <1>3, <2>3, LockAssumption DEF Inode
    <3> QED BY <3>1, <3>2 DEF LockTypeOK
  <2>5. LockTypeOK'
    BY <1>1, <2>4, LockAssumption DEF LockTypeOK
  <2>6. platform = "nt" => \A p \in Parties : party[p].file = Missing
    BY <1>3 DEF Replace
  <2>7. InodesKnown'
    BY <1>1, <1>3, <2>1, <2>2, <2>3, <2>6, LockAssumption
    DEF InodesKnown, LockTypeOK, Missing
  <2> QED BY <1>1, <2>5, <2>7 DEF HoldersOwn
<1> QED BY <1>2, <1>3 DEF LockFiles

LEMMA LockInvNext == LockInv /\ [LockNext]_lockVars => LockInv'
<1> SUFFICES ASSUME LockInv, [LockNext]_lockVars PROVE LockInv'
  OBVIOUS
<1>1. ASSUME NEW p \in Parties, LockStep(p) PROVE LockInv'
  <2>1. CASE TimeOut(p) \/ ReleaseAuthority(p)
    BY <2>1, FailPreserves DEF TimeOut, ReleaseAuthority
  <2> QED BY <1>1, <2>1, BeginPreserves, TakeAuthorityPreserves, OpenLockPreserves,
             TakeLockPreserves, LeavePreserves, ForkPreserves, LeaveInheritedPreserves,
             ExitPreserves DEF LockStep
<1>2. ASSUME NEW f \in LockFiles, Replace(f) PROVE LockInv'
  BY <1>2, ReplacePreserves
<1>3. CASE UNCHANGED lockVars
  BY <1>3 DEF lockVars, LockInv, LockTypeOK, InodesKnown, HoldersOwn
<1> QED BY <1>1, <1>2, <1>3 DEF LockNext

\* Two parties that are inside own the same flock: that of the lock file when
\* it was never replaced (on Windows, always), otherwise that of the authority.
LEMMA LockInvExcludes == LockInv => LockExcludes
<1> SUFFICES ASSUME LockInv, \E f \in LockFiles : replaced[f] = 0,
                    NEW p \in Parties, NEW q \in Parties,
                    party[p].pc = "held", party[q].pc = "held"
             PROVE  p = q
  BY DEF LockExcludes, Inside
<1>1. CASE replaced["file"] = 0 \/ platform = "nt"
  <2>1. party[p].file = party[q].file
    BY <1>1 DEF LockInv, InodesKnown
  <2> QED BY <2>1 DEF LockInv, HoldersOwn
<1>2. CASE replaced["authority"] = 0 /\ platform = "posix"
  <2>1. party[p].authority = party[q].authority
    BY <1>2 DEF LockInv, InodesKnown, Open
  <2> QED BY <1>2, <2>1 DEF LockInv, HoldersOwn, BehindAuthority
<1> QED BY <1>1, <1>2 DEF LockFiles, LockInv, LockTypeOK

\* locked_file excludes: while at most one of its two files was replaced, no
\* two threads, processes or forked children are inside together.
THEOREM MutualExclusion == LockSpec => []LockExcludes
<1>1. LockInit => LockInv
  BY LockInvInit
<1>2. LockInv /\ [LockNext]_lockVars => LockInv'
  BY LockInvNext
<1>3. LockInv => LockExcludes
  BY LockInvExcludes
<1> QED BY <1>1, <1>2, <1>3, PTL DEF LockSpec
\* The states in which a party may own a flock.
MayOwn(pc, descriptors) ==
    pc \in {"open", "flock", "held", "leaving"} \/ (pc = "dead" /\ descriptors # {})

LEMMA OwnersMayOwn ==
  ASSUME LockTypeOK, NoLockLeaks, NEW f \in LockFiles, NEW i \in Inode, owner[f][i] # Nobody
  PROVE  /\ owner[f][i] \in Parties
         /\ MayOwn(party[owner[f][i]].pc, refs[owner[f][i]])
  BY DEF LockTypeOK, NoLockLeaks, MayOwn, Reached

\* A step of p disturbs the flocks of nobody else, and leaves p one only in a
\* state in which it may own it.
LEMMA StepOfOne ==
  ASSUME LockTypeOK', NoLockLeaks, NEW p \in Parties,
         \A q \in Parties \ {p} : party'[q].pc = party[q].pc /\ refs'[q] = refs[q],
         \A f \in LockFiles, i \in Inode : owner'[f][i] \in {owner[f][i], Nobody, p},
         (\E f \in LockFiles, i \in Inode : owner'[f][i] = p) => MayOwn(party'[p].pc, refs'[p])
  PROVE  NoLockLeaks'
<1>1. ASSUME NEW f \in LockFiles, NEW i \in Inode, NEW q, q = owner'[f][i], q # Nobody
      PROVE  MayOwn(party'[q].pc, refs'[q])
  <2>1. q \in Parties
    BY <1>1 DEF LockTypeOK
  <2>2. CASE q = p
    BY <1>1, <2>2
  <2>3. CASE q # p
    <3>1. owner[f][i] = q
      BY <1>1, <2>3
    <3>2. MayOwn(party[q].pc, refs[q])
      BY <1>1, <3>1 DEF NoLockLeaks, MayOwn, Reached
    <3> QED BY <2>1, <2>3, <3>2
  <2> QED BY <2>2, <2>3
<1> QED BY <1>1 DEF NoLockLeaks, MayOwn, Reached

LEMMA NoLeakNext == LockInv /\ NoLockLeaks /\ [LockNext]_lockVars => NoLockLeaks'
<1> SUFFICES ASSUME LockInv, NoLockLeaks, [LockNext]_lockVars PROVE NoLockLeaks'
  OBVIOUS
<1>1. LockTypeOK /\ LockTypeOK'
  BY LockInvNext DEF LockInv
<1>2. ASSUME NEW p \in Parties, LockStep(p) PROVE NoLockLeaks'
  <2>1. ASSUME Fail(p) PROVE NoLockLeaks'
    <3>1. /\ \A q \in Parties \ {p} : party'[q].pc = party[q].pc /\ refs'[q] = refs[q]
          /\ \A f \in LockFiles, i \in Inode :
                owner'[f][i] # p /\ owner'[f][i] \in {owner[f][i], Nobody}
      BY <1>1, <2>1, LockAssumption DEF LockTypeOK, Fail, Freed
    <3> QED BY <1>1, <3>1, StepOfOne
  <2>2. CASE Begin(p)
    <3>1. /\ \A q \in Parties \ {p} : party'[q].pc = party[q].pc /\ refs'[q] = refs[q]
          /\ owner' = owner /\ party[p].pc = "idle"
      BY <1>1, <2>2 DEF LockTypeOK, Begin, Reached
    <3>2. ASSUME NEW f \in LockFiles, NEW i \in Inode PROVE owner[f][i] # p
      BY <1>1, <3>1, OwnersMayOwn, LockAssumption DEF MayOwn
    <3> QED BY <1>1, <3>1, <3>2, StepOfOne
  <2>3. CASE TakeAuthority(p) /\ ~Fail(p)
    <3>1. /\ party' = [party EXCEPT ![p].pc = "open"] /\ refs' = refs
          /\ owner' = [owner EXCEPT !["authority"][party[p].authority] = p]
      BY <2>3 DEF TakeAuthority, Move
    <3>2. /\ \A q \in Parties \ {p} : party'[q].pc = party[q].pc /\ refs'[q] = refs[q]
          /\ party'[p].pc = "open"
          /\ \A f \in LockFiles, i \in Inode : owner'[f][i] \in {owner[f][i], p}
      BY <1>1, <3>1 DEF LockTypeOK
    <3>3. MayOwn(party'[p].pc, refs'[p])
      BY <3>2 DEF MayOwn
    <3> QED BY <1>1, <3>2, <3>3, StepOfOne
  <2>4. CASE OpenLock(p) /\ ~Fail(p)
    <3>1. /\ \A q \in Parties \ {p} : party'[q].pc = party[q].pc /\ refs'[q] = refs[q]
          /\ party'[p].pc = "flock" /\ owner' = owner
      BY <1>1, <2>4 DEF LockTypeOK, OpenLock
    <3>2. MayOwn(party'[p].pc, refs'[p])
      BY <3>1 DEF MayOwn
    <3> QED BY <1>1, <3>1, <3>2, StepOfOne
  <2>5. CASE TakeLock(p) /\ ~Fail(p)
    <3>1. /\ party' = [party EXCEPT ![p].pc = "held"] /\ refs' = refs
          /\ owner' = [owner EXCEPT !["file"][party[p].file] = p]
      BY <2>5 DEF TakeLock, Move
    <3>2. /\ \A q \in Parties \ {p} : party'[q].pc = party[q].pc /\ refs'[q] = refs[q]
          /\ party'[p].pc = "held"
          /\ \A f \in LockFiles, i \in Inode : owner'[f][i] \in {owner[f][i], p}
      BY <1>1, <3>1 DEF LockTypeOK
    <3>3. MayOwn(party'[p].pc, refs'[p])
      BY <3>2 DEF MayOwn
    <3> QED BY <1>1, <3>2, <3>3, StepOfOne
  <2>6. CASE Leave(p)
    <3>1. /\ \A q \in Parties \ {p} : party'[q].pc = party[q].pc /\ refs'[q] = refs[q]
          /\ party'[p].pc = "leaving"
          /\ \A f \in LockFiles, i \in Inode : owner'[f][i] \in {owner[f][i], Nobody}
      BY <1>1, <2>6 DEF LockTypeOK, Leave, Move, Unlocked, LockFiles
    <3>2. MayOwn(party'[p].pc, refs'[p])
      BY <3>1 DEF MayOwn
    <3> QED BY <1>1, <3>1, <3>2, StepOfOne
  <2>7. CASE Fork(p)
    <3>1. /\ \A q \in Parties : refs[q] \subseteq refs'[q]
          /\ \A q \in Parties \ {Child} : party'[q].pc = party[q].pc
          /\ party[Child].pc = "unborn" /\ owner' = owner
      BY <1>1, <2>7, LockAssumption DEF LockTypeOK, Fork, Move, Reached
    <3>2. ASSUME NEW f \in LockFiles, NEW i \in Inode, NEW q, q = owner[f][i], q # Nobody
          PROVE  MayOwn(party'[q].pc, refs'[q])
      <4>1. q \in Parties /\ MayOwn(party[q].pc, refs[q])
        BY <1>1, <3>2, OwnersMayOwn
      <4> QED BY <3>1, <4>1 DEF MayOwn
    <3> QED BY <3>1, <3>2 DEF NoLockLeaks, MayOwn, Reached
  <2>8. CASE LeaveInherited(p)
    <3>1. /\ \A q \in Parties \ {Child} : party'[q].pc = party[q].pc
          /\ \A q \in Parties : refs'[q] = refs[q] \ {Child}
          /\ party[Child].pc = "inherited"
          /\ \A f \in LockFiles, i \in Inode :
                owner'[f][i] # Nobody => /\ owner'[f][i] = owner[f][i]
                                         /\ refs[owner[f][i]] # {Child}
      BY <1>1, <2>8, LockAssumption DEF LockTypeOK, LeaveInherited, Reached
    <3>2. ASSUME NEW f \in LockFiles, NEW i \in Inode, NEW q, q = owner'[f][i], q # Nobody
          PROVE  MayOwn(party'[q].pc, refs'[q])
      <4>1. q = owner[f][i] /\ refs[q] # {Child}
        BY <3>1, <3>2
      <4>2. q \in Parties /\ MayOwn(party[q].pc, refs[q])
        BY <1>1, <3>2, <4>1, OwnersMayOwn
      <4>3. refs[q] # {} => refs'[q] # {}
        BY <3>1, <4>1, <4>2
      <4> QED BY <3>1, <4>2, <4>3 DEF MayOwn
    <3> QED BY <3>2 DEF NoLockLeaks, MayOwn, Reached
  <2>9. CASE Exit(p)
    <3>1. /\ \A q \in Parties \ {p} : party'[q].pc = party[q].pc /\ refs'[q] = refs[q]
          /\ party'[p].pc = "dead" /\ refs'[p] = refs[p] \ {p}
      BY <1>1, <2>9 DEF LockTypeOK, Exit, Idle
    <3>2. \A f \in LockFiles, i \in Inode : owner'[f][i] \in {owner[f][i], Nobody}
      BY <1>1, <2>9 DEF LockTypeOK, Exit, Freed
    <3>3. (\E f \in LockFiles, i \in Inode : owner'[f][i] = p) => refs[p] \ {p} # {}
      BY <1>1, <2>9, LockAssumption DEF LockTypeOK, Exit, Freed
    <3>4. (\E f \in LockFiles, i \in Inode : owner'[f][i] = p) => MayOwn(party'[p].pc, refs'[p])
      BY <3>1, <3>3 DEF MayOwn
    <3> QED BY <1>1, <3>1, <3>2, <3>4, StepOfOne, ZenonT(60)
  <2> QED BY <1>2, <2>1, <2>2, <2>3, <2>4, <2>5, <2>6, <2>7, <2>8, <2>9
          DEF LockStep, TimeOut, ReleaseAuthority
<1>3. ASSUME NEW f \in LockFiles, Replace(f) PROVE NoLockLeaks'
  BY <1>3 DEF Replace, NoLockLeaks, Reached
<1>4. CASE UNCHANGED lockVars
  BY <1>4 DEF lockVars, NoLockLeaks, Reached
<1> QED BY <1>2, <1>3, <1>4 DEF LockNext

\* No flock outlives its owner's call, unless the owner died and a forked child
\* still has the files open: a failure, a time-out and the end of a process give
\* the locks up.
THEOREM NoLeaks == LockSpec => []NoLockLeaks
<1>1. LockInit => LockInv /\ NoLockLeaks
  BY LockInvInit DEF LockInit, NoLockLeaks, LockFiles
<1>2. LockInv /\ NoLockLeaks /\ [LockNext]_lockVars => (LockInv /\ NoLockLeaks)'
  BY LockInvNext, NoLeakNext
<1> QED BY <1>1, <1>2, PTL DEF LockSpec

-----------------------------------------------------------------------------
(* write_workspace_bytes_atomic: a file of the user in the workspace.       *)

WorkspacePreparing == {"temp", "fill", "revalidate"}

\* The user's file is replaced by another and may then be removed, or is saved
\* in place: what the writer saw never comes back.
Differs == \/ t.found = "original" /\ entry["path"] \in {"foreign", NoFile}
           \/ t.found = "foreign" /\ entry["path"] = NoFile
           \/ t.saw < saves

\* The path binds a file of the user's, or the writer's once it is complete.
UserFiles ==
    /\ entry["backup"] = NoFile
    /\ entry["path"] \in {"original", "written", "foreign", NoFile}
    /\ content["original"] \in {"old", "other"} /\ content["foreign"] = "other"
    /\ entry["path"] = "written" => content["written"] \in {"new", "other"}
    /\ t.pc \in {"inspect", "temp", "fill", "revalidate", "install"} => entry["path"] # "written"

\* The temporary file is there while it is made, and installed when complete.
WorkspaceTempFile ==
    /\ entry["temp"] \in {NoFile, "written"}
    /\ entry["temp"] = "written" => t.owned
    /\ t.pc \in {"inspect", "temp"} => ~t.owned
    /\ t.pc \in {"fill", "revalidate", "install"} => entry["temp"] = "written"
    /\ t.pc \in {"revalidate", "install"} => content["written"] = "new"
    /\ t.pc \in {"verify", "sync"} \/ (t.pc = "cleanup" /\ ~t.error) => entry["temp"] = NoFile

\* What an edit leaves to be noticed.
EditsNoticed ==
    /\ t.pc \in WorkspacePreparing =>
         /\ t.saw <= saves
         /\ t.found \in {"original", "foreign", NoFile}
         /\ entry["path"] = t.found \/ Differs
    /\ edited \in WorkspacePreparing =>
         /\ t.pc \notin {"inspect", "install", "verify", "sync"}
         /\ entry["path"] # "written"
         /\ t.pc \in WorkspacePreparing => Differs
    /\ edited = "inspect" /\ t.patch =>
         /\ t.pc \in {"inspect", "cleanup"} \cup WorkspaceEnds
         /\ entry["path"] # "written"
         /\ t.pc = "inspect" => Held("path") # "old"

\* Undisturbed, only a failing call makes an error of a file that was begun.
CalmWrite ==
    Calm =>
      /\ budget.foreign = 0
      /\ t.pc \in WorkspacePreparing => entry["path"] = t.found /\ saves = t.saw
      /\ t.pc = "verify" => entry["path"] = "written"
      /\ t.pc = "cleanup" /\ t.error /\ t.owned => budget.faults < limit.faults
      /\ t.pc \in {"returned", "raised"} /\ limit.faults < 2 => entry["temp"] = NoFile

WorkspaceTyped ==
    /\ entry \in [Names -> Inodes \cup {NoFile}] /\ content \in [Inodes -> Contents]
    /\ limit \in Trouble /\ budget \in Trouble /\ before \in {"absent", "old"}
    /\ t \in [pc : WorkspaceSteps \cup WorkspaceEnds, patch : BOOLEAN,
              found : Inodes \cup {NoFile}, saw : Nat, owned : BOOLEAN, error : BOOLEAN]
    /\ saves \in Nat /\ edited \in WorkspaceSteps \cup {"never"}

\* Every save in place has cost one foreign change.
SavesCounted ==
    /\ saves + budget.foreign <= limit.foreign /\ budget.faults <= limit.faults
    /\ t.error => t.pc \in {"cleanup"} \cup WorkspaceEnds
    /\ t.saw <= saves

WorkspaceInv == /\ WorkspaceTyped /\ UserFiles /\ WorkspaceTempFile /\ EditsNoticed /\ CalmWrite
                /\ SavesCounted

\* What a call costs.
LEMMA TroubleMet ==
    ASSUME limit \in Trouble, budget \in Trouble, Fault \/ NoFault
    PROVE  /\ limit' = limit /\ before' = before /\ budget' \in Trouble
           /\ budget'.foreign = budget.foreign /\ budget'.faults <= budget.faults
           /\ Fault => budget'.faults < budget.faults
           /\ NoFault => budget' = budget
  BY FilesAssumption DEF Trouble, Fault, NoFault, fixed

\* What is left of the trouble is counted.
LEMMA TroubleCounts ==
    ASSUME NEW b \in Trouble
    PROVE  b.faults \in Nat /\ b.foreign \in Nat /\ b.foreign <= MaxForeign
  BY FilesAssumption DEF Trouble

\* The invariant holds when the write begins.
LEMMA WorkspaceInvInit == FilesInit /\ WorkspaceInit => WorkspaceInv
  BY FilesAssumption DEF FilesInit, WorkspaceInit, WorkspaceInv, WorkspaceTyped, UserFiles, WorkspaceTempFile,
     EditsNoticed, CalmWrite, Names, Inodes, NoFile, Contents, Trouble, WorkspaceSteps, WorkspaceEnds, Calm,
     WorkspacePreparing, SavesCounted

\* It says what the run checks: no edit is overwritten, no half of a file is seen.
LEMMA WorkspaceInvSafe == WorkspaceInv => WorkspaceTypeOK /\ UserEditsKept /\ WorkspaceFileWhole
<1> SUFFICES ASSUME WorkspaceInv PROVE WorkspaceTypeOK /\ UserEditsKept /\ WorkspaceFileWhole
  OBVIOUS
<1>1. WorkspaceTypeOK
  BY FilesAssumption DEF WorkspaceInv, WorkspaceTyped, WorkspaceTypeOK, FilesTypeOK, SavesCounted, Trouble
<1>2. UserEditsKept
  BY DEF WorkspaceInv, WorkspaceTyped, UserFiles, EditsNoticed, UserEditsKept, Held, NoFile,
     WorkspacePreparing
<1>3. WorkspaceFileWhole
  BY DEF WorkspaceInv, WorkspaceTyped, UserFiles, CalmWrite, WorkspaceFileWhole, Held, NoFile
<1> QED BY <1>1, <1>2, <1>3

\* A call fails, or what a step requires is not so: the cleanup begins.
LEMMA WriteRefused ==
    ASSUME WorkspaceInv, t.pc \in WorkspaceSteps \ {"cleanup"}, Refuse,
           UNCHANGED <<files, editVars>>,
           Fault \/ (NoFault /\ (Calm => ~t.owned))
    PROVE  WorkspaceInv'
<1> WorkspaceTyped /\ UserFiles /\ WorkspaceTempFile /\ EditsNoticed /\ CalmWrite /\ SavesCounted
  BY DEF WorkspaceInv
<1>0. /\ limit' = limit /\ before' = before /\ budget' \in Trouble
      /\ budget'.foreign = budget.foreign /\ budget'.faults <= budget.faults
      /\ budget'.faults < budget.faults \/ (Calm => ~t.owned)
  BY TroubleMet DEF WorkspaceTyped
<1>counts. /\ limit.faults \in Nat /\ limit.foreign \in Nat /\ limit.foreign <= MaxForeign
      /\ budget.faults \in Nat /\ budget.foreign \in Nat /\ budget'.faults \in Nat
  BY <1>0, TroubleCounts DEF WorkspaceTyped
<1> USE <1>0, <1>counts
<1> USE DEF WorkspaceTyped, UserFiles, WorkspaceTempFile, EditsNoticed, CalmWrite, SavesCounted,
        Names, Inodes, NoFile, Contents, WorkspaceSteps, WorkspaceEnds, Calm, WorkspacePreparing,
        Differs, Held, files, editVars
<1>1. WorkspaceTyped'
  BY ZenonT(60) DEF Refuse
<1>2. UserFiles'
  BY DEF Refuse
<1>3. WorkspaceTempFile'
  BY DEF Refuse
<1>4. EditsNoticed'
  BY DEF Refuse
<1>5. CalmWrite'
  BY DEF Refuse
<1>6. SavesCounted'
  BY DEF Refuse
<1> QED BY <1>1, <1>2, <1>3, <1>4, <1>5, <1>6 DEF WorkspaceInv

\* Every step of the writer and of the user keeps it.
LEMMA WorkspaceInvNext == WorkspaceInv /\ [WorkspaceNext]_workspaceVars => WorkspaceInv'
<1> SUFFICES ASSUME WorkspaceInv, [WorkspaceNext]_workspaceVars PROVE WorkspaceInv'
  OBVIOUS
<1> WorkspaceTyped /\ UserFiles /\ WorkspaceTempFile /\ EditsNoticed /\ CalmWrite /\ SavesCounted
  BY DEF WorkspaceInv
<1> USE DEF WorkspaceTyped, UserFiles, WorkspaceTempFile, EditsNoticed, CalmWrite, SavesCounted,
        Names, Inodes, NoFile, Contents, WorkspaceSteps, WorkspaceEnds, Calm, WorkspacePreparing,
        Differs, Held, files, editVars
<1>1. CASE InspectFile
  <2>1. ASSUME t.pc = "inspect", NoFault, UNCHANGED editVars,
               t.patch => Held("path") = "old",
               t' = [t EXCEPT !.pc = "temp", !.found = entry["path"], !.saw = saves],
               UNCHANGED files
        PROVE  WorkspaceInv'
    <3> USE <2>1, TroubleMet
    <3>1. WorkspaceTyped'
      OBVIOUS
    <3>2. UserFiles'
      OBVIOUS
    <3>3. WorkspaceTempFile'
      OBVIOUS
    <3>4. EditsNoticed'
      OBVIOUS
    <3>5. CalmWrite'
      OBVIOUS
    <3>6. SavesCounted'
      OBVIOUS
    <3> QED BY <3>1, <3>2, <3>3, <3>4, <3>5, <3>6 DEF WorkspaceInv
  <2> QED BY <1>1, <2>1, WriteRefused DEF InspectFile, TryWrite, Proceed
<1>2. CASE OpenWorkspaceTemp
  <2>1. ASSUME t.pc = "temp", NoFault, UNCHANGED editVars,
               entry' = Bound("temp", "written"),
               content' = [content EXCEPT !["written"] = "part"],
               t' = [t EXCEPT !.pc = "fill", !.owned = TRUE]
        PROVE  WorkspaceInv'
    <3> USE <2>1, TroubleMet DEF Bound
    <3>1. WorkspaceTyped'
      OBVIOUS
    <3>2. UserFiles'
      OBVIOUS
    <3>3. WorkspaceTempFile'
      OBVIOUS
    <3>4. EditsNoticed'
      OBVIOUS
    <3>5. CalmWrite'
      OBVIOUS
    <3>6. SavesCounted'
      OBVIOUS
    <3> QED BY <3>1, <3>2, <3>3, <3>4, <3>5, <3>6 DEF WorkspaceInv
  <2> QED BY <1>2, <2>1, WriteRefused DEF OpenWorkspaceTemp, TryWrite, Proceed
<1>3. CASE FillWorkspaceTemp
  <2>1. ASSUME t.pc = "fill", NoFault, UNCHANGED editVars,
               content' = [content EXCEPT !["written"] = "new"],
               t' = [t EXCEPT !.pc = "revalidate"],
               UNCHANGED entry
        PROVE  WorkspaceInv'
    <3> USE <2>1, TroubleMet
    <3>1. WorkspaceTyped'
      OBVIOUS
    <3>2. UserFiles'
      OBVIOUS
    <3>3. WorkspaceTempFile'
      OBVIOUS
    <3>4. EditsNoticed'
      OBVIOUS
    <3>5. CalmWrite'
      OBVIOUS
    <3>6. SavesCounted'
      OBVIOUS
    <3> QED BY <3>1, <3>2, <3>3, <3>4, <3>5, <3>6 DEF WorkspaceInv
  <2> QED BY <1>3, <2>1, WriteRefused DEF FillWorkspaceTemp, TryWrite, Proceed
<1>4. CASE RevalidateFile
  <2>1. ASSUME t.pc = "revalidate", NoFault, UNCHANGED editVars,
               entry["path"] = t.found /\ saves = t.saw,
               t' = [t EXCEPT !.pc = "install"],
               UNCHANGED files
        PROVE  WorkspaceInv'
    <3> USE <2>1, TroubleMet
    <3>1. WorkspaceTyped'
      OBVIOUS
    <3>2. UserFiles'
      OBVIOUS
    <3>3. WorkspaceTempFile'
      OBVIOUS
    <3>4. EditsNoticed'
      OBVIOUS
    <3>5. CalmWrite'
      OBVIOUS
    <3>6. SavesCounted'
      OBVIOUS
    <3> QED BY <3>1, <3>2, <3>3, <3>4, <3>5, <3>6 DEF WorkspaceInv
  <2> QED BY <1>4, <2>1, WriteRefused DEF RevalidateFile, TryWrite, Proceed
<1>5. CASE InstallFile
  <2>1. ASSUME t.pc = "install", NoFault, UNCHANGED editVars,
               entry' = Renamed("temp", "path"),
               t' = [t EXCEPT !.pc = "verify"],
               UNCHANGED content
        PROVE  WorkspaceInv'
    <3> USE <2>1, TroubleMet DEF Renamed
    <3>1. WorkspaceTyped'
      OBVIOUS
    <3>2. UserFiles'
      OBVIOUS
    <3>3. WorkspaceTempFile'
      OBVIOUS
    <3>4. EditsNoticed'
      OBVIOUS
    <3>5. CalmWrite'
      OBVIOUS
    <3>6. SavesCounted'
      OBVIOUS
    <3> QED BY <3>1, <3>2, <3>3, <3>4, <3>5, <3>6 DEF WorkspaceInv
  <2> QED BY <1>5, <2>1, WriteRefused DEF InstallFile, TryWrite, Proceed
<1>6. CASE VerifyFile
  <2>1. ASSUME t.pc = "verify", NoFault, UNCHANGED editVars,
               entry["path"] = "written",
               t' = [t EXCEPT !.pc = "sync"],
               UNCHANGED files
        PROVE  WorkspaceInv'
    <3> USE <2>1, TroubleMet
    <3>1. WorkspaceTyped'
      OBVIOUS
    <3>2. UserFiles'
      OBVIOUS
    <3>3. WorkspaceTempFile'
      OBVIOUS
    <3>4. EditsNoticed'
      OBVIOUS
    <3>5. CalmWrite'
      OBVIOUS
    <3>6. SavesCounted'
      OBVIOUS
    <3> QED BY <3>1, <3>2, <3>3, <3>4, <3>5, <3>6 DEF WorkspaceInv
  <2> QED BY <1>6, <2>1, WriteRefused DEF VerifyFile, TryWrite, Proceed
<1>7. CASE SyncFile
  <2>1. ASSUME t.pc = "sync", NoFault, UNCHANGED editVars,
               t' = [t EXCEPT !.pc = "cleanup"],
               UNCHANGED files
        PROVE  WorkspaceInv'
    <3> USE <2>1, TroubleMet
    <3>1. WorkspaceTyped'
      OBVIOUS
    <3>2. UserFiles'
      OBVIOUS
    <3>3. WorkspaceTempFile'
      OBVIOUS
    <3>4. EditsNoticed'
      OBVIOUS
    <3>5. CalmWrite'
      OBVIOUS
    <3>6. SavesCounted'
      OBVIOUS
    <3> QED BY <3>1, <3>2, <3>3, <3>4, <3>5, <3>6 DEF WorkspaceInv
  <2> QED BY <1>7, <2>1, WriteRefused DEF SyncFile, TryWrite, Proceed
<1>8. CASE CleanupFile
  <2>0. /\ limit' = limit /\ before' = before /\ budget' \in Trouble
        /\ budget'.foreign = budget.foreign /\ budget'.faults <= budget.faults
        /\ entry' = entry \/ (entry' = Removed("temp", "written") /\ t.owned)
        /\ \/ ~(t.owned /\ t.error) \/ entry' = Removed("temp", "written") \/ budget'.faults < budget.faults
    BY <1>8, TroubleMet DEF CleanupFile
  <2>counts. /\ limit.faults \in Nat /\ limit.foreign \in Nat /\ limit.foreign <= MaxForeign
        /\ budget.faults \in Nat /\ budget.foreign \in Nat /\ budget'.faults \in Nat
    BY <2>0, TroubleCounts
  <2>ends. /\ t.pc = "cleanup" /\ UNCHANGED <<content, editVars>>
        /\ t' = [t EXCEPT !.pc = IF t.error THEN "raised" ELSE "returned"]
    BY <1>8 DEF CleanupFile, Proceed
  <2> USE <2>0, <2>counts, <2>ends DEF Removed, Bound
  <2>1. WorkspaceTyped'
    OBVIOUS
  <2>2. UserFiles'
    OBVIOUS
  <2>3. WorkspaceTempFile'
    OBVIOUS
  <2>4. EditsNoticed'
    OBVIOUS
  <2>5. CalmWrite'
    OBVIOUS
  <2>6. SavesCounted'
    OBVIOUS
  <2> QED BY <2>1, <2>2, <2>3, <2>4, <2>5, <2>6 DEF WorkspaceInv
<1>9. CASE WriterKilled
  <2> USE <1>9, TroubleMet DEF WriterKilled, Proceed
  <2>1. WorkspaceTyped'
    OBVIOUS
  <2>2. UserFiles'
    OBVIOUS
  <2>3. WorkspaceTempFile'
    OBVIOUS
  <2>4. EditsNoticed'
    OBVIOUS
  <2>5. CalmWrite'
    OBVIOUS
  <2>6. SavesCounted'
    OBVIOUS
  <2> QED BY <2>1, <2>2, <2>3, <2>4, <2>5, <2>6 DEF WorkspaceInv
<1>10. CASE UserEdits
  <2>1. /\ budget.foreign > 0 /\ budget' \in Trouble /\ UNCHANGED <<before, limit, t>>
        /\ budget'.foreign = budget.foreign - 1 /\ budget'.faults = budget.faults
        /\ edited' = t.pc
    BY <1>10, FilesAssumption DEF UserEdits, Interfere, Trouble
  <2>2. \/ /\ entry["path"] # NoFile /\ entry'["path"] \in {"foreign", NoFile} \ {entry["path"]}
           /\ \A n \in Names \ {"path"} : entry'[n] = entry[n]
           /\ entry' \in [Names -> Inodes \cup {NoFile}] /\ UNCHANGED <<content, saves>>
        \/ /\ entry["path"] # NoFile /\ content' = [content EXCEPT ![entry["path"]] = "other"]
           /\ saves' = saves + 1 /\ UNCHANGED entry
    BY <1>10 DEF UserEdits, Interfere, Bound
  <2>3. /\ limit.foreign \in Nat /\ limit.foreign <= MaxForeign /\ limit.faults \in Nat
        /\ budget.foreign \in Nat /\ budget'.foreign \in Nat /\ budget.faults \in Nat
    BY <2>1, TroubleCounts
  <2>4. t.pc \in WorkspaceSteps
    BY <1>10 DEF UserEdits
  <2> USE <2>1, <2>2, <2>3, <2>4
  <2>11. WorkspaceTyped'
    OBVIOUS
  <2>12. UserFiles'
    OBVIOUS
  <2>13. WorkspaceTempFile'
    OBVIOUS
  <2>14. EditsNoticed'
    OBVIOUS
  <2>15. CalmWrite'
    OBVIOUS
  <2>16. SavesCounted'
    OBVIOUS
  <2> QED BY <2>11, <2>12, <2>13, <2>14, <2>15, <2>16 DEF WorkspaceInv
<1>11. CASE UNCHANGED workspaceVars
  BY <1>11 DEF workspaceVars, WorkspaceInv
<1> QED BY <1>1, <1>2, <1>3, <1>4, <1>5, <1>6, <1>7, <1>8, <1>9, <1>10, <1>11 DEF WorkspaceNext

\* What was decided at the start stays.
LEMMA WorkspaceFixed == WorkspaceNext => before' = before
<1> SUFFICES ASSUME WorkspaceNext PROVE before' = before
  OBVIOUS
<1> USE DEF TryWrite, Fault, NoFault, fixed
<1>1. CASE InspectFile \/ OpenWorkspaceTemp \/ FillWorkspaceTemp \/ RevalidateFile
  BY <1>1 DEF InspectFile, OpenWorkspaceTemp, FillWorkspaceTemp, RevalidateFile
<1>2. CASE InstallFile \/ VerifyFile \/ SyncFile \/ CleanupFile \/ WriterKilled
  BY <1>2 DEF InstallFile, VerifyFile, SyncFile, CleanupFile, WriterKilled
<1>3. CASE UserEdits
  BY <1>3 DEF UserEdits, Interfere
<1> QED BY <1>1, <1>2, <1>3 DEF WorkspaceNext

-----------------------------------------------------------------------------
(* write_private_bytes_atomic: a file of Pony's own, on POSIX.              *)

\* Until the file is installed nothing of the writer's is seen.
BeforeInstall == {"inspect", "temp", "fill", "backup", "copy", "validate", "check", "install"}
AfterInstall == {"linked", "verify", "sync", "callback"}
\* The rollback of a file that was not there, and of one that was.
Withdrawing == {"owned", "unlink"}
Restoring == {"restore", "look", "replace"}
Rebuilding == {"remove", "removeSync", "rebuild", "swap", "rebuilt"}
Closing == {"close"} \cup PrivateEnds

PrivateCounted ==
    /\ limit.faults \in Nat /\ limit.foreign \in Nat
    /\ budget.faults \in Nat /\ budget.foreign \in Nat
    /\ budget.faults <= limit.faults /\ budget.foreign <= limit.foreign

PrivateNamed ==
    /\ content["original"] = "old" /\ content["foreign"] = "other"
    /\ entry["temp"] \in {NoFile, "written"} /\ entry["backup"] \in {NoFile, "copy", "foreign"}
    /\ w.found \in {NoFile, "original", "foreign"}
    /\ w.found = "original" \/ entry["path"] = "original" => before = "old"
    /\ Calm => "foreign" \notin {w.found, entry["path"], entry["backup"]}

\* How far the writer is.
PrivateStages ==
    /\ w.pc \in BeforeInstall =>
         /\ ~w.started /\ ~w.kept /\ ~w.keepNew /\ w.error = "none"
         /\ w.named <=> w.pc \in {"copy", "validate"} \/ (w.pc \in {"check", "install"} /\ w.found # NoFile)
         /\ w.pc \in {"backup", "copy", "validate"} => w.found # NoFile
         /\ w.pc \notin {"inspect", "temp"} => w.owned /\ entry["temp"] = "written"
         /\ w.pc \notin {"inspect", "temp", "fill"} => content["written"] = "new"
         /\ w.create /\ w.pc # "inspect" => w.found = NoFile
         /\ w.pc \in {"inspect", "temp", "fill", "backup"} => entry["backup"] = NoFile
    /\ ~w.started => entry["path"] \in {NoFile, "original", "foreign"} /\ ~w.committed
    /\ w.started => w.owned /\ w.pc \notin BeforeInstall
    /\ w.committed => entry["path"] # "original"
    /\ w.pc \in AfterInstall =>
         /\ w.started /\ ~w.kept /\ ~w.keepNew /\ w.error = "none"
         /\ w.named <=> w.found # NoFile
         /\ content["written"] = "new" /\ entry["path"] \in {"written", "foreign", NoFile}
         /\ entry["temp"] = IF w.pc = "linked" THEN "written" ELSE NoFile
         /\ w.committed <=> w.pc = "callback"
         /\ w.pc = "linked" => w.create
    /\ w.found = NoFile => ~w.named

\* What the rollback and the cleanup know.
PrivateUndoing ==
    /\ w.pc \in {"rollback"} \cup Withdrawing \cup Restoring /\ w.started =>
         /\ ~w.kept /\ ~w.keepNew
         /\ w.named <=> w.found # NoFile
         /\ entry["path"] \in {"original", "written", "foreign", NoFile}
    /\ w.pc \in Withdrawing => w.started /\ w.found = NoFile
    /\ w.pc \in Restoring => w.started /\ w.found # NoFile
    /\ w.pc = "restored" => w.started /\ ~w.named /\ w.found # NoFile /\ entry["path"] # "written"
    /\ w.pc = "wipe" => w.started /\ entry["path"] # "written"
    /\ w.pc \in {"rollback", "restored", "wipe"} \cup Withdrawing \cup Restoring => w.error = "raised"
    /\ w.pc = "discard" => w.named /\ ~w.kept /\ ~w.committed
    /\ w.pc \in Rebuilding => w.named /\ w.committed /\ w.started

\* The copy of the old file, from its validation until it is discarded.
CopyHeld ==
    /\ w.pc = "validate" => content["copy"] = content[w.found]
    /\ w.named /\ (w.started \/ w.pc \in {"check", "install"}) /\ w.pc \notin {"discard"} \cup Closing =>
         content["copy"] = content[w.found]
    /\ w.named => entry["path"] # "copy"
    /\ entry["path"] = "copy" => content["copy"] = content[w.found] /\ w.found # NoFile
    /\ w.pc \in {"swap", "rebuilt"} => content["rebuilt"] = content[w.found]
    /\ entry["path"] = "rebuilt" =>
         w.pc \in {"rebuilt"} \cup Closing /\ content["rebuilt"] = content[w.found] /\ w.found # NoFile

\* The new file is not cut short while it is seen.
NewWhole ==
    /\ w.committed /\ entry["path"] = "written" => content["written"] = "new"
    /\ limit.faults < 2 =>
         /\ entry["path"] = "written" => content["written"] = "new"
         /\ w.pc \in {"rollback"} \cup Withdrawing \cup Restoring /\ entry["path"] = "written" =>
              budget.faults < limit.faults
         /\ w.pc \in {"cleanTemp", "cleanBackup", "discard"} /\ entry["path"] = "written" =>
              w.committed \/ w.keepNew

\* Undisturbed: where the old contents are.
CalmOld ==
    Calm /\ before = "old" =>
        /\ ~w.started => entry["path"] = "original"
        /\ w.started => w.found = "original"
        /\ w.pc \in BeforeInstall \ {"inspect"} => w.found = "original"
        /\ w.named /\ ~w.committed /\ w.pc \notin Closing => entry["backup"] = "copy"
        /\ w.named /\ ~w.kept /\ ~w.committed /\ w.pc \in {"wipe", "cleanTemp", "cleanBackup", "discard"} =>
             entry["path"] = "original"
        /\ w.started /\ ~w.committed /\ ~w.named => entry["path"] = "copy"
        /\ ~w.committed /\ w.pc \in Closing =>
             \/ entry["path"] \in {"original", "copy", "rebuilt"}
             \/ entry["backup"] = "copy" /\ content["copy"] = "old"

\* One failing call, undisturbed: the refinement.
JudgedInv ==
    Judged =>
        /\ entry["path"] \in {"written", "copy", "rebuilt", "original", NoFile}
        /\ before = "absent" => entry["path"] \in {"written", NoFile}
        /\ before = "old" => entry["path"] # NoFile
        /\ ~w.started => Held("path") = before
        /\ w.started => (w.found = "original" <=> before = "old")
        /\ w.pc \in BeforeInstall \ {"inspect"} => w.found = entry["path"]
        /\ w.pc \in AfterInstall => entry["path"] = "written"
        /\ w.pc \in {"rollback", "restored", "wipe", "rebuild", "swap", "rebuilt"} \cup Withdrawing \cup Restoring
             /\ w.started => budget.faults = 0
        /\ w.started /\ w.named /\ w.pc \notin {"rebuild", "swap", "rebuilt"} \cup Closing =>
             entry["backup"] = "copy" \/ w.pc = "removeSync"
        /\ w.pc \in {"unlink", "replace"} => entry["path"] = "written"
        /\ w.pc = "restored" => entry["path"] = "copy"
        /\ w.pc \in {"remove", "removeSync", "rebuild", "swap"} => entry["path"] = "written"
        /\ w.pc = "rebuilt" => entry["path"] = "rebuilt"
        /\ w.pc = "wipe" => Held("path") = before /\ (w.named => entry["path"] = "original")
        /\ w.pc \in {"remove", "removeSync"} => w.error = "none"
        /\ w.pc \in {"rebuild", "swap", "rebuilt"} => w.error = "raised"
        /\ w.pc \in {"cleanTemp", "cleanBackup", "discard", "close"} =>
             /\ w.error = "none" => entry["path"] = "written" /\ w.committed
             /\ w.error = "raised" => Held("path") = before
             /\ w.pc # "close" /\ w.error = "raised" => ~(w.named /\ w.committed)
             /\ w.pc # "close" => w.error # "ambiguous"

PrivateRecord == [pc : PrivateSteps \cup PrivateEnds, create : BOOLEAN,
                  found : Inodes \cup {NoFile}, owned : BOOLEAN, named : BOOLEAN,
                  started : BOOLEAN, committed : BOOLEAN, kept : BOOLEAN,
                  keepNew : BOOLEAN, error : {"none", "raised", "ambiguous"}]
PrivateTyped ==
    /\ entry \in [Names -> Inodes \cup {NoFile}] /\ content \in [Inodes -> Contents]
    /\ before \in {"absent", "old"} /\ limit \in Trouble /\ budget \in Trouble
    /\ w \in PrivateRecord

PrivateInv ==
    /\ PrivateTyped /\ PrivateCounted /\ PrivateNamed /\ PrivateStages /\ PrivateUndoing
    /\ CopyHeld /\ NewWhole /\ CalmOld /\ JudgedInv

\* A rollback that fails keeps the copy, if there is one.
LEMMA GivesUp ==
    ASSUME w \in PrivateRecord, GiveUp
    PROVE  /\ w.named => w' = [w EXCEPT !.pc = "cleanTemp", !.kept = TRUE]
           /\ ~w.named => w' = [w EXCEPT !.pc = "cleanTemp"]
<1>1. w.named \in BOOLEAN /\ w.kept \in BOOLEAN
  BY DEF PrivateRecord
<1>2. CASE w.named
  BY <1>1, <1>2 DEF GiveUp
<1>3. CASE ~w.named
  <2>1. (w.kept \/ w.named) = w.kept
    BY <1>1, <1>3
  <2>2. w' = [w EXCEPT !.pc = "cleanTemp", !.kept = w.kept]
    BY <2>1 DEF GiveUp
  <2> QED BY <2>2, <1>3 DEF PrivateRecord
<1> QED BY <1>2, <1>3

\* A restore that fails keeps both files.
LEMMA GivesUpRestoring ==
    ASSUME w \in PrivateRecord, GiveUpRestoring
    PROVE  /\ w.named => w' = [w EXCEPT !.pc = "cleanTemp", !.kept = TRUE, !.keepNew = TRUE]
           /\ ~w.named => w' = [w EXCEPT !.pc = "cleanTemp"]
<1>1. w.named \in BOOLEAN /\ w.kept \in BOOLEAN /\ w.keepNew \in BOOLEAN
  BY DEF PrivateRecord
<1>2. CASE w.named
  BY <1>1, <1>2 DEF GiveUpRestoring
<1>3. CASE ~w.named
  <2>1. (w.kept \/ w.named) = w.kept /\ (w.keepNew \/ w.named) = w.keepNew
    BY <1>1, <1>3
  <2>2. w' = [w EXCEPT !.pc = "cleanTemp", !.kept = w.kept, !.keepNew = w.keepNew]
    BY <2>1 DEF GiveUpRestoring
  <2> QED BY <2>2, <1>3 DEF PrivateRecord
<1> QED BY <1>2, <1>3

\* The names of the new file are the temporary one, the path, or both.
LEMMA LinksOfWritten ==
    ASSUME entry \in [Names -> Inodes \cup {NoFile}], entry["path"] = "written", entry["backup"] # "written"
    PROVE  /\ entry["temp"] = NoFile => Links("written") = 1
           /\ entry["temp"] = "written" => Links("written") = 2
<1>1. {n \in Names : entry[n] = "written"}
        = IF entry["temp"] = "written" THEN {"temp", "path"} ELSE {"path"}
  BY DEF Names
<1>2. Cardinality({"path"}) = 1 /\ IsFiniteSet({"path"})
  BY FS_Singleton
<1>3. Cardinality({"path"} \cup {"temp"}) = 2
  BY <1>2, FS_AddElement, SMTT(30)
<1>4. {"path"} \cup {"temp"} = {"temp", "path"}
  OBVIOUS
<1> QED BY <1>1, <1>2, <1>3, <1>4 DEF Links, NoFile

\* A step that goes on to another place of the function and counts its trouble.
MovesTo(step) ==
    /\ w'.pc = step /\ w'.create = w.create /\ w'.found = w.found /\ w'.owned = w.owned
    /\ w'.named = w.named /\ w'.started = w.started /\ w'.committed = w.committed
    /\ w'.kept = w.kept /\ w'.keepNew = w.keepNew
TroubleSpent ==
    /\ PrivateTyped' /\ PrivateCounted' /\ limit' = limit /\ before' = before
    /\ budget'.faults <= budget.faults /\ budget'.foreign = budget.foreign
    /\ (Fault => budget'.faults < budget.faults) /\ (NoFault => budget' = budget)

LEMMA PrivateMoves ==
    ASSUME PrivateTyped, PrivateCounted, NEW step \in PrivateSteps,
           NEW error \in {"none", "raised", "ambiguous"},
           w' = [w EXCEPT !.pc = step, !.error = error], Fault \/ NoFault,
           entry' \in [Names -> Inodes \cup {NoFile}], content' \in [Inodes -> Contents]
    PROVE  MovesTo(step) /\ w'.error = error /\ TroubleSpent
<1>1. /\ w' \in PrivateRecord /\ MovesTo(step) /\ w'.error = error
  BY DEF PrivateTyped, PrivateRecord, MovesTo
<1> QED BY <1>1, TroubleMet, TroubleCounts DEF PrivateTyped, PrivateCounted, TroubleSpent

\* In most steps the error stays.
LEMMA PrivateGoes ==
    ASSUME PrivateTyped, PrivateCounted, NEW step \in PrivateSteps,
           w' = [w EXCEPT !.pc = step], Fault \/ NoFault,
           entry' \in [Names -> Inodes \cup {NoFile}], content' \in [Inodes -> Contents]
    PROVE  MovesTo(step) /\ w'.error = w.error /\ TroubleSpent
<1>1. /\ w' \in PrivateRecord /\ MovesTo(step) /\ w'.error = w.error
  BY DEF PrivateTyped, PrivateRecord, MovesTo
<1> QED BY <1>1, TroubleMet, TroubleCounts DEF PrivateTyped, PrivateCounted, TroubleSpent

\* An exception in the try block.
LEMMA PrivateRaised ==
    ASSUME PrivateInv, w.pc \in (BeforeInstall \cup AfterInstall) \ {"install"}, Raise, UNCHANGED files,
           Fault \/ (NoFault /\ entry["path"] # "written")
    PROVE  PrivateInv'
<1> /\ PrivateTyped /\ PrivateCounted /\ PrivateNamed /\ PrivateStages /\ PrivateUndoing
    /\ CopyHeld /\ NewWhole /\ CalmOld /\ JudgedInv
  BY DEF PrivateInv
<1> w.error \in {"none", "raised", "ambiguous"}
  BY DEF PrivateTyped, PrivateRecord
<1> /\ CanonicalState = "writer" => entry["path"] = "written"
    /\ CanonicalState = "original" => entry["path"] = w.found
    /\ CanonicalState = "missing" => entry["path"] = NoFile
    /\ CanonicalState = "unknown" => entry["path"] \notin {NoFile, "written", w.found}
    /\ CanonicalState \in {"missing", "writer", "original", "unknown"}
  BY DEF CanonicalState
<1> USE DEF NoFile, BeforeInstall, AfterInstall, Closing, PrivateSteps, PrivateEnds, Calm, Judged, Held, files, PrivateCounted
<1>1. ASSUME Fault \/ (NoFault /\ (entry["path"] # "written")),
             w.pc \in (BeforeInstall \cup AfterInstall) \ {"install"},
             w' = [w EXCEPT !.pc = "rollback", !.error = "raised"], entry' = entry,
             content' = content
      PROVE  PrivateInv'
  <2>1. /\ w' \in PrivateRecord
        /\ w'.pc = "rollback" /\ w'.create = w.create /\ w'.found = w.found /\ w'.owned = w.owned
        /\ w'.named = w.named /\ w'.started = w.started /\ w'.committed = w.committed
        /\ w'.kept = w.kept /\ w'.keepNew = w.keepNew /\ w'.error = "raised"
    BY <1>1 DEF PrivateTyped, PrivateRecord, PrivateSteps, PrivateEnds, Inodes, Names, NoFile
  <2>2. PrivateTyped' /\ PrivateCounted' /\ limit' = limit /\ before' = before
        /\ budget'.faults <= budget.faults /\ budget'.foreign = budget.foreign
        /\ (Fault => budget'.faults < budget.faults) /\ (NoFault => budget' = budget)
    BY <1>1, <2>1, TroubleMet, TroubleCounts DEF PrivateTyped, PrivateCounted
  <2> HIDE DEF PrivateRecord
  <2> QED
    BY <1>1, <2>1, <2>2
    DEF PrivateInv, PrivateTyped, PrivateNamed, PrivateStages, PrivateUndoing, CopyHeld, NewWhole, CalmOld, JudgedInv,
        Withdrawing, Restoring, Rebuilding
<1> QED BY <1>1 DEF Raise

\* Every step of the writer and of other programs keeps the invariant.
LEMMA PrivateInvNext == PrivateInv /\ [PrivateNext]_privateVars => PrivateInv'
<1> SUFFICES ASSUME PrivateInv, [PrivateNext]_privateVars PROVE PrivateInv'
  OBVIOUS
<1> /\ PrivateTyped /\ PrivateCounted /\ PrivateNamed /\ PrivateStages /\ PrivateUndoing
    /\ CopyHeld /\ NewWhole /\ CalmOld /\ JudgedInv
  BY DEF PrivateInv
<1> w.error \in {"none", "raised", "ambiguous"}
  BY DEF PrivateTyped, PrivateRecord
<1> /\ CanonicalState = "writer" => entry["path"] = "written"
    /\ CanonicalState = "original" => entry["path"] = w.found
    /\ CanonicalState = "missing" => entry["path"] = NoFile
    /\ CanonicalState = "unknown" => entry["path"] \notin {NoFile, "written", w.found}
    /\ CanonicalState \in {"missing", "writer", "original", "unknown"}
  BY DEF CanonicalState
<1> USE DEF NoFile, BeforeInstall, AfterInstall, Closing, PrivateSteps, PrivateEnds, Calm, Judged, Held, files, PrivateCounted
<1>1. CASE Inspect
  <2>1. ASSUME w.pc = "inspect", NoFault, w.create => entry["path"] = NoFile,
               w' = [w EXCEPT !.pc = "temp", !.found = entry["path"]], entry' = entry,
               content' = content
        PROVE  PrivateInv'
    <3>1. /\ w' \in PrivateRecord
          /\ w'.pc = "temp" /\ w'.create = w.create /\ w'.found = entry["path"]
          /\ w'.owned = w.owned /\ w'.named = w.named /\ w'.started = w.started
          /\ w'.committed = w.committed /\ w'.kept = w.kept /\ w'.keepNew = w.keepNew
          /\ w'.error = w.error
      BY <2>1 DEF PrivateTyped, PrivateRecord, PrivateSteps, PrivateEnds, Inodes, Names, NoFile
    <3>2. PrivateTyped' /\ PrivateCounted' /\ limit' = limit /\ before' = before
          /\ budget'.faults <= budget.faults /\ budget'.foreign = budget.foreign
          /\ (Fault => budget'.faults < budget.faults) /\ (NoFault => budget' = budget)
      BY <2>1, <3>1, TroubleMet, TroubleCounts DEF PrivateTyped, PrivateCounted
    <3> HIDE DEF PrivateRecord
    <3> QED
      BY <2>1, <3>1, <3>2
      DEF PrivateInv, PrivateTyped, PrivateNamed, PrivateStages, PrivateUndoing, CopyHeld, NewWhole, CalmOld, JudgedInv,
          Withdrawing, Restoring, Rebuilding
  <2> QED BY <1>1, <2>1, PrivateRaised DEF Inspect, Attempt, Goto, PrivateStages
<1>2. CASE OpenTemp
  <2>1. ASSUME w.pc = "temp", NoFault, w' = [w EXCEPT !.pc = "fill", !.owned = TRUE],
               entry' = [entry EXCEPT !["temp"] = "written"],
               content' = [content EXCEPT !["written"] = "part"]
        PROVE  PrivateInv'
    <3>1. /\ w' \in PrivateRecord
          /\ w'.pc = "fill" /\ w'.create = w.create /\ w'.found = w.found /\ w'.owned = TRUE
          /\ w'.named = w.named /\ w'.started = w.started /\ w'.committed = w.committed
          /\ w'.kept = w.kept /\ w'.keepNew = w.keepNew /\ w'.error = w.error
      BY <2>1 DEF PrivateTyped, PrivateRecord, PrivateSteps, PrivateEnds, Inodes, Names, NoFile
    <3>2. /\ entry' \in [Names -> Inodes \cup {NoFile}]
          /\ entry'["path"] = entry["path"] /\ entry'["temp"] = "written"
          /\ entry'["backup"] = entry["backup"]
      BY <2>1 DEF PrivateTyped, Names, Inodes, NoFile
    <3>3. /\ content' \in [Inodes -> Contents]
          /\ content'["original"] = content["original"] /\ content'["written"] = "part"
          /\ content'["copy"] = content["copy"] /\ content'["rebuilt"] = content["rebuilt"]
          /\ content'["foreign"] = content["foreign"]
      BY <2>1 DEF PrivateTyped, Inodes, Contents, NoFile, PrivateNamed, PrivateStages
    <3>4. PrivateTyped' /\ PrivateCounted' /\ limit' = limit /\ before' = before
          /\ budget'.faults <= budget.faults /\ budget'.foreign = budget.foreign
          /\ (Fault => budget'.faults < budget.faults) /\ (NoFault => budget' = budget)
      BY <2>1, <3>1, <3>2, <3>3, TroubleMet, TroubleCounts DEF PrivateTyped, PrivateCounted
    <3> HIDE DEF PrivateRecord
    <3> QED
      BY <2>1, <3>1, <3>2, <3>3, <3>4
      DEF PrivateInv, PrivateTyped, PrivateNamed, PrivateStages, PrivateUndoing, CopyHeld, NewWhole, CalmOld, JudgedInv,
          Withdrawing, Restoring, Rebuilding
  <2> QED BY <1>2, <2>1, PrivateRaised DEF OpenTemp, Attempt, Goto, PrivateStages, Bound
<1>3. CASE FillTemp
  <2>1. ASSUME w.pc = "fill", NoFault, w.found = NoFile, w' = [w EXCEPT !.pc = "check"],
               entry' = entry, content' = [content EXCEPT !["written"] = "new"]
        PROVE  PrivateInv'
    <3>1. /\ w' \in PrivateRecord
          /\ w'.pc = "check" /\ w'.create = w.create /\ w'.found = w.found /\ w'.owned = w.owned
          /\ w'.named = w.named /\ w'.started = w.started /\ w'.committed = w.committed
          /\ w'.kept = w.kept /\ w'.keepNew = w.keepNew /\ w'.error = w.error
      BY <2>1 DEF PrivateTyped, PrivateRecord, PrivateSteps, PrivateEnds, Inodes, Names, NoFile
    <3>2. /\ content' \in [Inodes -> Contents]
          /\ content'["original"] = content["original"] /\ content'["written"] = "new"
          /\ content'["copy"] = content["copy"] /\ content'["rebuilt"] = content["rebuilt"]
          /\ content'["foreign"] = content["foreign"]
      BY <2>1 DEF PrivateTyped, Inodes, Contents, NoFile, PrivateNamed, PrivateStages
    <3>3. PrivateTyped' /\ PrivateCounted' /\ limit' = limit /\ before' = before
          /\ budget'.faults <= budget.faults /\ budget'.foreign = budget.foreign
          /\ (Fault => budget'.faults < budget.faults) /\ (NoFault => budget' = budget)
      BY <2>1, <3>1, <3>2, TroubleMet, TroubleCounts DEF PrivateTyped, PrivateCounted
    <3> HIDE DEF PrivateRecord
    <3> QED
      BY <2>1, <3>1, <3>2, <3>3
      DEF PrivateInv, PrivateTyped, PrivateNamed, PrivateStages, PrivateUndoing, CopyHeld, NewWhole, CalmOld, JudgedInv,
          Withdrawing, Restoring, Rebuilding
  <2>2. ASSUME w.pc = "fill", NoFault, w.found # NoFile, w' = [w EXCEPT !.pc = "backup"],
               entry' = entry, content' = [content EXCEPT !["written"] = "new"]
        PROVE  PrivateInv'
    <3>1. /\ w' \in PrivateRecord
          /\ w'.pc = "backup" /\ w'.create = w.create /\ w'.found = w.found /\ w'.owned = w.owned
          /\ w'.named = w.named /\ w'.started = w.started /\ w'.committed = w.committed
          /\ w'.kept = w.kept /\ w'.keepNew = w.keepNew /\ w'.error = w.error
      BY <2>2 DEF PrivateTyped, PrivateRecord, PrivateSteps, PrivateEnds, Inodes, Names, NoFile
    <3>2. /\ content' \in [Inodes -> Contents]
          /\ content'["original"] = content["original"] /\ content'["written"] = "new"
          /\ content'["copy"] = content["copy"] /\ content'["rebuilt"] = content["rebuilt"]
          /\ content'["foreign"] = content["foreign"]
      BY <2>2 DEF PrivateTyped, Inodes, Contents, NoFile, PrivateNamed, PrivateStages
    <3>3. PrivateTyped' /\ PrivateCounted' /\ limit' = limit /\ before' = before
          /\ budget'.faults <= budget.faults /\ budget'.foreign = budget.foreign
          /\ (Fault => budget'.faults < budget.faults) /\ (NoFault => budget' = budget)
      BY <2>2, <3>1, <3>2, TroubleMet, TroubleCounts DEF PrivateTyped, PrivateCounted
    <3> HIDE DEF PrivateRecord
    <3> QED
      BY <2>2, <3>1, <3>2, <3>3
      DEF PrivateInv, PrivateTyped, PrivateNamed, PrivateStages, PrivateUndoing, CopyHeld, NewWhole, CalmOld, JudgedInv,
          Withdrawing, Restoring, Rebuilding
  <2> QED BY <1>3, <2>1, <2>2, PrivateRaised DEF FillTemp, Attempt, Goto, PrivateStages
<1>4. CASE OpenBackup
  <2>1. ASSUME w.pc = "backup", NoFault, entry["path"] = w.found,
               w' = [w EXCEPT !.pc = "copy", !.named = TRUE],
               entry' = [entry EXCEPT !["backup"] = "copy"],
               content' = [content EXCEPT !["copy"] = "part"]
        PROVE  PrivateInv'
    <3>1. /\ w' \in PrivateRecord
          /\ w'.pc = "copy" /\ w'.create = w.create /\ w'.found = w.found /\ w'.owned = w.owned
          /\ w'.named = TRUE /\ w'.started = w.started /\ w'.committed = w.committed
          /\ w'.kept = w.kept /\ w'.keepNew = w.keepNew /\ w'.error = w.error
      BY <2>1 DEF PrivateTyped, PrivateRecord, PrivateSteps, PrivateEnds, Inodes, Names, NoFile
    <3>2. /\ entry' \in [Names -> Inodes \cup {NoFile}]
          /\ entry'["path"] = entry["path"] /\ entry'["temp"] = entry["temp"]
          /\ entry'["backup"] = "copy"
      BY <2>1 DEF PrivateTyped, Names, Inodes, NoFile
    <3>3. /\ content' \in [Inodes -> Contents]
          /\ content'["original"] = content["original"]
          /\ content'["written"] = content["written"] /\ content'["copy"] = "part"
          /\ content'["rebuilt"] = content["rebuilt"] /\ content'["foreign"] = content["foreign"]
      BY <2>1 DEF PrivateTyped, Inodes, Contents, NoFile, PrivateNamed, PrivateStages
    <3>4. PrivateTyped' /\ PrivateCounted' /\ limit' = limit /\ before' = before
          /\ budget'.faults <= budget.faults /\ budget'.foreign = budget.foreign
          /\ (Fault => budget'.faults < budget.faults) /\ (NoFault => budget' = budget)
      BY <2>1, <3>1, <3>2, <3>3, TroubleMet, TroubleCounts DEF PrivateTyped, PrivateCounted
    <3> HIDE DEF PrivateRecord
    <3> QED
      BY <2>1, <3>1, <3>2, <3>3, <3>4
      DEF PrivateInv, PrivateTyped, PrivateNamed, PrivateStages, PrivateUndoing, CopyHeld, NewWhole, CalmOld, JudgedInv,
          Withdrawing, Restoring, Rebuilding
  <2> QED BY <1>4, <2>1, PrivateRaised DEF OpenBackup, Attempt, Goto, PrivateStages, Bound
<1>5. CASE CopyBackup
  <2>1. ASSUME w.pc = "copy", NoFault, w' = [w EXCEPT !.pc = "validate"], entry' = entry,
               content' = [content EXCEPT !["copy"] = content[w.found]]
        PROVE  PrivateInv'
    <3>1. /\ w' \in PrivateRecord
          /\ w'.pc = "validate" /\ w'.create = w.create /\ w'.found = w.found
          /\ w'.owned = w.owned /\ w'.named = w.named /\ w'.started = w.started
          /\ w'.committed = w.committed /\ w'.kept = w.kept /\ w'.keepNew = w.keepNew
          /\ w'.error = w.error
      BY <2>1 DEF PrivateTyped, PrivateRecord, PrivateSteps, PrivateEnds, Inodes, Names, NoFile
    <3>2. /\ content' \in [Inodes -> Contents]
          /\ content'["original"] = content["original"]
          /\ content'["written"] = content["written"] /\ content'["copy"] = content[w.found]
          /\ content'["rebuilt"] = content["rebuilt"] /\ content'["foreign"] = content["foreign"]
      BY <2>1 DEF PrivateTyped, Inodes, Contents, NoFile, PrivateNamed, PrivateStages
    <3>3. PrivateTyped' /\ PrivateCounted' /\ limit' = limit /\ before' = before
          /\ budget'.faults <= budget.faults /\ budget'.foreign = budget.foreign
          /\ (Fault => budget'.faults < budget.faults) /\ (NoFault => budget' = budget)
      BY <2>1, <3>1, <3>2, TroubleMet, TroubleCounts DEF PrivateTyped, PrivateCounted
    <3> HIDE DEF PrivateRecord
    <3> QED
      BY <2>1, <3>1, <3>2, <3>3
      DEF PrivateInv, PrivateTyped, PrivateNamed, PrivateStages, PrivateUndoing, CopyHeld, NewWhole, CalmOld, JudgedInv,
          Withdrawing, Restoring, Rebuilding
  <2> QED BY <1>5, <2>1, PrivateRaised DEF CopyBackup, Attempt, Goto, PrivateStages
<1>6. CASE ValidateBackup
  <2>1. ASSUME w.pc = "validate", NoFault, entry["path"] = w.found, BackupIntact, w' = [w EXCEPT !.pc = "check"], entry' = entry,
               content' = content
        PROVE  PrivateInv'
    <3>1. /\ w' \in PrivateRecord
          /\ w'.pc = "check" /\ w'.create = w.create /\ w'.found = w.found /\ w'.owned = w.owned
          /\ w'.named = w.named /\ w'.started = w.started /\ w'.committed = w.committed
          /\ w'.kept = w.kept /\ w'.keepNew = w.keepNew /\ w'.error = w.error
      BY <2>1 DEF PrivateTyped, PrivateRecord, PrivateSteps, PrivateEnds, Inodes, Names, NoFile
    <3>2. PrivateTyped' /\ PrivateCounted' /\ limit' = limit /\ before' = before
          /\ budget'.faults <= budget.faults /\ budget'.foreign = budget.foreign
          /\ (Fault => budget'.faults < budget.faults) /\ (NoFault => budget' = budget)
      BY <2>1, <3>1, TroubleMet, TroubleCounts DEF PrivateTyped, PrivateCounted
    <3> HIDE DEF PrivateRecord
    <3> QED
      BY <2>1, <3>1, <3>2
      DEF PrivateInv, PrivateTyped, PrivateNamed, PrivateStages, PrivateUndoing, CopyHeld, NewWhole, CalmOld, JudgedInv, BackupIntact,
          Withdrawing, Restoring, Rebuilding
  <2>2. w.pc = "validate" /\ entry["path"] # "written"
    BY <1>6 DEF ValidateBackup, Attempt, PrivateStages
  <2> QED BY <1>6, <2>1, <2>2, PrivateRaised DEF ValidateBackup, Attempt, Goto
<1>7. CASE CheckTarget
  <2>1. ASSUME w.pc = "check", NoFault, entry["path"] = w.found, w' = [w EXCEPT !.pc = "install"],
               entry' = entry, content' = content
        PROVE  PrivateInv'
    <3>1. /\ w' \in PrivateRecord
          /\ w'.pc = "install" /\ w'.create = w.create /\ w'.found = w.found
          /\ w'.owned = w.owned /\ w'.named = w.named /\ w'.started = w.started
          /\ w'.committed = w.committed /\ w'.kept = w.kept /\ w'.keepNew = w.keepNew
          /\ w'.error = w.error
      BY <2>1 DEF PrivateTyped, PrivateRecord, PrivateSteps, PrivateEnds, Inodes, Names, NoFile
    <3>2. PrivateTyped' /\ PrivateCounted' /\ limit' = limit /\ before' = before
          /\ budget'.faults <= budget.faults /\ budget'.foreign = budget.foreign
          /\ (Fault => budget'.faults < budget.faults) /\ (NoFault => budget' = budget)
      BY <2>1, <3>1, TroubleMet, TroubleCounts DEF PrivateTyped, PrivateCounted
    <3> HIDE DEF PrivateRecord
    <3> QED
      BY <2>1, <3>1, <3>2
      DEF PrivateInv, PrivateTyped, PrivateNamed, PrivateStages, PrivateUndoing, CopyHeld, NewWhole, CalmOld, JudgedInv,
          Withdrawing, Restoring, Rebuilding
  <2> QED BY <1>7, <2>1, PrivateRaised DEF CheckTarget, Attempt, Goto, PrivateStages
<1>8. CASE UnlinkTemp
  <2>1. ASSUME w.pc = "linked", NoFault, entry["path"] = "written", w' = [w EXCEPT !.pc = "verify"],
               entry' = [entry EXCEPT !["temp"] = NoFile], content' = content
        PROVE  PrivateInv'
    <3>1. /\ w' \in PrivateRecord
          /\ w'.pc = "verify" /\ w'.create = w.create /\ w'.found = w.found /\ w'.owned = w.owned
          /\ w'.named = w.named /\ w'.started = w.started /\ w'.committed = w.committed
          /\ w'.kept = w.kept /\ w'.keepNew = w.keepNew /\ w'.error = w.error
      BY <2>1 DEF PrivateTyped, PrivateRecord, PrivateSteps, PrivateEnds, Inodes, Names, NoFile
    <3>2. /\ entry' \in [Names -> Inodes \cup {NoFile}]
          /\ entry'["path"] = entry["path"] /\ entry'["temp"] = NoFile
          /\ entry'["backup"] = entry["backup"]
      BY <2>1 DEF PrivateTyped, Names, Inodes, NoFile
    <3>3. PrivateTyped' /\ PrivateCounted' /\ limit' = limit /\ before' = before
          /\ budget'.faults <= budget.faults /\ budget'.foreign = budget.foreign
          /\ (Fault => budget'.faults < budget.faults) /\ (NoFault => budget' = budget)
      BY <2>1, <3>1, <3>2, TroubleMet, TroubleCounts DEF PrivateTyped, PrivateCounted
    <3> HIDE DEF PrivateRecord
    <3> QED
      BY <2>1, <3>1, <3>2, <3>3
      DEF PrivateInv, PrivateTyped, PrivateNamed, PrivateStages, PrivateUndoing, CopyHeld, NewWhole, CalmOld, JudgedInv,
          Withdrawing, Restoring, Rebuilding
  <2>2. w.pc = "linked" => (entry["path"] = "written" => Links("written") = 2)
    BY LinksOfWritten DEF PrivateStages, PrivateNamed, PrivateTyped
  <2> QED BY <1>8, <2>1, <2>2, PrivateRaised DEF UnlinkTemp, Attempt, Goto, PrivateStages, Bound
<1>9. CASE VerifyInstalled
  <2>1. ASSUME w.pc = "verify", NoFault, entry["path"] = "written", w' = [w EXCEPT !.pc = "sync"],
               entry' = entry, content' = content
        PROVE  PrivateInv'
    <3>1. /\ w' \in PrivateRecord
          /\ w'.pc = "sync" /\ w'.create = w.create /\ w'.found = w.found /\ w'.owned = w.owned
          /\ w'.named = w.named /\ w'.started = w.started /\ w'.committed = w.committed
          /\ w'.kept = w.kept /\ w'.keepNew = w.keepNew /\ w'.error = w.error
      BY <2>1 DEF PrivateTyped, PrivateRecord, PrivateSteps, PrivateEnds, Inodes, Names, NoFile
    <3>2. PrivateTyped' /\ PrivateCounted' /\ limit' = limit /\ before' = before
          /\ budget'.faults <= budget.faults /\ budget'.foreign = budget.foreign
          /\ (Fault => budget'.faults < budget.faults) /\ (NoFault => budget' = budget)
      BY <2>1, <3>1, TroubleMet, TroubleCounts DEF PrivateTyped, PrivateCounted
    <3> HIDE DEF PrivateRecord
    <3> QED
      BY <2>1, <3>1, <3>2
      DEF PrivateInv, PrivateTyped, PrivateNamed, PrivateStages, PrivateUndoing, CopyHeld, NewWhole, CalmOld, JudgedInv,
          Withdrawing, Restoring, Rebuilding
  <2>2. w.pc = "verify" => (entry["path"] = "written" => Links("written") = 1)
    BY LinksOfWritten DEF PrivateStages, PrivateNamed, PrivateTyped
  <2> QED BY <1>9, <2>1, <2>2, PrivateRaised DEF VerifyInstalled, Attempt, Goto, PrivateStages
<1>10. CASE SyncParent
  <2>1. ASSUME w.pc = "sync", NoFault, w' = [w EXCEPT !.pc = "callback", !.committed = TRUE],
               entry' = entry, content' = content
        PROVE  PrivateInv'
    <3>1. /\ w' \in PrivateRecord
          /\ w'.pc = "callback" /\ w'.create = w.create /\ w'.found = w.found
          /\ w'.owned = w.owned /\ w'.named = w.named /\ w'.started = w.started
          /\ w'.committed = TRUE /\ w'.kept = w.kept /\ w'.keepNew = w.keepNew
          /\ w'.error = w.error
      BY <2>1 DEF PrivateTyped, PrivateRecord, PrivateSteps, PrivateEnds, Inodes, Names, NoFile
    <3>2. PrivateTyped' /\ PrivateCounted' /\ limit' = limit /\ before' = before
          /\ budget'.faults <= budget.faults /\ budget'.foreign = budget.foreign
          /\ (Fault => budget'.faults < budget.faults) /\ (NoFault => budget' = budget)
      BY <2>1, <3>1, TroubleMet, TroubleCounts DEF PrivateTyped, PrivateCounted
    <3> HIDE DEF PrivateRecord
    <3> QED
      BY <2>1, <3>1, <3>2
      DEF PrivateInv, PrivateTyped, PrivateNamed, PrivateStages, PrivateUndoing, CopyHeld, NewWhole, CalmOld, JudgedInv,
          Withdrawing, Restoring, Rebuilding
  <2> QED BY <1>10, <2>1, PrivateRaised DEF SyncParent, Attempt, Goto, PrivateStages
<1>11. CASE ValidateCommit
  <2>1. ASSUME w.pc = "callback", NoFault, w' = [w EXCEPT !.pc = "cleanTemp"], entry' = entry,
               content' = content
        PROVE  PrivateInv'
    <3>1. /\ w' \in PrivateRecord
          /\ w'.pc = "cleanTemp" /\ w'.create = w.create /\ w'.found = w.found
          /\ w'.owned = w.owned /\ w'.named = w.named /\ w'.started = w.started
          /\ w'.committed = w.committed /\ w'.kept = w.kept /\ w'.keepNew = w.keepNew
          /\ w'.error = w.error
      BY <2>1 DEF PrivateTyped, PrivateRecord, PrivateSteps, PrivateEnds, Inodes, Names, NoFile
    <3>2. PrivateTyped' /\ PrivateCounted' /\ limit' = limit /\ before' = before
          /\ budget'.faults <= budget.faults /\ budget'.foreign = budget.foreign
          /\ (Fault => budget'.faults < budget.faults) /\ (NoFault => budget' = budget)
      BY <2>1, <3>1, TroubleMet, TroubleCounts DEF PrivateTyped, PrivateCounted
    <3> HIDE DEF PrivateRecord
    <3> QED
      BY <2>1, <3>1, <3>2
      DEF PrivateInv, PrivateTyped, PrivateNamed, PrivateStages, PrivateUndoing, CopyHeld, NewWhole, CalmOld, JudgedInv,
          Withdrawing, Restoring, Rebuilding
  <2> QED BY <1>11, <2>1, PrivateRaised DEF ValidateCommit, Attempt, Goto, PrivateStages
<1>12. CASE InstallTemp
  <2>1. ASSUME w.pc = "install", NoFault, ~w.create,
               w' = [w EXCEPT !.pc = "verify", !.started = TRUE],
               entry' = [entry EXCEPT !["path"] = entry["temp"], !["temp"] = NoFile],
               content' = content
        PROVE  PrivateInv'
    <3>1. /\ w' \in PrivateRecord
          /\ w'.pc = "verify" /\ w'.create = w.create /\ w'.found = w.found /\ w'.owned = w.owned
          /\ w'.named = w.named /\ w'.started = TRUE /\ w'.committed = w.committed
          /\ w'.kept = w.kept /\ w'.keepNew = w.keepNew /\ w'.error = w.error
      BY <2>1 DEF PrivateTyped, PrivateRecord, PrivateSteps, PrivateEnds, Inodes, Names, NoFile
    <3>2. /\ entry' \in [Names -> Inodes \cup {NoFile}]
          /\ entry'["path"] = entry["temp"] /\ entry'["temp"] = NoFile
          /\ entry'["backup"] = entry["backup"]
      BY <2>1 DEF PrivateTyped, Names, Inodes, NoFile
    <3>3. PrivateTyped' /\ PrivateCounted' /\ limit' = limit /\ before' = before
          /\ budget'.faults <= budget.faults /\ budget'.foreign = budget.foreign
          /\ (Fault => budget'.faults < budget.faults) /\ (NoFault => budget' = budget)
      BY <2>1, <3>1, <3>2, TroubleMet, TroubleCounts DEF PrivateTyped, PrivateCounted
    <3> HIDE DEF PrivateRecord
    <3> QED
      BY <2>1, <3>1, <3>2, <3>3
      DEF PrivateInv, PrivateTyped, PrivateNamed, PrivateStages, PrivateUndoing, CopyHeld, NewWhole, CalmOld, JudgedInv,
          Withdrawing, Restoring, Rebuilding
  <2>2. ASSUME w.pc = "install", NoFault, w.create, entry["path"] = NoFile,
               w' = [w EXCEPT !.pc = "linked", !.started = TRUE],
               entry' = [entry EXCEPT !["path"] = "written"], content' = content
        PROVE  PrivateInv'
    <3>1. /\ w' \in PrivateRecord
          /\ w'.pc = "linked" /\ w'.create = w.create /\ w'.found = w.found /\ w'.owned = w.owned
          /\ w'.named = w.named /\ w'.started = TRUE /\ w'.committed = w.committed
          /\ w'.kept = w.kept /\ w'.keepNew = w.keepNew /\ w'.error = w.error
      BY <2>2 DEF PrivateTyped, PrivateRecord, PrivateSteps, PrivateEnds, Inodes, Names, NoFile
    <3>2. /\ entry' \in [Names -> Inodes \cup {NoFile}]
          /\ entry'["path"] = "written" /\ entry'["temp"] = entry["temp"]
          /\ entry'["backup"] = entry["backup"]
      BY <2>2 DEF PrivateTyped, Names, Inodes, NoFile
    <3>3. PrivateTyped' /\ PrivateCounted' /\ limit' = limit /\ before' = before
          /\ budget'.faults <= budget.faults /\ budget'.foreign = budget.foreign
          /\ (Fault => budget'.faults < budget.faults) /\ (NoFault => budget' = budget)
      BY <2>2, <3>1, <3>2, TroubleMet, TroubleCounts DEF PrivateTyped, PrivateCounted
    <3> HIDE DEF PrivateRecord
    <3> QED
      BY <2>2, <3>1, <3>2, <3>3
      DEF PrivateInv, PrivateTyped, PrivateNamed, PrivateStages, PrivateUndoing, CopyHeld, NewWhole, CalmOld, JudgedInv,
          Withdrawing, Restoring, Rebuilding
  <2>3. ASSUME w.pc = "install", Fault \/ (NoFault /\ (w.create /\ entry["path"] # NoFile)),
               w' = [w EXCEPT !.pc = "rollback", !.started = TRUE, !.error = "raised"],
               entry' = entry, content' = content
        PROVE  PrivateInv'
    <3>1. /\ w' \in PrivateRecord
          /\ w'.pc = "rollback" /\ w'.create = w.create /\ w'.found = w.found
          /\ w'.owned = w.owned /\ w'.named = w.named /\ w'.started = TRUE
          /\ w'.committed = w.committed /\ w'.kept = w.kept /\ w'.keepNew = w.keepNew
          /\ w'.error = "raised"
      BY <2>3 DEF PrivateTyped, PrivateRecord, PrivateSteps, PrivateEnds, Inodes, Names, NoFile
    <3>2. PrivateTyped' /\ PrivateCounted' /\ limit' = limit /\ before' = before
          /\ budget'.faults <= budget.faults /\ budget'.foreign = budget.foreign
          /\ (Fault => budget'.faults < budget.faults) /\ (NoFault => budget' = budget)
      BY <2>3, <3>1, TroubleMet, TroubleCounts DEF PrivateTyped, PrivateCounted
    <3> HIDE DEF PrivateRecord
    <3> QED
      BY <2>3, <3>1, <3>2
      DEF PrivateInv, PrivateTyped, PrivateNamed, PrivateStages, PrivateUndoing, CopyHeld, NewWhole, CalmOld, JudgedInv,
          Withdrawing, Restoring, Rebuilding
  <2> QED BY <1>12, <2>1, <2>2, <2>3 DEF InstallTemp, Goto, Renamed, Bound, PrivateUndoing, PrivateStages, PrivateTyped
<1>13. CASE Rollback
  <2>1. ASSUME w.pc = "rollback", NoFault, ~w.started, w' = [w EXCEPT !.pc = "cleanTemp"],
               entry' = entry, content' = content
        PROVE  PrivateInv'
    <3>1. MovesTo("cleanTemp") /\ w'.error = w.error /\ TroubleSpent
      BY <2>1, PrivateGoes DEF PrivateTyped
    <3> HIDE DEF PrivateRecord
    <3> QED
      BY <2>1, <3>1
      DEF MovesTo, TroubleSpent, PrivateInv, PrivateTyped, PrivateNamed, PrivateStages, PrivateUndoing,
          CopyHeld, NewWhole, CalmOld, JudgedInv, Withdrawing, Restoring, Rebuilding
  <2>2. ASSUME w.pc = "rollback", NoFault, w.started, w.found = NoFile,
               CanonicalState = "writer", w' = [w EXCEPT !.pc = "owned"], entry' = entry,
               content' = content
        PROVE  PrivateInv'
    <3>1. MovesTo("owned") /\ w'.error = w.error /\ TroubleSpent
      BY <2>2, PrivateGoes DEF PrivateTyped
    <3> HIDE DEF PrivateRecord
    <3> QED
      BY <2>2, <3>1
      DEF MovesTo, TroubleSpent, PrivateInv, PrivateTyped, PrivateNamed, PrivateStages, PrivateUndoing,
          CopyHeld, NewWhole, CalmOld, JudgedInv, Withdrawing, Restoring, Rebuilding
  <2>3. ASSUME w.pc = "rollback", NoFault, w.started,
               CanonicalState = "original" \/ (w.found = NoFile /\ CanonicalState = "missing"),
               w' = [w EXCEPT !.pc = "wipe"], entry' = entry, content' = content
        PROVE  PrivateInv'
    <3>1. MovesTo("wipe") /\ w'.error = w.error /\ TroubleSpent
      BY <2>3, PrivateGoes DEF PrivateTyped
    <3> HIDE DEF PrivateRecord
    <3> QED
      BY <2>3, <3>1
      DEF MovesTo, TroubleSpent, PrivateInv, PrivateTyped, PrivateNamed, PrivateStages, PrivateUndoing,
          CopyHeld, NewWhole, CalmOld, JudgedInv, Withdrawing, Restoring, Rebuilding
  <2>4. ASSUME w.pc = "rollback", NoFault, w.started, w.found # NoFile,
               CanonicalState \in {"writer", "missing"}, w' = [w EXCEPT !.pc = "restore"],
               entry' = entry, content' = content
        PROVE  PrivateInv'
    <3>1. MovesTo("restore") /\ w'.error = w.error /\ TroubleSpent
      BY <2>4, PrivateGoes DEF PrivateTyped
    <3> HIDE DEF PrivateRecord
    <3> QED
      BY <2>4, <3>1
      DEF MovesTo, TroubleSpent, PrivateInv, PrivateTyped, PrivateNamed, PrivateStages, PrivateUndoing,
          CopyHeld, NewWhole, CalmOld, JudgedInv, Withdrawing, Restoring, Rebuilding
  <2>5. ASSUME w.pc = "rollback", w.started, ~w.named,
               Fault \/ (NoFault /\ CanonicalState = "unknown"),
               w' = [w EXCEPT !.pc = "cleanTemp"], entry' = entry, content' = content
        PROVE  PrivateInv'
    <3>1. MovesTo("cleanTemp") /\ w'.error = w.error /\ TroubleSpent
      BY <2>5, PrivateGoes DEF PrivateTyped
    <3> HIDE DEF PrivateRecord
    <3> QED
      BY <2>5, <3>1
      DEF MovesTo, TroubleSpent, PrivateInv, PrivateTyped, PrivateNamed, PrivateStages, PrivateUndoing,
          CopyHeld, NewWhole, CalmOld, JudgedInv, Withdrawing, Restoring, Rebuilding
  <2>6. ASSUME w.pc = "rollback", w.started, w.named,
               Fault \/ (NoFault /\ CanonicalState = "unknown"),
               w' = [w EXCEPT !.pc = "cleanTemp", !.kept = TRUE], entry' = entry,
               content' = content
        PROVE  PrivateInv'
    <3>1. /\ w' \in PrivateRecord
          /\ w'.pc = "cleanTemp" /\ w'.create = w.create /\ w'.found = w.found
          /\ w'.owned = w.owned /\ w'.named = w.named /\ w'.started = w.started
          /\ w'.committed = w.committed /\ w'.kept = TRUE /\ w'.keepNew = w.keepNew
          /\ w'.error = w.error
      BY <2>6 DEF PrivateTyped, PrivateRecord, PrivateSteps, PrivateEnds, Inodes, Names, NoFile
    <3>2. TroubleSpent
      BY <2>6, <3>1, TroubleMet, TroubleCounts DEF PrivateTyped, PrivateCounted, TroubleSpent
    <3> HIDE DEF PrivateRecord
    <3> QED
      BY <2>6, <3>1, <3>2
      DEF TroubleSpent, PrivateInv, PrivateTyped, PrivateNamed, PrivateStages, PrivateUndoing,
          CopyHeld, NewWhole, CalmOld, JudgedInv, Withdrawing, Restoring, Rebuilding
  <2> QED BY <1>13, <2>1, <2>2, <2>3, <2>4, <2>5, <2>6, GivesUp DEF Rollback, Goto, PrivateUndoing, PrivateStages, PrivateTyped
<1>14. CASE RemoveInstalled
  <2>1. ASSUME w.pc = "owned", NoFault, entry["path"] = "written",
               w' = [w EXCEPT !.pc = "unlink"], entry' = entry, content' = content
        PROVE  PrivateInv'
    <3>1. MovesTo("unlink") /\ w'.error = w.error /\ TroubleSpent
      BY <2>1, PrivateGoes DEF PrivateTyped
    <3> HIDE DEF PrivateRecord
    <3> QED
      BY <2>1, <3>1
      DEF MovesTo, TroubleSpent, PrivateInv, PrivateTyped, PrivateNamed, PrivateStages, PrivateUndoing,
          CopyHeld, NewWhole, CalmOld, JudgedInv, Withdrawing, Restoring, Rebuilding
  <2>2. ASSUME w.pc = "owned", NoFault, entry["path"] = NoFile, w' = [w EXCEPT !.pc = "wipe"],
               entry' = entry, content' = content
        PROVE  PrivateInv'
    <3>1. MovesTo("wipe") /\ w'.error = w.error /\ TroubleSpent
      BY <2>2, PrivateGoes DEF PrivateTyped
    <3> HIDE DEF PrivateRecord
    <3> QED
      BY <2>2, <3>1
      DEF MovesTo, TroubleSpent, PrivateInv, PrivateTyped, PrivateNamed, PrivateStages, PrivateUndoing,
          CopyHeld, NewWhole, CalmOld, JudgedInv, Withdrawing, Restoring, Rebuilding
  <2>3. ASSUME w.pc = "owned", ~w.named,
               Fault \/ (NoFault /\ entry["path"] \notin {"written", NoFile}),
               w' = [w EXCEPT !.pc = "cleanTemp"], entry' = entry, content' = content
        PROVE  PrivateInv'
    <3>1. MovesTo("cleanTemp") /\ w'.error = w.error /\ TroubleSpent
      BY <2>3, PrivateGoes DEF PrivateTyped
    <3> HIDE DEF PrivateRecord
    <3> QED
      BY <2>3, <3>1
      DEF MovesTo, TroubleSpent, PrivateInv, PrivateTyped, PrivateNamed, PrivateStages, PrivateUndoing,
          CopyHeld, NewWhole, CalmOld, JudgedInv, Withdrawing, Restoring, Rebuilding
  <2> QED BY <1>14, <2>1, <2>2, <2>3, GivesUp DEF RemoveInstalled, Goto, PrivateUndoing, PrivateStages, PrivateTyped,
    Withdrawing, Restoring, BackupIntact
<1>15. CASE UnlinkInstalled
  <2>1. ASSUME w.pc = "unlink", NoFault, w' = [w EXCEPT !.pc = "wipe"],
               entry' = [entry EXCEPT !["path"] = NoFile], content' = content
        PROVE  PrivateInv'
    <3>1. /\ entry' \in [Names -> Inodes \cup {NoFile}]
          /\ entry'["path"] = NoFile /\ entry'["temp"] = entry["temp"] /\ entry'["backup"] = entry["backup"]
      BY <2>1 DEF PrivateTyped, Names, Inodes, NoFile
    <3>2. MovesTo("wipe") /\ w'.error = w.error /\ TroubleSpent
      BY <2>1, <3>1, PrivateGoes DEF PrivateTyped
    <3> HIDE DEF PrivateRecord
    <3> QED
      BY <2>1, <3>1, <3>2
      DEF MovesTo, TroubleSpent, PrivateInv, PrivateTyped, PrivateNamed, PrivateStages, PrivateUndoing,
          CopyHeld, NewWhole, CalmOld, JudgedInv, Withdrawing, Restoring, Rebuilding
  <2>2. ASSUME w.pc = "unlink", ~w.named, Fault \/ (NoFault /\ entry["path"] = NoFile),
               w' = [w EXCEPT !.pc = "cleanTemp"], entry' = entry, content' = content
        PROVE  PrivateInv'
    <3>1. MovesTo("cleanTemp") /\ w'.error = w.error /\ TroubleSpent
      BY <2>2, PrivateGoes DEF PrivateTyped
    <3> HIDE DEF PrivateRecord
    <3> QED
      BY <2>2, <3>1
      DEF MovesTo, TroubleSpent, PrivateInv, PrivateTyped, PrivateNamed, PrivateStages, PrivateUndoing,
          CopyHeld, NewWhole, CalmOld, JudgedInv, Withdrawing, Restoring, Rebuilding
  <2>3. ASSUME w.pc = "unlink", ~w.named, Fault, w' = [w EXCEPT !.pc = "cleanTemp"],
               entry' = [entry EXCEPT !["path"] = NoFile], content' = content
        PROVE  PrivateInv'
    <3>1. /\ entry' \in [Names -> Inodes \cup {NoFile}]
          /\ entry'["path"] = NoFile /\ entry'["temp"] = entry["temp"] /\ entry'["backup"] = entry["backup"]
      BY <2>3 DEF PrivateTyped, Names, Inodes, NoFile
    <3>2. MovesTo("cleanTemp") /\ w'.error = w.error /\ TroubleSpent
      BY <2>3, <3>1, PrivateGoes DEF PrivateTyped
    <3> HIDE DEF PrivateRecord
    <3> QED
      BY <2>3, <3>1, <3>2
      DEF MovesTo, TroubleSpent, PrivateInv, PrivateTyped, PrivateNamed, PrivateStages, PrivateUndoing,
          CopyHeld, NewWhole, CalmOld, JudgedInv, Withdrawing, Restoring, Rebuilding
  <2> QED BY <1>15, <2>1, <2>2, <2>3, GivesUp DEF UnlinkInstalled, Goto, Bound, PrivateUndoing, PrivateStages, PrivateTyped,
    Withdrawing, Restoring, BackupIntact
<1>16. CASE RestoreBackup
  <2>1. ASSUME w.pc = "restore", NoFault, BackupIntact, w' = [w EXCEPT !.pc = "look"],
               entry' = entry, content' = content
        PROVE  PrivateInv'
    <3>1. MovesTo("look") /\ w'.error = w.error /\ TroubleSpent
      BY <2>1, PrivateGoes DEF PrivateTyped
    <3> HIDE DEF PrivateRecord
    <3> QED
      BY <2>1, <3>1
      DEF MovesTo, TroubleSpent, PrivateInv, PrivateTyped, PrivateNamed, PrivateStages, PrivateUndoing,
          CopyHeld, NewWhole, CalmOld, JudgedInv, Withdrawing, Restoring, Rebuilding, BackupIntact
  <2>2. ASSUME w.pc = "restore", w.named, Fault \/ (NoFault /\ ~BackupIntact),
               w' = [w EXCEPT !.pc = "cleanTemp", !.kept = TRUE, !.keepNew = TRUE],
               entry' = entry, content' = content
        PROVE  PrivateInv'
    <3>1. /\ w' \in PrivateRecord
          /\ w'.pc = "cleanTemp" /\ w'.create = w.create /\ w'.found = w.found
          /\ w'.owned = w.owned /\ w'.named = w.named /\ w'.started = w.started
          /\ w'.committed = w.committed /\ w'.kept = TRUE /\ w'.keepNew = TRUE
          /\ w'.error = w.error
      BY <2>2 DEF PrivateTyped, PrivateRecord, PrivateSteps, PrivateEnds, Inodes, Names, NoFile
    <3>2. TroubleSpent
      BY <2>2, <3>1, TroubleMet, TroubleCounts DEF PrivateTyped, PrivateCounted, TroubleSpent
    <3> HIDE DEF PrivateRecord
    <3> QED
      BY <2>2, <3>1, <3>2
      DEF TroubleSpent, PrivateInv, PrivateTyped, PrivateNamed, PrivateStages, PrivateUndoing,
          CopyHeld, NewWhole, CalmOld, JudgedInv, Withdrawing, Restoring, Rebuilding, BackupIntact
  <2> QED BY <1>16, <2>1, <2>2, GivesUpRestoring DEF RestoreBackup, Goto, PrivateUndoing, PrivateStages, PrivateTyped,
    Withdrawing, Restoring, BackupIntact
<1>17. CASE LookBeforeRestore
  <2>1. ASSUME w.pc = "look", NoFault, CanonicalState = "original",
               w' = [w EXCEPT !.pc = "wipe"], entry' = entry, content' = content
        PROVE  PrivateInv'
    <3>1. MovesTo("wipe") /\ w'.error = w.error /\ TroubleSpent
      BY <2>1, PrivateGoes DEF PrivateTyped
    <3> HIDE DEF PrivateRecord
    <3> QED
      BY <2>1, <3>1
      DEF MovesTo, TroubleSpent, PrivateInv, PrivateTyped, PrivateNamed, PrivateStages, PrivateUndoing,
          CopyHeld, NewWhole, CalmOld, JudgedInv, Withdrawing, Restoring, Rebuilding
  <2>2. ASSUME w.pc = "look", NoFault, CanonicalState \in {"writer", "missing"},
               w' = [w EXCEPT !.pc = "replace"], entry' = entry, content' = content
        PROVE  PrivateInv'
    <3>1. MovesTo("replace") /\ w'.error = w.error /\ TroubleSpent
      BY <2>2, PrivateGoes DEF PrivateTyped
    <3> HIDE DEF PrivateRecord
    <3> QED
      BY <2>2, <3>1
      DEF MovesTo, TroubleSpent, PrivateInv, PrivateTyped, PrivateNamed, PrivateStages, PrivateUndoing,
          CopyHeld, NewWhole, CalmOld, JudgedInv, Withdrawing, Restoring, Rebuilding
  <2>3. ASSUME w.pc = "look", w.named, Fault \/ (NoFault /\ CanonicalState = "unknown"),
               w' = [w EXCEPT !.pc = "cleanTemp", !.kept = TRUE, !.keepNew = TRUE],
               entry' = entry, content' = content
        PROVE  PrivateInv'
    <3>1. /\ w' \in PrivateRecord
          /\ w'.pc = "cleanTemp" /\ w'.create = w.create /\ w'.found = w.found
          /\ w'.owned = w.owned /\ w'.named = w.named /\ w'.started = w.started
          /\ w'.committed = w.committed /\ w'.kept = TRUE /\ w'.keepNew = TRUE
          /\ w'.error = w.error
      BY <2>3 DEF PrivateTyped, PrivateRecord, PrivateSteps, PrivateEnds, Inodes, Names, NoFile
    <3>2. TroubleSpent
      BY <2>3, <3>1, TroubleMet, TroubleCounts DEF PrivateTyped, PrivateCounted, TroubleSpent
    <3> HIDE DEF PrivateRecord
    <3> QED
      BY <2>3, <3>1, <3>2
      DEF TroubleSpent, PrivateInv, PrivateTyped, PrivateNamed, PrivateStages, PrivateUndoing,
          CopyHeld, NewWhole, CalmOld, JudgedInv, Withdrawing, Restoring, Rebuilding
  <2> QED BY <1>17, <2>1, <2>2, <2>3, GivesUpRestoring DEF LookBeforeRestore, Goto, PrivateUndoing, PrivateStages, PrivateTyped,
    Withdrawing, Restoring, BackupIntact
<1>18. CASE ReplaceByBackup
  <2>1. ASSUME w.pc = "replace", NoFault, entry["backup"] # NoFile,
               w' = [w EXCEPT !.pc = "restored", !.named = FALSE],
               entry' = [entry EXCEPT !["path"] = entry["backup"], !["backup"] = NoFile],
               content' = content
        PROVE  PrivateInv'
    <3>1. /\ w' \in PrivateRecord
          /\ w'.pc = "restored" /\ w'.create = w.create /\ w'.found = w.found
          /\ w'.owned = w.owned /\ w'.named = FALSE /\ w'.started = w.started
          /\ w'.committed = w.committed /\ w'.kept = w.kept /\ w'.keepNew = w.keepNew
          /\ w'.error = w.error
      BY <2>1 DEF PrivateTyped, PrivateRecord, PrivateSteps, PrivateEnds, Inodes, Names, NoFile
    <3>2. /\ entry' \in [Names -> Inodes \cup {NoFile}]
          /\ entry'["path"] = entry["backup"] /\ entry'["temp"] = entry["temp"]
          /\ entry'["backup"] = NoFile
      BY <2>1 DEF PrivateTyped, Names, Inodes, NoFile
    <3>3. TroubleSpent
      BY <2>1, <3>1, <3>2, TroubleMet, TroubleCounts DEF PrivateTyped, PrivateCounted, TroubleSpent
    <3> HIDE DEF PrivateRecord
    <3> QED
      BY <2>1, <3>1, <3>2, <3>3
      DEF TroubleSpent, PrivateInv, PrivateTyped, PrivateNamed, PrivateStages, PrivateUndoing,
          CopyHeld, NewWhole, CalmOld, JudgedInv, Withdrawing, Restoring, Rebuilding
  <2>2. ASSUME w.pc = "replace", w.named, Fault \/ (NoFault /\ entry["backup"] = NoFile),
               w' = [w EXCEPT !.pc = "cleanTemp", !.kept = TRUE, !.keepNew = TRUE],
               entry' = entry, content' = content
        PROVE  PrivateInv'
    <3>1. /\ w' \in PrivateRecord
          /\ w'.pc = "cleanTemp" /\ w'.create = w.create /\ w'.found = w.found
          /\ w'.owned = w.owned /\ w'.named = w.named /\ w'.started = w.started
          /\ w'.committed = w.committed /\ w'.kept = TRUE /\ w'.keepNew = TRUE
          /\ w'.error = w.error
      BY <2>2 DEF PrivateTyped, PrivateRecord, PrivateSteps, PrivateEnds, Inodes, Names, NoFile
    <3>2. TroubleSpent
      BY <2>2, <3>1, TroubleMet, TroubleCounts DEF PrivateTyped, PrivateCounted, TroubleSpent
    <3> HIDE DEF PrivateRecord
    <3> QED
      BY <2>2, <3>1, <3>2
      DEF TroubleSpent, PrivateInv, PrivateTyped, PrivateNamed, PrivateStages, PrivateUndoing,
          CopyHeld, NewWhole, CalmOld, JudgedInv, Withdrawing, Restoring, Rebuilding
  <2> QED BY <1>18, <2>1, <2>2, GivesUpRestoring DEF ReplaceByBackup, Goto, Renamed, PrivateUndoing, PrivateStages, PrivateTyped,
    Withdrawing, Restoring, BackupIntact
<1>19. CASE VerifyRestored
  <2>1. ASSUME w.pc = "restored", entry["path"] = "copy", NoFault, w' = [w EXCEPT !.pc = "wipe"],
               entry' = entry, content' = content
        PROVE  PrivateInv'
    <3>1. /\ w' \in PrivateRecord
          /\ w'.pc = "wipe" /\ w'.create = w.create /\ w'.found = w.found /\ w'.owned = w.owned
          /\ w'.named = w.named /\ w'.started = w.started /\ w'.committed = w.committed
          /\ w'.kept = w.kept /\ w'.keepNew = w.keepNew /\ w'.error = w.error
      BY <2>1 DEF PrivateTyped, PrivateRecord, PrivateSteps, PrivateEnds, Inodes, Names, NoFile
    <3>2. PrivateTyped' /\ PrivateCounted' /\ limit' = limit /\ before' = before
          /\ budget'.faults <= budget.faults /\ budget'.foreign = budget.foreign
          /\ (Fault => budget'.faults < budget.faults) /\ (NoFault => budget' = budget)
      BY <2>1, <3>1, TroubleMet, TroubleCounts DEF PrivateTyped, PrivateCounted
    <3> HIDE DEF PrivateRecord
    <3> QED
      BY <2>1, <3>1, <3>2
      DEF PrivateInv, PrivateTyped, PrivateNamed, PrivateStages, PrivateUndoing, CopyHeld, NewWhole, CalmOld, JudgedInv,
          Withdrawing, Restoring, Rebuilding
  <2>2. ASSUME w.pc = "restored", ~w.named, Fault \/ (NoFault /\ (entry["path"] # "copy")),
               w' = [w EXCEPT !.pc = "cleanTemp"], entry' = entry, content' = content
        PROVE  PrivateInv'
    <3>1. /\ w' \in PrivateRecord
          /\ w'.pc = "cleanTemp" /\ w'.create = w.create /\ w'.found = w.found
          /\ w'.owned = w.owned /\ w'.named = w.named /\ w'.started = w.started
          /\ w'.committed = w.committed /\ w'.kept = w.kept /\ w'.keepNew = w.keepNew
          /\ w'.error = w.error
      BY <2>2 DEF PrivateTyped, PrivateRecord, PrivateSteps, PrivateEnds, Inodes, Names, NoFile
    <3>2. PrivateTyped' /\ PrivateCounted' /\ limit' = limit /\ before' = before
          /\ budget'.faults <= budget.faults /\ budget'.foreign = budget.foreign
          /\ (Fault => budget'.faults < budget.faults) /\ (NoFault => budget' = budget)
      BY <2>2, <3>1, TroubleMet, TroubleCounts DEF PrivateTyped, PrivateCounted
    <3> HIDE DEF PrivateRecord
    <3> QED
      BY <2>2, <3>1, <3>2
      DEF PrivateInv, PrivateTyped, PrivateNamed, PrivateStages, PrivateUndoing, CopyHeld, NewWhole, CalmOld, JudgedInv,
          Withdrawing, Restoring, Rebuilding
  <2> QED BY <1>19, <2>1, <2>2, GivesUpRestoring DEF VerifyRestored, Goto, PrivateUndoing, PrivateStages, PrivateTyped
<1>20. CASE WipeWritten
  <2>1. ASSUME w.pc = "wipe", NoFault, w' = [w EXCEPT !.pc = "cleanTemp"], entry' = entry,
               content' = [content EXCEPT !["written"] = "empty"]
        PROVE  PrivateInv'
    <3>1. /\ w' \in PrivateRecord
          /\ w'.pc = "cleanTemp" /\ w'.create = w.create /\ w'.found = w.found
          /\ w'.owned = w.owned /\ w'.named = w.named /\ w'.started = w.started
          /\ w'.committed = w.committed /\ w'.kept = w.kept /\ w'.keepNew = w.keepNew
          /\ w'.error = w.error
      BY <2>1 DEF PrivateTyped, PrivateRecord, PrivateSteps, PrivateEnds, Inodes, Names, NoFile
    <3>2. /\ content' \in [Inodes -> Contents]
          /\ content'["original"] = content["original"] /\ content'["written"] = "empty"
          /\ content'["copy"] = content["copy"] /\ content'["rebuilt"] = content["rebuilt"]
          /\ content'["foreign"] = content["foreign"]
      BY <2>1 DEF PrivateTyped, Inodes, Contents, NoFile, PrivateNamed, PrivateStages
    <3>3. PrivateTyped' /\ PrivateCounted' /\ limit' = limit /\ before' = before
          /\ budget'.faults <= budget.faults /\ budget'.foreign = budget.foreign
          /\ (Fault => budget'.faults < budget.faults) /\ (NoFault => budget' = budget)
      BY <2>1, <3>1, <3>2, TroubleMet, TroubleCounts DEF PrivateTyped, PrivateCounted
    <3> HIDE DEF PrivateRecord
    <3> QED
      BY <2>1, <3>1, <3>2, <3>3
      DEF PrivateInv, PrivateTyped, PrivateNamed, PrivateStages, PrivateUndoing, CopyHeld, NewWhole, CalmOld, JudgedInv,
          Withdrawing, Restoring, Rebuilding
  <2>2. ASSUME w.pc = "wipe", Fault, w.named, w' = [w EXCEPT !.pc = "cleanTemp", !.kept = TRUE],
               entry' = entry, content' = content
        PROVE  PrivateInv'
    <3>1. /\ w' \in PrivateRecord
          /\ w'.pc = "cleanTemp" /\ w'.create = w.create /\ w'.found = w.found
          /\ w'.owned = w.owned /\ w'.named = w.named /\ w'.started = w.started
          /\ w'.committed = w.committed /\ w'.kept = TRUE /\ w'.keepNew = w.keepNew
          /\ w'.error = w.error
      BY <2>2 DEF PrivateTyped, PrivateRecord, PrivateSteps, PrivateEnds, Inodes, Names, NoFile
    <3>2. PrivateTyped' /\ PrivateCounted' /\ limit' = limit /\ before' = before
          /\ budget'.faults <= budget.faults /\ budget'.foreign = budget.foreign
          /\ (Fault => budget'.faults < budget.faults) /\ (NoFault => budget' = budget)
      BY <2>2, <3>1, TroubleMet, TroubleCounts DEF PrivateTyped, PrivateCounted
    <3> HIDE DEF PrivateRecord
    <3> QED
      BY <2>2, <3>1, <3>2
      DEF PrivateInv, PrivateTyped, PrivateNamed, PrivateStages, PrivateUndoing, CopyHeld, NewWhole, CalmOld, JudgedInv,
          Withdrawing, Restoring, Rebuilding
  <2>3. ASSUME w.pc = "wipe", Fault, ~w.named, w' = [w EXCEPT !.pc = "cleanTemp"], entry' = entry,
               content' = content
        PROVE  PrivateInv'
    <3>1. /\ w' \in PrivateRecord
          /\ w'.pc = "cleanTemp" /\ w'.create = w.create /\ w'.found = w.found
          /\ w'.owned = w.owned /\ w'.named = w.named /\ w'.started = w.started
          /\ w'.committed = w.committed /\ w'.kept = w.kept /\ w'.keepNew = w.keepNew
          /\ w'.error = w.error
      BY <2>3 DEF PrivateTyped, PrivateRecord, PrivateSteps, PrivateEnds, Inodes, Names, NoFile
    <3>2. PrivateTyped' /\ PrivateCounted' /\ limit' = limit /\ before' = before
          /\ budget'.faults <= budget.faults /\ budget'.foreign = budget.foreign
          /\ (Fault => budget'.faults < budget.faults) /\ (NoFault => budget' = budget)
      BY <2>3, <3>1, TroubleMet, TroubleCounts DEF PrivateTyped, PrivateCounted
    <3> HIDE DEF PrivateRecord
    <3> QED
      BY <2>3, <3>1, <3>2
      DEF PrivateInv, PrivateTyped, PrivateNamed, PrivateStages, PrivateUndoing, CopyHeld, NewWhole, CalmOld, JudgedInv,
          Withdrawing, Restoring, Rebuilding
  <2> QED BY <1>20, <2>1, <2>2, <2>3, GivesUp DEF WipeWritten, Goto, PrivateUndoing, PrivateStages, PrivateUndoing, PrivateStages, PrivateTyped
<1>21. CASE CleanupTemp
  <2>1. ASSUME w.pc = "cleanTemp", Fault \/ NoFault, w' = [w EXCEPT !.pc = "cleanBackup"],
               entry' = entry, content' = content
        PROVE  PrivateInv'
    <3>1. /\ w' \in PrivateRecord
          /\ w'.pc = "cleanBackup" /\ w'.create = w.create /\ w'.found = w.found
          /\ w'.owned = w.owned /\ w'.named = w.named /\ w'.started = w.started
          /\ w'.committed = w.committed /\ w'.kept = w.kept /\ w'.keepNew = w.keepNew
          /\ w'.error = w.error
      BY <2>1 DEF PrivateTyped, PrivateRecord, PrivateSteps, PrivateEnds, Inodes, Names, NoFile
    <3>2. PrivateTyped' /\ PrivateCounted' /\ limit' = limit /\ before' = before
          /\ budget'.faults <= budget.faults /\ budget'.foreign = budget.foreign
          /\ (Fault => budget'.faults < budget.faults) /\ (NoFault => budget' = budget)
      BY <2>1, <3>1, TroubleMet, TroubleCounts DEF PrivateTyped, PrivateCounted
    <3> HIDE DEF PrivateRecord
    <3> QED
      BY <2>1, <3>1, <3>2
      DEF PrivateInv, PrivateTyped, PrivateNamed, PrivateStages, PrivateUndoing, CopyHeld, NewWhole, CalmOld, JudgedInv,
          Withdrawing, Restoring, Rebuilding
  <2>2. ASSUME w.pc = "cleanTemp", Fault \/ NoFault, ~w.committed, ~w.keepNew,
               w' = [w EXCEPT !.pc = "cleanBackup"], entry' = entry,
               content' = [content EXCEPT !["written"] = "empty"]
        PROVE  PrivateInv'
    <3>1. /\ w' \in PrivateRecord
          /\ w'.pc = "cleanBackup" /\ w'.create = w.create /\ w'.found = w.found
          /\ w'.owned = w.owned /\ w'.named = w.named /\ w'.started = w.started
          /\ w'.committed = w.committed /\ w'.kept = w.kept /\ w'.keepNew = w.keepNew
          /\ w'.error = w.error
      BY <2>2 DEF PrivateTyped, PrivateRecord, PrivateSteps, PrivateEnds, Inodes, Names, NoFile
    <3>2. /\ content' \in [Inodes -> Contents]
          /\ content'["original"] = content["original"] /\ content'["written"] = "empty"
          /\ content'["copy"] = content["copy"] /\ content'["rebuilt"] = content["rebuilt"]
          /\ content'["foreign"] = content["foreign"]
      BY <2>2 DEF PrivateTyped, Inodes, Contents, NoFile, PrivateNamed, PrivateStages
    <3>3. PrivateTyped' /\ PrivateCounted' /\ limit' = limit /\ before' = before
          /\ budget'.faults <= budget.faults /\ budget'.foreign = budget.foreign
          /\ (Fault => budget'.faults < budget.faults) /\ (NoFault => budget' = budget)
      BY <2>2, <3>1, <3>2, TroubleMet, TroubleCounts DEF PrivateTyped, PrivateCounted
    <3> HIDE DEF PrivateRecord
    <3> QED
      BY <2>2, <3>1, <3>2, <3>3
      DEF PrivateInv, PrivateTyped, PrivateNamed, PrivateStages, PrivateUndoing, CopyHeld, NewWhole, CalmOld, JudgedInv,
          Withdrawing, Restoring, Rebuilding
  <2>3. ASSUME w.pc = "cleanTemp", Fault \/ NoFault, w' = [w EXCEPT !.pc = "cleanBackup"],
               entry' = [entry EXCEPT !["temp"] = NoFile], content' = content
        PROVE  PrivateInv'
    <3>1. /\ w' \in PrivateRecord
          /\ w'.pc = "cleanBackup" /\ w'.create = w.create /\ w'.found = w.found
          /\ w'.owned = w.owned /\ w'.named = w.named /\ w'.started = w.started
          /\ w'.committed = w.committed /\ w'.kept = w.kept /\ w'.keepNew = w.keepNew
          /\ w'.error = w.error
      BY <2>3 DEF PrivateTyped, PrivateRecord, PrivateSteps, PrivateEnds, Inodes, Names, NoFile
    <3>2. /\ entry' \in [Names -> Inodes \cup {NoFile}]
          /\ entry'["path"] = entry["path"] /\ entry'["temp"] = NoFile
          /\ entry'["backup"] = entry["backup"]
      BY <2>3 DEF PrivateTyped, Names, Inodes, NoFile
    <3>3. PrivateTyped' /\ PrivateCounted' /\ limit' = limit /\ before' = before
          /\ budget'.faults <= budget.faults /\ budget'.foreign = budget.foreign
          /\ (Fault => budget'.faults < budget.faults) /\ (NoFault => budget' = budget)
      BY <2>3, <3>1, <3>2, TroubleMet, TroubleCounts DEF PrivateTyped, PrivateCounted
    <3> HIDE DEF PrivateRecord
    <3> QED
      BY <2>3, <3>1, <3>2, <3>3
      DEF PrivateInv, PrivateTyped, PrivateNamed, PrivateStages, PrivateUndoing, CopyHeld, NewWhole, CalmOld, JudgedInv,
          Withdrawing, Restoring, Rebuilding
  <2>4. ASSUME w.pc = "cleanTemp", Fault \/ NoFault, ~w.committed, ~w.keepNew,
               w' = [w EXCEPT !.pc = "cleanBackup"], entry' = [entry EXCEPT !["temp"] = NoFile],
               content' = [content EXCEPT !["written"] = "empty"]
        PROVE  PrivateInv'
    <3>1. /\ w' \in PrivateRecord
          /\ w'.pc = "cleanBackup" /\ w'.create = w.create /\ w'.found = w.found
          /\ w'.owned = w.owned /\ w'.named = w.named /\ w'.started = w.started
          /\ w'.committed = w.committed /\ w'.kept = w.kept /\ w'.keepNew = w.keepNew
          /\ w'.error = w.error
      BY <2>4 DEF PrivateTyped, PrivateRecord, PrivateSteps, PrivateEnds, Inodes, Names, NoFile
    <3>2. /\ entry' \in [Names -> Inodes \cup {NoFile}]
          /\ entry'["path"] = entry["path"] /\ entry'["temp"] = NoFile
          /\ entry'["backup"] = entry["backup"]
      BY <2>4 DEF PrivateTyped, Names, Inodes, NoFile
    <3>3. /\ content' \in [Inodes -> Contents]
          /\ content'["original"] = content["original"] /\ content'["written"] = "empty"
          /\ content'["copy"] = content["copy"] /\ content'["rebuilt"] = content["rebuilt"]
          /\ content'["foreign"] = content["foreign"]
      BY <2>4 DEF PrivateTyped, Inodes, Contents, NoFile, PrivateNamed, PrivateStages
    <3>4. PrivateTyped' /\ PrivateCounted' /\ limit' = limit /\ before' = before
          /\ budget'.faults <= budget.faults /\ budget'.foreign = budget.foreign
          /\ (Fault => budget'.faults < budget.faults) /\ (NoFault => budget' = budget)
      BY <2>4, <3>1, <3>2, <3>3, TroubleMet, TroubleCounts DEF PrivateTyped, PrivateCounted
    <3> HIDE DEF PrivateRecord
    <3> QED
      BY <2>4, <3>1, <3>2, <3>3, <3>4
      DEF PrivateInv, PrivateTyped, PrivateNamed, PrivateStages, PrivateUndoing, CopyHeld, NewWhole, CalmOld, JudgedInv,
          Withdrawing, Restoring, Rebuilding
  <2> QED BY <1>21, <2>1, <2>2, <2>3, <2>4 DEF CleanupTemp, Goto, Removed, Bound, PrivateUndoing, PrivateStages, PrivateTyped
<1>22. CASE CleanupBackup
  <2>1. ASSUME w.pc = "cleanBackup", NoFault, ~w.named \/ w.kept,
               w' = [w EXCEPT !.pc = "close"], entry' = entry, content' = content
        PROVE  PrivateInv'
    <3>1. MovesTo("close") /\ w'.error = w.error /\ TroubleSpent
      BY <2>1, PrivateGoes DEF PrivateTyped
    <3> HIDE DEF PrivateRecord
    <3> QED
      BY <2>1, <3>1
      DEF MovesTo, TroubleSpent, PrivateInv, PrivateTyped, PrivateNamed, PrivateStages, PrivateUndoing,
          CopyHeld, NewWhole, CalmOld, JudgedInv, Withdrawing, Restoring, Rebuilding
  <2>2. ASSUME w.pc = "cleanBackup", Fault, w.named /\ ~w.kept /\ ~w.committed,
               w' = [w EXCEPT !.pc = "close"], entry' = entry, content' = content
        PROVE  PrivateInv'
    <3>1. MovesTo("close") /\ w'.error = w.error /\ TroubleSpent
      BY <2>2, PrivateGoes DEF PrivateTyped
    <3> HIDE DEF PrivateRecord
    <3> QED
      BY <2>2, <3>1
      DEF MovesTo, TroubleSpent, PrivateInv, PrivateTyped, PrivateNamed, PrivateStages, PrivateUndoing,
          CopyHeld, NewWhole, CalmOld, JudgedInv, Withdrawing, Restoring, Rebuilding
  <2>3. ASSUME w.pc = "cleanBackup", Fault \/ NoFault, w.named /\ ~w.kept /\ ~w.committed,
               w' = [w EXCEPT !.pc = "close"], entry' = entry,
               content' = [content EXCEPT !["copy"] = "empty"]
        PROVE  PrivateInv'
    <3>1. /\ content' \in [Inodes -> Contents]
          /\ content'["original"] = content["original"] /\ content'["written"] = content["written"] /\ content'["copy"] = "empty"
          /\ content'["rebuilt"] = content["rebuilt"] /\ content'["foreign"] = content["foreign"]
      BY <2>3 DEF PrivateTyped, Inodes, Contents, NoFile, PrivateNamed, PrivateStages
    <3>2. MovesTo("close") /\ w'.error = w.error /\ TroubleSpent
      BY <2>3, <3>1, PrivateGoes DEF PrivateTyped
    <3> HIDE DEF PrivateRecord
    <3> QED
      BY <2>3, <3>1, <3>2
      DEF MovesTo, TroubleSpent, PrivateInv, PrivateTyped, PrivateNamed, PrivateStages, PrivateUndoing,
          CopyHeld, NewWhole, CalmOld, JudgedInv, Withdrawing, Restoring, Rebuilding
  <2>4. ASSUME w.pc = "cleanBackup", Fault, w.named /\ ~w.kept /\ ~w.committed,
               w' = [w EXCEPT !.pc = "discard"], entry' = entry, content' = content
        PROVE  PrivateInv'
    <3>1. MovesTo("discard") /\ w'.error = w.error /\ TroubleSpent
      BY <2>4, PrivateGoes DEF PrivateTyped
    <3> HIDE DEF PrivateRecord
    <3> QED
      BY <2>4, <3>1
      DEF MovesTo, TroubleSpent, PrivateInv, PrivateTyped, PrivateNamed, PrivateStages, PrivateUndoing,
          CopyHeld, NewWhole, CalmOld, JudgedInv, Withdrawing, Restoring, Rebuilding
  <2>5. ASSUME w.pc = "cleanBackup", Fault \/ NoFault, w.named /\ ~w.kept /\ ~w.committed,
               w' = [w EXCEPT !.pc = "discard"], entry' = entry,
               content' = [content EXCEPT !["copy"] = "empty"]
        PROVE  PrivateInv'
    <3>1. /\ content' \in [Inodes -> Contents]
          /\ content'["original"] = content["original"] /\ content'["written"] = content["written"] /\ content'["copy"] = "empty"
          /\ content'["rebuilt"] = content["rebuilt"] /\ content'["foreign"] = content["foreign"]
      BY <2>5 DEF PrivateTyped, Inodes, Contents, NoFile, PrivateNamed, PrivateStages
    <3>2. MovesTo("discard") /\ w'.error = w.error /\ TroubleSpent
      BY <2>5, <3>1, PrivateGoes DEF PrivateTyped
    <3> HIDE DEF PrivateRecord
    <3> QED
      BY <2>5, <3>1, <3>2
      DEF MovesTo, TroubleSpent, PrivateInv, PrivateTyped, PrivateNamed, PrivateStages, PrivateUndoing,
          CopyHeld, NewWhole, CalmOld, JudgedInv, Withdrawing, Restoring, Rebuilding
  <2>6. ASSUME w.pc = "cleanBackup", NoFault, w.named /\ ~w.kept /\ w.committed,
               entry["backup"] = "copy", w' = [w EXCEPT !.pc = "remove"], entry' = entry,
               content' = content
        PROVE  PrivateInv'
    <3>1. MovesTo("remove") /\ w'.error = w.error /\ TroubleSpent
      BY <2>6, PrivateGoes DEF PrivateTyped
    <3> HIDE DEF PrivateRecord
    <3> QED
      BY <2>6, <3>1
      DEF MovesTo, TroubleSpent, PrivateInv, PrivateTyped, PrivateNamed, PrivateStages, PrivateUndoing,
          CopyHeld, NewWhole, CalmOld, JudgedInv, Withdrawing, Restoring, Rebuilding
  <2>7. ASSUME w.pc = "cleanBackup", Fault \/ (NoFault /\ entry["backup"] # "copy"),
               w.named /\ ~w.kept /\ w.committed,
               w' = [w EXCEPT !.pc = "rebuild", !.error = "raised"], entry' = entry,
               content' = content
        PROVE  PrivateInv'
    <3>1. MovesTo("rebuild") /\ w'.error = "raised" /\ TroubleSpent
      BY <2>7, PrivateMoves DEF PrivateTyped
    <3> HIDE DEF PrivateRecord
    <3> QED
      BY <2>7, <3>1
      DEF MovesTo, TroubleSpent, PrivateInv, PrivateTyped, PrivateNamed, PrivateStages, PrivateUndoing,
          CopyHeld, NewWhole, CalmOld, JudgedInv, Withdrawing, Restoring, Rebuilding
  <2> QED BY <1>22, <2>1, <2>2, <2>3, <2>4, <2>5, <2>6, <2>7 DEF CleanupBackup, Goto, PrivateUndoing, PrivateStages, PrivateTyped
<1>23. CASE DiscardBackup
  <2>1. ASSUME w.pc = "discard", Fault \/ NoFault, w' = [w EXCEPT !.pc = "close"],
               entry' = [entry EXCEPT !["backup"] = NoFile], content' = content
        PROVE  PrivateInv'
    <3>1. /\ entry' \in [Names -> Inodes \cup {NoFile}]
          /\ entry'["path"] = entry["path"] /\ entry'["temp"] = entry["temp"] /\ entry'["backup"] = NoFile
      BY <2>1 DEF PrivateTyped, Names, Inodes, NoFile
    <3>2. MovesTo("close") /\ w'.error = w.error /\ TroubleSpent
      BY <2>1, <3>1, PrivateGoes DEF PrivateTyped
    <3> HIDE DEF PrivateRecord
    <3> QED
      BY <2>1, <3>1, <3>2
      DEF MovesTo, TroubleSpent, PrivateInv, PrivateTyped, PrivateNamed, PrivateStages, PrivateUndoing,
          CopyHeld, NewWhole, CalmOld, JudgedInv, Withdrawing, Restoring, Rebuilding
  <2>2. ASSUME w.pc = "discard", Fault, w' = [w EXCEPT !.pc = "close"], entry' = entry,
               content' = content
        PROVE  PrivateInv'
    <3>1. MovesTo("close") /\ w'.error = w.error /\ TroubleSpent
      BY <2>2, PrivateGoes DEF PrivateTyped
    <3> HIDE DEF PrivateRecord
    <3> QED
      BY <2>2, <3>1
      DEF MovesTo, TroubleSpent, PrivateInv, PrivateTyped, PrivateNamed, PrivateStages, PrivateUndoing,
          CopyHeld, NewWhole, CalmOld, JudgedInv, Withdrawing, Restoring, Rebuilding
  <2> QED BY <1>23, <2>1, <2>2 DEF DiscardBackup, Goto, Bound, PrivateUndoing, PrivateStages, PrivateTyped
<1>24. CASE RemoveBackup
  <2>1. ASSUME w.pc = "remove", NoFault, w' = [w EXCEPT !.pc = "removeSync"],
               entry' = [entry EXCEPT !["backup"] = NoFile], content' = content
        PROVE  PrivateInv'
    <3>1. /\ entry' \in [Names -> Inodes \cup {NoFile}]
          /\ entry'["path"] = entry["path"] /\ entry'["temp"] = entry["temp"] /\ entry'["backup"] = NoFile
      BY <2>1 DEF PrivateTyped, Names, Inodes, NoFile
    <3>2. MovesTo("removeSync") /\ w'.error = w.error /\ TroubleSpent
      BY <2>1, <3>1, PrivateGoes DEF PrivateTyped
    <3> HIDE DEF PrivateRecord
    <3> QED
      BY <2>1, <3>1, <3>2
      DEF MovesTo, TroubleSpent, PrivateInv, PrivateTyped, PrivateNamed, PrivateStages, PrivateUndoing,
          CopyHeld, NewWhole, CalmOld, JudgedInv, Withdrawing, Restoring, Rebuilding
  <2>2. ASSUME w.pc = "remove", Fault \/ (NoFault /\ entry["backup"] = NoFile),
               w' = [w EXCEPT !.pc = "rebuild", !.error = "raised"], entry' = entry,
               content' = content
        PROVE  PrivateInv'
    <3>1. MovesTo("rebuild") /\ w'.error = "raised" /\ TroubleSpent
      BY <2>2, PrivateMoves DEF PrivateTyped
    <3> HIDE DEF PrivateRecord
    <3> QED
      BY <2>2, <3>1
      DEF MovesTo, TroubleSpent, PrivateInv, PrivateTyped, PrivateNamed, PrivateStages, PrivateUndoing,
          CopyHeld, NewWhole, CalmOld, JudgedInv, Withdrawing, Restoring, Rebuilding
  <2> QED BY <1>24, <2>1, <2>2 DEF RemoveBackup, Goto, Bound, PrivateUndoing, PrivateStages, PrivateTyped
<1>25. CASE SyncRemoval
  <2>1. ASSUME w.pc = "removeSync", NoFault, w' = [w EXCEPT !.pc = "close"], entry' = entry,
               content' = [content EXCEPT !["copy"] = "empty"]
        PROVE  PrivateInv'
    <3>1. /\ w' \in PrivateRecord
          /\ w'.pc = "close" /\ w'.create = w.create /\ w'.found = w.found /\ w'.owned = w.owned
          /\ w'.named = w.named /\ w'.started = w.started /\ w'.committed = w.committed
          /\ w'.kept = w.kept /\ w'.keepNew = w.keepNew /\ w'.error = w.error
      BY <2>1 DEF PrivateTyped, PrivateRecord, PrivateSteps, PrivateEnds, Inodes, Names, NoFile
    <3>2. /\ content' \in [Inodes -> Contents]
          /\ content'["original"] = content["original"]
          /\ content'["written"] = content["written"] /\ content'["copy"] = "empty"
          /\ content'["rebuilt"] = content["rebuilt"] /\ content'["foreign"] = content["foreign"]
      BY <2>1 DEF PrivateTyped, Inodes, Contents, NoFile, PrivateNamed, PrivateStages
    <3>3. PrivateTyped' /\ PrivateCounted' /\ limit' = limit /\ before' = before
          /\ budget'.faults <= budget.faults /\ budget'.foreign = budget.foreign
          /\ (Fault => budget'.faults < budget.faults) /\ (NoFault => budget' = budget)
      BY <2>1, <3>1, <3>2, TroubleMet, TroubleCounts DEF PrivateTyped, PrivateCounted
    <3> HIDE DEF PrivateRecord
    <3> QED
      BY <2>1, <3>1, <3>2, <3>3
      DEF PrivateInv, PrivateTyped, PrivateNamed, PrivateStages, PrivateUndoing, CopyHeld, NewWhole, CalmOld, JudgedInv,
          Withdrawing, Restoring, Rebuilding
  <2>2. ASSUME w.pc = "removeSync", Fault, w' = [w EXCEPT !.pc = "rebuild", !.error = "raised"],
               entry' = entry, content' = content
        PROVE  PrivateInv'
    <3>1. /\ w' \in PrivateRecord
          /\ w'.pc = "rebuild" /\ w'.create = w.create /\ w'.found = w.found
          /\ w'.owned = w.owned /\ w'.named = w.named /\ w'.started = w.started
          /\ w'.committed = w.committed /\ w'.kept = w.kept /\ w'.keepNew = w.keepNew
          /\ w'.error = "raised"
      BY <2>2 DEF PrivateTyped, PrivateRecord, PrivateSteps, PrivateEnds, Inodes, Names, NoFile
    <3>2. PrivateTyped' /\ PrivateCounted' /\ limit' = limit /\ before' = before
          /\ budget'.faults <= budget.faults /\ budget'.foreign = budget.foreign
          /\ (Fault => budget'.faults < budget.faults) /\ (NoFault => budget' = budget)
      BY <2>2, <3>1, TroubleMet, TroubleCounts DEF PrivateTyped, PrivateCounted
    <3> HIDE DEF PrivateRecord
    <3> QED
      BY <2>2, <3>1, <3>2
      DEF PrivateInv, PrivateTyped, PrivateNamed, PrivateStages, PrivateUndoing, CopyHeld, NewWhole, CalmOld, JudgedInv,
          Withdrawing, Restoring, Rebuilding
  <2> QED BY <1>25, <2>1, <2>2 DEF SyncRemoval, Goto, PrivateUndoing, PrivateStages, PrivateTyped
<1>26. CASE Rebuild
  <2>1. ASSUME w.pc = "rebuild", NoFault, CanonicalState \in {"writer", "missing"},
               w' = [w EXCEPT !.pc = "swap"], entry' = entry,
               content' = [content EXCEPT !["rebuilt"] = content["copy"]]
        PROVE  PrivateInv'
    <3>1. /\ content' \in [Inodes -> Contents]
          /\ content'["original"] = content["original"] /\ content'["written"] = content["written"] /\ content'["copy"] = content["copy"]
          /\ content'["rebuilt"] = content["copy"] /\ content'["foreign"] = content["foreign"]
      BY <2>1 DEF PrivateTyped, Inodes, Contents, NoFile, PrivateNamed, PrivateStages
    <3>2. MovesTo("swap") /\ w'.error = w.error /\ TroubleSpent
      BY <2>1, <3>1, PrivateGoes DEF PrivateTyped
    <3> HIDE DEF PrivateRecord
    <3> QED
      BY <2>1, <3>1, <3>2
      DEF MovesTo, TroubleSpent, PrivateInv, PrivateTyped, PrivateNamed, PrivateStages, PrivateUndoing,
          CopyHeld, NewWhole, CalmOld, JudgedInv, Withdrawing, Restoring, Rebuilding
  <2>2. ASSUME w.pc = "rebuild",
               Fault \/ (NoFault /\ CanonicalState \notin {"writer", "missing"}),
               w' = [w EXCEPT !.pc = "close", !.error = "ambiguous"], entry' = entry,
               content' = content
        PROVE  PrivateInv'
    <3>1. MovesTo("close") /\ w'.error = "ambiguous" /\ TroubleSpent
      BY <2>2, PrivateMoves DEF PrivateTyped
    <3> HIDE DEF PrivateRecord
    <3> QED
      BY <2>2, <3>1
      DEF MovesTo, TroubleSpent, PrivateInv, PrivateTyped, PrivateNamed, PrivateStages, PrivateUndoing,
          CopyHeld, NewWhole, CalmOld, JudgedInv, Withdrawing, Restoring, Rebuilding
  <2> QED BY <1>26, <2>1, <2>2 DEF Rebuild, Goto, PrivateUndoing, PrivateStages, PrivateTyped
<1>27. CASE SwapRebuilt
  <2>1. ASSUME w.pc = "swap", NoFault, w' = [w EXCEPT !.pc = "rebuilt"],
               entry' = [entry EXCEPT !["path"] = "rebuilt"], content' = content
        PROVE  PrivateInv'
    <3>1. /\ entry' \in [Names -> Inodes \cup {NoFile}]
          /\ entry'["path"] = "rebuilt" /\ entry'["temp"] = entry["temp"] /\ entry'["backup"] = entry["backup"]
      BY <2>1 DEF PrivateTyped, Names, Inodes, NoFile
    <3>2. MovesTo("rebuilt") /\ w'.error = w.error /\ TroubleSpent
      BY <2>1, <3>1, PrivateGoes DEF PrivateTyped
    <3> HIDE DEF PrivateRecord
    <3> QED
      BY <2>1, <3>1, <3>2
      DEF MovesTo, TroubleSpent, PrivateInv, PrivateTyped, PrivateNamed, PrivateStages, PrivateUndoing,
          CopyHeld, NewWhole, CalmOld, JudgedInv, Withdrawing, Restoring, Rebuilding
  <2>2. ASSUME w.pc = "swap", Fault, w' = [w EXCEPT !.pc = "close", !.error = "ambiguous"],
               entry' = entry, content' = content
        PROVE  PrivateInv'
    <3>1. MovesTo("close") /\ w'.error = "ambiguous" /\ TroubleSpent
      BY <2>2, PrivateMoves DEF PrivateTyped
    <3> HIDE DEF PrivateRecord
    <3> QED
      BY <2>2, <3>1
      DEF MovesTo, TroubleSpent, PrivateInv, PrivateTyped, PrivateNamed, PrivateStages, PrivateUndoing,
          CopyHeld, NewWhole, CalmOld, JudgedInv, Withdrawing, Restoring, Rebuilding
  <2> QED BY <1>27, <2>1, <2>2 DEF SwapRebuilt, Goto, Bound, PrivateUndoing, PrivateStages, PrivateTyped
<1>28. CASE FinishRebuild
  <2>1. ASSUME w.pc = "rebuilt", NoFault, entry["path"] = "rebuilt",
               w' = [w EXCEPT !.pc = "close", !.committed = FALSE], entry' = entry,
               content' = [content EXCEPT !["written"] = "empty"]
        PROVE  PrivateInv'
    <3>1. /\ w' \in PrivateRecord
          /\ w'.pc = "close" /\ w'.create = w.create /\ w'.found = w.found /\ w'.owned = w.owned
          /\ w'.named = w.named /\ w'.started = w.started /\ w'.committed = FALSE
          /\ w'.kept = w.kept /\ w'.keepNew = w.keepNew /\ w'.error = w.error
      BY <2>1 DEF PrivateTyped, PrivateRecord, PrivateSteps, PrivateEnds, Inodes, Names, NoFile
    <3>2. /\ content' \in [Inodes -> Contents]
          /\ content'["original"] = content["original"] /\ content'["written"] = "empty"
          /\ content'["copy"] = content["copy"] /\ content'["rebuilt"] = content["rebuilt"]
          /\ content'["foreign"] = content["foreign"]
      BY <2>1 DEF PrivateTyped, Inodes, Contents, NoFile, PrivateNamed, PrivateStages
    <3>3. PrivateTyped' /\ PrivateCounted' /\ limit' = limit /\ before' = before
          /\ budget'.faults <= budget.faults /\ budget'.foreign = budget.foreign
          /\ (Fault => budget'.faults < budget.faults) /\ (NoFault => budget' = budget)
      BY <2>1, <3>1, <3>2, TroubleMet, TroubleCounts DEF PrivateTyped, PrivateCounted
    <3> HIDE DEF PrivateRecord
    <3> QED
      BY <2>1, <3>1, <3>2, <3>3
      DEF PrivateInv, PrivateTyped, PrivateNamed, PrivateStages, PrivateUndoing, CopyHeld, NewWhole, CalmOld, JudgedInv,
          Withdrawing, Restoring, Rebuilding
  <2>2. ASSUME w.pc = "rebuilt", Fault \/ (NoFault /\ (entry["path"] # "rebuilt")),
               w' = [w EXCEPT !.pc = "close", !.error = "ambiguous"], entry' = entry,
               content' = content
        PROVE  PrivateInv'
    <3>1. /\ w' \in PrivateRecord
          /\ w'.pc = "close" /\ w'.create = w.create /\ w'.found = w.found /\ w'.owned = w.owned
          /\ w'.named = w.named /\ w'.started = w.started /\ w'.committed = w.committed
          /\ w'.kept = w.kept /\ w'.keepNew = w.keepNew /\ w'.error = "ambiguous"
      BY <2>2 DEF PrivateTyped, PrivateRecord, PrivateSteps, PrivateEnds, Inodes, Names, NoFile
    <3>2. PrivateTyped' /\ PrivateCounted' /\ limit' = limit /\ before' = before
          /\ budget'.faults <= budget.faults /\ budget'.foreign = budget.foreign
          /\ (Fault => budget'.faults < budget.faults) /\ (NoFault => budget' = budget)
      BY <2>2, <3>1, TroubleMet, TroubleCounts DEF PrivateTyped, PrivateCounted
    <3> HIDE DEF PrivateRecord
    <3> QED
      BY <2>2, <3>1, <3>2
      DEF PrivateInv, PrivateTyped, PrivateNamed, PrivateStages, PrivateUndoing, CopyHeld, NewWhole, CalmOld, JudgedInv,
          Withdrawing, Restoring, Rebuilding
  <2> QED BY <1>28, <2>1, <2>2 DEF FinishRebuild, Goto, PrivateUndoing, PrivateStages, PrivateTyped
<1>29. CASE Close
  <2>1. ASSUME w.pc = "close", NoFault, w.error = "none", w' = [w EXCEPT !.pc = "returned"],
               entry' = entry, content' = content
        PROVE  PrivateInv'
    <3>1. /\ w' \in PrivateRecord
          /\ w'.pc = "returned" /\ w'.create = w.create /\ w'.found = w.found
          /\ w'.owned = w.owned /\ w'.named = w.named /\ w'.started = w.started
          /\ w'.committed = w.committed /\ w'.kept = w.kept /\ w'.keepNew = w.keepNew
          /\ w'.error = w.error
      BY <2>1 DEF PrivateTyped, PrivateRecord, PrivateSteps, PrivateEnds, Inodes, Names, NoFile
    <3>2. PrivateTyped' /\ PrivateCounted' /\ limit' = limit /\ before' = before
          /\ budget'.faults <= budget.faults /\ budget'.foreign = budget.foreign
          /\ (Fault => budget'.faults < budget.faults) /\ (NoFault => budget' = budget)
      BY <2>1, <3>1, TroubleMet, TroubleCounts DEF PrivateTyped, PrivateCounted
    <3> HIDE DEF PrivateRecord
    <3> QED
      BY <2>1, <3>1, <3>2
      DEF PrivateInv, PrivateTyped, PrivateNamed, PrivateStages, PrivateUndoing, CopyHeld, NewWhole, CalmOld, JudgedInv,
          Withdrawing, Restoring, Rebuilding
  <2>2. ASSUME w.pc = "close", NoFault, w.error # "none", w' = [w EXCEPT !.pc = w.error],
               entry' = entry, content' = content
        PROVE  PrivateInv'
    <3>1. /\ w' \in PrivateRecord
          /\ w'.pc = w.error /\ w'.create = w.create /\ w'.found = w.found /\ w'.owned = w.owned
          /\ w'.named = w.named /\ w'.started = w.started /\ w'.committed = w.committed
          /\ w'.kept = w.kept /\ w'.keepNew = w.keepNew /\ w'.error = w.error
      BY <2>2 DEF PrivateTyped, PrivateRecord, PrivateSteps, PrivateEnds, Inodes, Names, NoFile
    <3>2. PrivateTyped' /\ PrivateCounted' /\ limit' = limit /\ before' = before
          /\ budget'.faults <= budget.faults /\ budget'.foreign = budget.foreign
          /\ (Fault => budget'.faults < budget.faults) /\ (NoFault => budget' = budget)
      BY <2>2, <3>1, TroubleMet, TroubleCounts DEF PrivateTyped, PrivateCounted
    <3> HIDE DEF PrivateRecord
    <3> QED
      BY <2>2, <3>1, <3>2
      DEF PrivateInv, PrivateTyped, PrivateNamed, PrivateStages, PrivateUndoing, CopyHeld, NewWhole, CalmOld, JudgedInv,
          Withdrawing, Restoring, Rebuilding
  <2> QED BY <1>29, <2>1, <2>2 DEF Close, Goto, PrivateUndoing, PrivateStages, PrivateTyped
<1>30. CASE Killed
  <2>1. ASSUME w.pc \in PrivateSteps, NoFault, w' = [w EXCEPT !.pc = "died"], entry' = entry,
               content' = content
        PROVE  PrivateInv'
    <3>1. /\ w' \in PrivateRecord
          /\ w'.pc = "died" /\ w'.create = w.create /\ w'.found = w.found /\ w'.owned = w.owned
          /\ w'.named = w.named /\ w'.started = w.started /\ w'.committed = w.committed
          /\ w'.kept = w.kept /\ w'.keepNew = w.keepNew /\ w'.error = w.error
      BY <2>1 DEF PrivateTyped, PrivateRecord, PrivateSteps, PrivateEnds, Inodes, Names, NoFile
    <3>2. PrivateTyped' /\ PrivateCounted' /\ limit' = limit /\ before' = before
          /\ budget'.faults <= budget.faults /\ budget'.foreign = budget.foreign
          /\ (Fault => budget'.faults < budget.faults) /\ (NoFault => budget' = budget)
      BY <2>1, <3>1, TroubleMet, TroubleCounts DEF PrivateTyped, PrivateCounted
    <3> HIDE DEF PrivateRecord
    <3> QED
      BY <2>1, <3>1, <3>2
      DEF PrivateInv, PrivateTyped, PrivateNamed, PrivateStages, PrivateUndoing, CopyHeld, NewWhole, CalmOld, JudgedInv,
          Withdrawing, Restoring, Rebuilding
  <2> QED BY <1>30, <2>1 DEF Killed, Goto, PrivateUndoing, PrivateStages, PrivateTyped
<1>31. CASE w.pc \in PrivateSteps /\ (Interfere \/ Appear) /\ UNCHANGED w
  <2>1. /\ limit' = limit /\ before' = before /\ budget' \in Trouble /\ budget.foreign > 0
        /\ budget'.foreign = budget.foreign - 1 /\ budget'.faults = budget.faults
        /\ UNCHANGED <<content, w>> /\ w.pc \in PrivateSteps
    BY <1>31, FilesAssumption DEF Interfere, Appear, Trouble, PrivateTyped
  <2>2. /\ entry' \in [Names -> Inodes \cup {NoFile}]
        /\ entry'["temp"] = entry["temp"]
        /\ \/ entry'["backup"] = entry["backup"] /\ entry'["path"] \in {"foreign", NoFile}
           \/ entry'["path"] = entry["path"] /\ entry'["backup"] \in {"foreign", NoFile} /\ entry["backup"] # NoFile
    BY <1>31 DEF Interfere, Appear, Bound, PrivateTyped, Names, Inodes
  <2>3. budget'.faults \in Nat /\ budget'.foreign \in Nat
    BY <2>1, TroubleCounts
  <2>4. PrivateTyped' /\ PrivateCounted' /\ ~Calm /\ ~Calm'
    BY <2>1, <2>2, <2>3, TroubleCounts DEF PrivateTyped
  <2> QED BY <2>1, <2>2, <2>3, <2>4 DEF PrivateInv, PrivateTyped, PrivateNamed, PrivateStages, PrivateUndoing, CopyHeld, NewWhole, CalmOld, JudgedInv,
          Withdrawing, Restoring, Rebuilding
<1>32. CASE UNCHANGED privateVars
  BY <1>32 DEF privateVars, PrivateInv, PrivateTyped, PrivateNamed, PrivateStages, PrivateUndoing,
     CopyHeld, NewWhole, CalmOld, JudgedInv,
          Withdrawing, Restoring, Rebuilding
<1> QED BY <1>1, <1>2, <1>3, <1>4, <1>5, <1>6, <1>7, <1>8, <1>9, <1>10, <1>11, <1>12, <1>13,
  <1>14, <1>15, <1>16, <1>17, <1>18, <1>19, <1>20, <1>21, <1>22, <1>23, <1>24, <1>25, <1>26,
  <1>27, <1>28, <1>29, <1>30, <1>31, <1>32 DEF PrivateNext

\* The invariant holds when the write begins.
LEMMA PrivateInvInit == FilesInit /\ PrivateInit => PrivateInv
<1> SUFFICES ASSUME FilesInit, PrivateInit PROVE PrivateInv
  OBVIOUS
<1>1. PICK create \in BOOLEAN :
        w = [pc |-> "inspect", create |-> create, found |-> NoFile,
             owned |-> FALSE, named |-> FALSE, started |-> FALSE, committed |-> FALSE,
             kept |-> FALSE, keepNew |-> FALSE, error |-> "none"]
  BY DEF PrivateInit
<1>2. /\ w \in PrivateRecord
      /\ w.pc = "inspect" /\ w.found = NoFile /\ ~w.owned /\ ~w.named /\ ~w.started /\ ~w.committed
      /\ ~w.kept /\ ~w.keepNew /\ w.error = "none"
  BY <1>1 DEF PrivateRecord, PrivateSteps
<1>3. /\ entry["temp"] = NoFile /\ entry["backup"] = NoFile /\ before \in {"absent", "old"}
      /\ entry["path"] = (IF before = "old" THEN "original" ELSE NoFile)
      /\ content["original"] = "old" /\ content["foreign"] = "other"
  BY DEF FilesInit, Names, Inodes, NoFile
<1>4. PrivateTyped /\ PrivateCounted
  <2>1. entry \in [Names -> Inodes \cup {NoFile}] /\ content \in [Inodes -> Contents]
    BY DEF FilesInit, Names, Inodes, NoFile, Contents
  <2>2. limit \in Trouble /\ budget = limit
    BY DEF FilesInit
  <2> QED BY <1>2, <1>3, <2>1, <2>2, TroubleCounts DEF PrivateTyped, PrivateCounted
<1> QED
  BY <1>2, <1>3, <1>4
  DEF PrivateInv, PrivateNamed, PrivateStages, PrivateUndoing, CopyHeld, NewWhole, CalmOld, JudgedInv,
      BeforeInstall, AfterInstall, Withdrawing, Restoring, Rebuilding, Closing, PrivateEnds, Held, NoFile

\* It says what the run checks: the old contents are kept, no half is seen.
LEMMA PrivateInvSafe == PrivateInv => PrivateTypeOK /\ OldContentsKept /\ WholeContents
<1> SUFFICES ASSUME PrivateInv PROVE PrivateTypeOK /\ OldContentsKept /\ WholeContents
  OBVIOUS
<1> /\ PrivateTyped /\ PrivateNamed /\ PrivateStages /\ PrivateUndoing /\ CopyHeld /\ NewWhole /\ CalmOld
  BY DEF PrivateInv
<1>1. PrivateTypeOK
  BY DEF PrivateTyped, PrivateTypeOK, PrivateRecord, FilesTypeOK
<1>2. OldContentsKept
  <2> SUFFICES ASSUME Calm, before = "old", ~w.committed PROVE Held("path") = "old" \/ Held("backup") = "old"
    BY DEF OldContentsKept, Names
  <2> QED BY DEF CalmOld, CopyHeld, PrivateStages, PrivateUndoing, PrivateNamed, Held, NoFile, Closing, PrivateEnds
<1>3. WholeContents
  <2> SUFFICES ASSUME Held("path") \in {"part", "empty"}
               PROVE  /\ limit.faults >= 2
                      /\ Calm /\ before = "old" => Held("backup") = "old"
    BY DEF WholeContents
  <2>1. entry["path"] = "written" /\ content["written"] # "new"
    BY DEF CopyHeld, PrivateTyped, PrivateNamed, Held, NoFile, Names, Inodes
  <2>2. limit.faults \in Nat
    BY TroubleCounts DEF PrivateTyped
  <2>3. limit.faults >= 2 /\ ~w.committed
    BY <2>1, <2>2 DEF NewWhole
  <2>4. ASSUME Calm, before = "old" PROVE Held("backup") = "old"
    <3>1. w.started /\ w.named /\ w.found = "original"
      BY <2>1, <2>3, <2>4 DEF CalmOld, PrivateStages, NoFile
    <3>2. w.pc # "discard"
      BY <2>1, <2>3, <2>4, <3>1 DEF CalmOld, PrivateUndoing
    <3> QED BY <2>1, <2>3, <2>4, <3>1, <3>2 DEF CalmOld, CopyHeld, PrivateNamed, Held, NoFile
  <2> QED BY <2>3, <2>4
<1> QED BY <1>1, <1>2, <1>3

\* What somebody else put in place is touched by no step of the writer that
\* does not lie between the last look at the name and the call.
LEMMA PrivateSpares == PrivateInv /\ [PrivateNext]_privateVars => SparesUnknown
<1> SUFFICES ASSUME PrivateInv, [PrivateNext]_privateVars, NEW name \in {"path", "backup"},
                    entry[name] = "foreign", name = "path" => w.found # "foreign", ~InWindow(name)
             PROVE  /\ entry'[name] = "foreign" \/ budget'.foreign < budget.foreign
                    /\ ~InWindow(name)'
  BY DEF SparesUnknown
<1> /\ PrivateTyped /\ PrivateCounted /\ PrivateStages
  BY DEF PrivateInv
<1> name = "path" => CanonicalState = "unknown"
  BY DEF CanonicalState, NoFile
<1> USE DEF Attempt, Goto, Raise, files, PrivateTyped, PrivateRecord, InWindow, Names, NoFile
<1>1. CASE Inspect \/ FillTemp \/ CopyBackup \/ ValidateBackup \/ CheckTarget
  BY <1>1 DEF Inspect, FillTemp, CopyBackup, ValidateBackup, CheckTarget
<1>2. CASE VerifyInstalled \/ SyncParent \/ ValidateCommit \/ VerifyRestored \/ WipeWritten
  BY <1>2 DEF VerifyInstalled, SyncParent, ValidateCommit, VerifyRestored, WipeWritten, GiveUp, GiveUpRestoring
<1>3. CASE SyncRemoval \/ FinishRebuild
  BY <1>3 DEF SyncRemoval, FinishRebuild
<1>4. CASE Close \/ Killed
  BY <1>4 DEF Close, Killed
<1>5. CASE OpenTemp
  <2>1. entry' = entry \/ entry' = [entry EXCEPT !["temp"] = "written"]
    BY <1>5 DEF OpenTemp, Bound
  <2>2. w'.pc \in {"fill", "rollback"}
    BY <1>5 DEF OpenTemp
  <2> QED BY <2>1, <2>2
<1>17. CASE UnlinkTemp
  BY <1>17 DEF UnlinkTemp, Bound
<1>6. CASE OpenBackup
  <2>1. w.pc = "backup" /\ entry["backup"] = NoFile
    BY <1>6 DEF OpenBackup, PrivateStages, BeforeInstall
  <2>2. name = "path"
    BY <2>1
  <2> QED BY <1>6, <2>2 DEF OpenBackup, Bound
<1>7. CASE InstallTemp
  <2>1. w.pc = "install" /\ name = "backup"
    BY <1>7 DEF InstallTemp
  <2>2. entry'["backup"] = entry["backup"] /\ w'.pc \in {"verify", "linked", "rollback"}
    BY <1>7 DEF InstallTemp, Renamed, Bound
  <2> QED BY <2>1, <2>2
<1>14. CASE Rollback
  BY <1>14 DEF Rollback, GiveUp
<1>15. CASE RemoveInstalled
  BY <1>15 DEF RemoveInstalled, GiveUp
<1>16. CASE UnlinkInstalled
  <2>1. w.pc = "unlink" /\ name = "backup"
    BY <1>16 DEF UnlinkInstalled
  <2>2. entry'["backup"] = entry["backup"] /\ w'.pc \in {"wipe", "cleanTemp"}
    BY <1>16 DEF UnlinkInstalled, GiveUp, Bound
  <2> QED BY <2>1, <2>2
<1>8. CASE RestoreBackup \/ LookBeforeRestore \/ ReplaceByBackup
  BY <1>8 DEF RestoreBackup, LookBeforeRestore, ReplaceByBackup, GiveUpRestoring, BackupIntact, Renamed
<1>9. CASE Rebuild \/ SwapRebuilt
  BY <1>9 DEF Rebuild, SwapRebuilt, Bound
<1>10. CASE CleanupTemp
  BY <1>10 DEF CleanupTemp, Removed, Bound
<1>11. CASE CleanupBackup \/ DiscardBackup \/ RemoveBackup
  BY <1>11 DEF CleanupBackup, DiscardBackup, RemoveBackup, Bound
<1>12. CASE (Interfere \/ Appear) /\ UNCHANGED w
  BY <1>12, FilesAssumption DEF Interfere, Appear, PrivateCounted, Trouble
<1>13. CASE UNCHANGED privateVars
  BY <1>13 DEF privateVars
<1> QED BY <1>1, <1>2, <1>3, <1>4, <1>5, <1>6, <1>7, <1>8, <1>9, <1>10, <1>11, <1>12, <1>13,
  <1>14, <1>15, <1>16, <1>17 DEF PrivateNext

\* What was decided at the start stays.
LEMMA PrivateFixed ==
    ASSUME PrivateInv, [PrivateNext]_privateVars
    PROVE  limit' = limit /\ before' = before
<1> limit \in Trouble /\ budget \in Trouble
  BY DEF PrivateInv, PrivateTyped
<1> USE DEF Attempt
<1>1. CASE Interfere \/ Appear
  BY <1>1 DEF Interfere, Appear
<1>2. CASE Fault \/ NoFault
  BY <1>2, TroubleMet
<1>3. CASE Inspect \/ FillTemp \/ CopyBackup \/ ValidateBackup \/ CheckTarget \/ OpenTemp \/ OpenBackup
  BY <1>2, <1>3 DEF Inspect, FillTemp, CopyBackup, ValidateBackup, CheckTarget, OpenTemp, OpenBackup
<1>4. CASE UnlinkTemp \/ VerifyInstalled \/ SyncParent \/ ValidateCommit \/ VerifyRestored \/ WipeWritten
  BY <1>2, <1>4 DEF UnlinkTemp, VerifyInstalled, SyncParent, ValidateCommit, VerifyRestored, WipeWritten
<1>5. CASE SyncRemoval \/ FinishRebuild \/ Close \/ Killed \/ InstallTemp \/ Rollback
  BY <1>2, <1>5 DEF SyncRemoval, FinishRebuild, Close, Killed, InstallTemp, Rollback
<1>6. CASE RestoreBackup \/ Rebuild \/ CleanupTemp \/ CleanupBackup \/ SwapRebuilt \/ DiscardBackup
  BY <1>2, <1>6 DEF RestoreBackup, Rebuild, CleanupTemp, CleanupBackup, SwapRebuilt, DiscardBackup
<1>7. CASE RemoveInstalled \/ UnlinkInstalled \/ LookBeforeRestore \/ ReplaceByBackup \/ RemoveBackup
  BY <1>2, <1>7 DEF RemoveInstalled, UnlinkInstalled, LookBeforeRestore, ReplaceByBackup, RemoveBackup
<1>8. CASE UNCHANGED privateVars
  BY <1>8 DEF privateVars
<1> QED BY <1>1, <1>3, <1>4, <1>5, <1>6, <1>7, <1>8 DEF PrivateNext

\* A step of the writer installs or withdraws the new file, or ends the write;
\* one that returns has installed it, one that raises has changed nothing.
LEMMA PrivateWriteIsAtomic ==
    ASSUME PrivateInv, Judged, PrivateNext
    PROVE  /\ PrivateStatus = "writing"
           /\ \/ PrivateStatus' = "writing" /\ Held("path")' \in {"new", before}
              \/ /\ PrivateStatus' \in PrivateEnds /\ Held("path")' = Held("path")
                 /\ PrivateStatus' = "returned" => Held("path") = "new"
                 /\ PrivateStatus' = "raised" => Held("path") = before
           /\ Judged' /\ before' = before
<1> PrivateTyped /\ JudgedInv /\ NewWhole
  BY DEF PrivateInv
<1> USE DEF Attempt, Goto, Raise, PrivateSteps, PrivateEnds, PrivateStatus, PrivateTyped, PrivateRecord
<1>1. limit' = limit /\ before' = before
  BY PrivateFixed
<1>2. PrivateInv' /\ Judged'
  BY <1>1, PrivateInvNext DEF Judged, Calm
<1>3. Held("path")' \in {"new", before}
  BY <1>1, <1>2
  DEF PrivateInv, PrivateNamed, CopyHeld, NewWhole, JudgedInv, Judged, Calm, Held, NoFile, Names, Inodes
<1> SUFFICES /\ w.pc \in PrivateSteps
             /\ \/ w'.pc \in PrivateSteps
                \/ /\ w'.pc \in PrivateEnds /\ entry' = entry /\ content' = content
                   /\ w'.pc = "returned" => w.pc = "close" /\ w.error = "none"
                   /\ w'.pc = "raised" => w.pc = "close" /\ w.error = "raised"
  <2>1. w.pc = "close" /\ w.error = "none" => Held("path") = "new"
    BY DEF JudgedInv, NewWhole, Held, Judged, Calm, NoFile
  <2>2. w.pc = "close" /\ w.error = "raised" => Held("path") = before
    BY DEF JudgedInv
  <2>3. entry' = entry /\ content' = content => Held("path")' = Held("path")
    BY DEF Held
  <2> QED BY <1>1, <1>2, <1>3, <2>1, <2>2, <2>3
<1>4. CASE Inspect \/ FillTemp \/ CopyBackup \/ ValidateBackup \/ CheckTarget \/ OpenTemp
  BY <1>4 DEF Inspect, FillTemp, CopyBackup, ValidateBackup, CheckTarget, OpenTemp
<1>5. CASE OpenBackup \/ UnlinkTemp \/ VerifyInstalled \/ SyncParent \/ ValidateCommit
  BY <1>5 DEF OpenBackup, UnlinkTemp, VerifyInstalled, SyncParent, ValidateCommit
<1>6. CASE VerifyRestored \/ WipeWritten \/ Rollback \/ RestoreBackup
  BY <1>6 DEF VerifyRestored, WipeWritten, Rollback, RestoreBackup, GiveUp, GiveUpRestoring
<1>7. CASE InstallTemp \/ SyncRemoval \/ Rebuild \/ SwapRebuilt \/ FinishRebuild
  BY <1>7 DEF InstallTemp, SyncRemoval, Rebuild, SwapRebuilt, FinishRebuild
<1>8. CASE CleanupTemp \/ CleanupBackup \/ DiscardBackup \/ RemoveBackup
  BY <1>8 DEF CleanupTemp, CleanupBackup, DiscardBackup, RemoveBackup
<1>9. CASE Close \/ Killed
  BY <1>9 DEF Close, Killed, files
<1>10. CASE w.pc \in PrivateSteps /\ (Interfere \/ Appear) /\ UNCHANGED w
  BY <1>10
<1>11. CASE RemoveInstalled \/ UnlinkInstalled \/ LookBeforeRestore \/ ReplaceByBackup
  BY <1>11 DEF RemoveInstalled, UnlinkInstalled, LookBeforeRestore, ReplaceByBackup, GiveUp, GiveUpRestoring
<1> QED BY <1>4, <1>5, <1>6, <1>7, <1>8, <1>9, <1>10, <1>11 DEF PrivateNext

-----------------------------------------------------------------------------
(* The atomic writers of the Windows port.                                  *)

\* Before, while and after the new file is renamed into place.
BeforeRename == {"inspect", "temp", "fill", "keepOld", "check", "rename"}
AfterRename == {"verify", "sync", "dropOld"}

WindowsCounted ==
    /\ limit.faults \in Nat /\ limit.foreign \in Nat
    /\ budget.faults \in Nat /\ budget.foreign \in Nat
    /\ budget.faults <= limit.faults /\ budget.foreign <= limit.foreign

WindowsRecord == [pc : WindowsSteps \cup WindowsEnds, kind : Kinds,
                  found : Inodes \cup {NoFile}, open : BOOLEAN, saved : BOOLEAN,
                  installed : BOOLEAN, committed : BOOLEAN, restored : BOOLEAN,
                  keep : BOOLEAN, again : BOOLEAN, error : {"none", "raised", "ambiguous"}]
WindowsTyped ==
    /\ entry \in [Names -> Inodes \cup {NoFile}] /\ content \in [Inodes -> Contents]
    /\ before \in {"absent", "old"} /\ limit \in Trouble /\ budget \in Trouble
    /\ v \in WindowsRecord

\* What the three names bind.
WindowsNamed ==
    /\ content["original"] = "old" /\ content["foreign"] = "other"
    /\ entry["path"] \in {NoFile, "original", "foreign", "written", "copy"}
    /\ entry["temp"] \in {NoFile, "written"} /\ entry["backup"] \in {NoFile, "copy", "foreign"}
    /\ v.found \in {NoFile, "original"}
    /\ v.found = "original" \/ entry["path"] = "original" => before = "old"
    /\ entry["path"] = "written" => v.installed
    /\ entry["path"] = "copy" => v.restored /\ content["copy"] = "old"

\* How far the writer is.
WindowsStages ==
    /\ v.pc \in BeforeRename =>
         /\ ~v.installed /\ ~v.keep /\ v.error = "none"
         /\ v.saved <=> v.pc \in {"check", "rename"} /\ v.found # NoFile
         /\ v.pc = "inspect" => v.found = NoFile
         /\ v.pc \in {"temp", "fill"} => v.kind # "promote"
         /\ v.pc \in {"fill", "keepOld", "check", "rename"} \/ v.kind = "promote" => entry["temp"] = "written"
         /\ v.pc \in {"keepOld", "check", "rename"} \/ v.kind = "promote" => content["written"] = "new"
    /\ v.pc \in AfterRename =>
         /\ v.installed /\ ~v.keep /\ v.error = "none"
         /\ content["written"] = "new" /\ entry["temp"] = NoFile
    /\ v.pc \in AfterRename \cup {"undo", "undoOld"} =>
         /\ v.installed /\ entry["path"] \in {"written", "foreign", NoFile}
         /\ v.saved <=> v.found # NoFile
    /\ v.pc \in {"undo", "undoOld"} => v.error # "none"
    /\ v.pc = "undoOld" => v.kind = "promote" /\ v.found # NoFile
    /\ v.again => v.pc \in {"undo", "cleanup"} \cup WindowsEnds /\ v.kind = "private"
    /\ v.restored \/ v.committed => v.pc \in {"cleanup"} \cup WindowsEnds
    /\ v.restored => ~v.installed
    /\ v.committed => v.installed
    /\ v.saved /\ v.pc \notin WindowsEnds => content["copy"] = "old"

\* Undisturbed: where the old contents are.
WindowsCalm ==
    Calm =>
      /\ entry["path"] # "foreign"
      /\ v.pc \in {"check", "rename"} /\ v.saved => entry["backup"] = "copy"
      /\ v.pc \in AfterRename \cup {"undo"} => entry["path"] = "written"
      /\ v.pc \in {"undo", "undoOld"} => budget.faults < limit.faults
      /\ v.pc = "undoOld" => entry["path"] = NoFile
      /\ before = "old" =>
           /\ v.pc \in BeforeRename \ {"inspect"} => v.found = "original"
           /\ v.installed => v.found = "original"
           /\ ~v.installed /\ ~v.restored => entry["path"] = "original"
           /\ v.restored => entry["path"] = "copy"
           /\ v.installed /\ ~v.committed /\ v.pc \notin WindowsEnds =>
                entry["backup"] = "copy" /\ v.saved
           /\ v.installed /\ ~v.committed /\ v.pc = "cleanup" =>
                IF v.kind = "promote" THEN limit.faults > 1 ELSE v.keep
           /\ ~v.committed /\ v.pc \in WindowsEnds /\ (v.kind = "promote" => limit.faults < 2) =>
                \/ entry["path"] \in {"original", "copy"}
                \/ entry["backup"] = "copy" /\ content["copy"] = "old"

\* With one failing call the file is all old or all new.
WindowsAtomic ==
    WindowsJudged =>
        /\ entry["path"] = "written" => content["written"] = "new"
        /\ before = "absent" => entry["path"] \in {"written", NoFile}
        /\ before = "old" => entry["path"] # NoFile
        /\ v.pc \in BeforeRename \ {"inspect"} => v.found = entry["path"]
        /\ v.installed => (v.found = NoFile <=> before = "absent")
        /\ v.pc = "cleanup" =>
             /\ v.error = "none" => entry["path"] = "written" /\ v.committed
             /\ v.error = "raised" => Held("path") = before
             /\ v.open /\ ~v.committed /\ ~v.installed => entry["path"] # "written"

WindowsInv == WindowsTyped /\ WindowsCounted /\ WindowsNamed /\ WindowsStages /\ WindowsCalm /\ WindowsAtomic

\* A rollback that fails is tried again, or left to the cleanup.
LEMMA UndoGivesUp ==
    ASSUME v \in WindowsRecord, UndoFails
    PROVE  /\ v.again /\ v.kind = "private" =>
                v' = [v EXCEPT !.pc = "undo", !.again = FALSE, !.keep = TRUE, !.error = "ambiguous"]
           /\ ~v.again /\ v.kind = "private" =>
                v' = [v EXCEPT !.pc = "cleanup", !.again = FALSE, !.keep = TRUE, !.error = "ambiguous"]
           /\ ~v.again /\ v.kind = "workspace" =>
                v' = [v EXCEPT !.pc = "cleanup", !.again = FALSE, !.keep = TRUE, !.error = "raised"]
           /\ ~v.again /\ v.kind = "promote" =>
                v' = [v EXCEPT !.pc = "cleanup", !.again = FALSE, !.keep = FALSE, !.error = "ambiguous"]
<1>1. CASE v.again /\ v.kind = "private"
  BY <1>1 DEF UndoFails
<1>2. CASE ~v.again /\ v.kind = "private"
  BY <1>2 DEF UndoFails
<1>3. CASE ~v.again /\ v.kind = "workspace"
  BY <1>3 DEF UndoFails
<1>4. CASE ~v.again /\ v.kind = "promote"
  BY <1>4 DEF UndoFails
<1> QED BY <1>1, <1>2, <1>3, <1>4

\* After a rename that failed and did not happen, the copy is kept or not.
LEMMA RenameGivesUp ==
    ASSUME v \in WindowsRecord, NEW at, at # "written"
    PROVE  \E keep \in BOOLEAN :
             RenameFailed(at) = [v EXCEPT !.pc = "cleanup", !.error = "raised", !.keep = keep]
<1> DEFINE keep == at # v.found /\ (v.kind = "private" \/ v.saved) /\ v.kind # "promote"
<1>1. keep \in BOOLEAN
  OBVIOUS
<1>2. RenameFailed(at) = [v EXCEPT !.pc = "cleanup", !.error = "raised", !.keep = keep]
  BY DEF RenameFailed
<1> QED BY <1>1, <1>2

\* A file that was restored is withdrawn and restored.
LEMMA UndoneRestored ==
    ASSUME v \in WindowsRecord
    PROVE  [Undone EXCEPT !.restored = TRUE]
             = [v EXCEPT !.pc = "cleanup", !.installed = FALSE, !.open = FALSE, !.restored = TRUE]
  BY DEF Undone, WindowsRecord

\* An exception in the try block.
LEMMA WindowsRaised ==
    ASSUME WindowsInv, RaiseError, UNCHANGED files,
           v.pc \in {"inspect", "temp", "fill", "keepOld", "check", "verify", "sync"},
           \/ Fault
           \/ NoFault /\ (v.pc = "verify" => entry["path"] # "written")
                      /\ (v.pc = "sync" => v.saved /\ entry["backup"] # "copy")
    PROVE  WindowsInv'
<1> WindowsTyped /\ WindowsCounted /\ WindowsNamed /\ WindowsStages /\ WindowsCalm /\ WindowsAtomic
  BY DEF WindowsInv
<1> v.error \in {"none", "raised", "ambiguous"} /\ v.kind \in {"private", "workspace", "promote"}
  BY DEF WindowsTyped, WindowsRecord, Kinds
<1> USE DEF NoFile, BeforeRename, AfterRename, WindowsSteps, WindowsEnds, Calm, WindowsJudged, Held, files,
       WindowsCounted
<1>1. ASSUME v.pc \in BeforeRename \ {"rename"}, Fault \/ NoFault,
             v' = [v EXCEPT !.pc = "cleanup", !.error = "raised"], entry' = entry,
             content' = content
      PROVE  WindowsInv'
  <2>1. /\ v' \in WindowsRecord
        /\ v'.pc = "cleanup" /\ v'.kind = v.kind /\ v'.found = v.found /\ v'.open = v.open
        /\ v'.saved = v.saved /\ v'.installed = v.installed /\ v'.committed = v.committed
        /\ v'.restored = v.restored /\ v'.keep = v.keep /\ v'.again = v.again
        /\ v'.error = "raised"
    BY <1>1 DEF WindowsTyped, WindowsRecord, WindowsSteps, WindowsEnds, Inodes, Names, NoFile
  <2>2. WindowsTyped' /\ WindowsCounted' /\ limit' = limit /\ before' = before
        /\ budget'.faults <= budget.faults /\ budget'.foreign = budget.foreign
        /\ (Fault => budget'.faults < budget.faults) /\ (NoFault => budget' = budget)
    BY <1>1, <2>1, TroubleMet, TroubleCounts DEF WindowsTyped, WindowsCounted
  <2> HIDE DEF WindowsRecord
  <2> QED
    BY <1>1, <2>1, <2>2
    DEF WindowsInv, WindowsTyped, WindowsNamed, WindowsStages, WindowsCalm, WindowsAtomic
<1>2. ASSUME Fault \/ (NoFault /\ (v.pc = "verify" => entry["path"] # "written") /\ (v.pc = "sync" => v.saved /\ entry["backup"] # "copy")),
             v.pc \in {"verify", "sync"}, v' = [v EXCEPT !.pc = "undo", !.error = "raised"],
             entry' = entry, content' = content
      PROVE  WindowsInv'
  <2>1. /\ v' \in WindowsRecord
        /\ v'.pc = "undo" /\ v'.kind = v.kind /\ v'.found = v.found /\ v'.open = v.open
        /\ v'.saved = v.saved /\ v'.installed = v.installed /\ v'.committed = v.committed
        /\ v'.restored = v.restored /\ v'.keep = v.keep /\ v'.again = v.again
        /\ v'.error = "raised"
    BY <1>2 DEF WindowsTyped, WindowsRecord, WindowsSteps, WindowsEnds, Inodes, Names, NoFile
  <2>2. WindowsTyped' /\ WindowsCounted' /\ limit' = limit /\ before' = before
        /\ budget'.faults <= budget.faults /\ budget'.foreign = budget.foreign
        /\ (Fault => budget'.faults < budget.faults) /\ (NoFault => budget' = budget)
    BY <1>2, <2>1, TroubleMet, TroubleCounts DEF WindowsTyped, WindowsCounted
  <2> HIDE DEF WindowsRecord
  <2> QED
    BY <1>2, <2>1, <2>2
    DEF WindowsInv, WindowsTyped, WindowsNamed, WindowsStages, WindowsCalm, WindowsAtomic
<1>3. CASE v.pc \in BeforeRename \ {"rename"}
  BY <1>1, <1>3 DEF RaiseError, WindowsStages
<1>4. CASE v.pc \in {"verify", "sync"}
  BY <1>2, <1>4 DEF RaiseError, WindowsStages
<1> QED BY <1>3, <1>4

\* Every step of the writer and of other programs keeps the invariant.
LEMMA WindowsInvNext == WindowsInv /\ [WindowsNext]_windowsVars => WindowsInv'
<1> SUFFICES ASSUME WindowsInv, [WindowsNext]_windowsVars PROVE WindowsInv'
  OBVIOUS
<1> WindowsTyped /\ WindowsCounted /\ WindowsNamed /\ WindowsStages /\ WindowsCalm /\ WindowsAtomic
  BY DEF WindowsInv
<1> v.error \in {"none", "raised", "ambiguous"} /\ v.kind \in {"private", "workspace", "promote"}
  BY DEF WindowsTyped, WindowsRecord, Kinds
<1> USE DEF NoFile, BeforeRename, AfterRename, WindowsSteps, WindowsEnds, Calm, WindowsJudged, Held, files,
       WindowsCounted
<1>1. CASE InspectTarget
  <2>1. ASSUME v.pc = "inspect", NoFault, entry["path"] \in {NoFile, "original"},
               v.kind = "promote", v' = [v EXCEPT !.found = entry["path"], !.pc = "keepOld"],
               entry' = entry, content' = content
        PROVE  WindowsInv'
    <3>1. /\ v' \in WindowsRecord
          /\ v'.pc = "keepOld" /\ v'.kind = v.kind /\ v'.found = entry["path"]
          /\ v'.open = v.open /\ v'.saved = v.saved /\ v'.installed = v.installed
          /\ v'.committed = v.committed /\ v'.restored = v.restored /\ v'.keep = v.keep
          /\ v'.again = v.again /\ v'.error = v.error
      BY <2>1 DEF WindowsTyped, WindowsRecord, WindowsSteps, WindowsEnds, Inodes, Names, NoFile
    <3>2. WindowsTyped' /\ WindowsCounted' /\ limit' = limit /\ before' = before
          /\ budget'.faults <= budget.faults /\ budget'.foreign = budget.foreign
          /\ (Fault => budget'.faults < budget.faults) /\ (NoFault => budget' = budget)
      BY <2>1, <3>1, TroubleMet, TroubleCounts DEF WindowsTyped, WindowsCounted
    <3> HIDE DEF WindowsRecord
    <3> QED
      BY <2>1, <3>1, <3>2
      DEF WindowsInv, WindowsTyped, WindowsNamed, WindowsStages, WindowsCalm, WindowsAtomic
  <2>2. ASSUME v.pc = "inspect", NoFault, entry["path"] \in {NoFile, "original"},
               v.kind # "promote", v' = [v EXCEPT !.found = entry["path"], !.pc = "temp"],
               entry' = entry, content' = content
        PROVE  WindowsInv'
    <3>1. /\ v' \in WindowsRecord
          /\ v'.pc = "temp" /\ v'.kind = v.kind /\ v'.found = entry["path"] /\ v'.open = v.open
          /\ v'.saved = v.saved /\ v'.installed = v.installed /\ v'.committed = v.committed
          /\ v'.restored = v.restored /\ v'.keep = v.keep /\ v'.again = v.again
          /\ v'.error = v.error
      BY <2>2 DEF WindowsTyped, WindowsRecord, WindowsSteps, WindowsEnds, Inodes, Names, NoFile
    <3>2. WindowsTyped' /\ WindowsCounted' /\ limit' = limit /\ before' = before
          /\ budget'.faults <= budget.faults /\ budget'.foreign = budget.foreign
          /\ (Fault => budget'.faults < budget.faults) /\ (NoFault => budget' = budget)
      BY <2>2, <3>1, TroubleMet, TroubleCounts DEF WindowsTyped, WindowsCounted
    <3> HIDE DEF WindowsRecord
    <3> QED
      BY <2>2, <3>1, <3>2
      DEF WindowsInv, WindowsTyped, WindowsNamed, WindowsStages, WindowsCalm, WindowsAtomic
  <2> QED BY <1>1, <2>1, <2>2, WindowsRaised DEF InspectTarget, TryStep
<1>2. CASE CreateTemp
  <2>1. ASSUME v.pc = "temp", NoFault, v' = [v EXCEPT !.pc = "fill"],
               entry' = [entry EXCEPT !["temp"] = "written"],
               content' = [content EXCEPT !["written"] = "part"]
        PROVE  WindowsInv'
    <3>1. /\ v' \in WindowsRecord
          /\ v'.pc = "fill" /\ v'.kind = v.kind /\ v'.found = v.found /\ v'.open = v.open
          /\ v'.saved = v.saved /\ v'.installed = v.installed /\ v'.committed = v.committed
          /\ v'.restored = v.restored /\ v'.keep = v.keep /\ v'.again = v.again
          /\ v'.error = v.error
      BY <2>1 DEF WindowsTyped, WindowsRecord, WindowsSteps, WindowsEnds, Inodes, Names, NoFile
    <3>2. /\ entry' \in [Names -> Inodes \cup {NoFile}]
          /\ entry'["path"] = entry["path"] /\ entry'["temp"] = "written"
          /\ entry'["backup"] = entry["backup"]
      BY <2>1 DEF WindowsTyped, Names, Inodes, NoFile
    <3>3. /\ content' \in [Inodes -> Contents]
          /\ content'["original"] = content["original"] /\ content'["written"] = "part"
          /\ content'["copy"] = content["copy"] /\ content'["rebuilt"] = content["rebuilt"]
          /\ content'["foreign"] = content["foreign"]
      BY <2>1 DEF WindowsTyped, Inodes, Contents, NoFile, WindowsNamed, WindowsStages
    <3>4. WindowsTyped' /\ WindowsCounted' /\ limit' = limit /\ before' = before
          /\ budget'.faults <= budget.faults /\ budget'.foreign = budget.foreign
          /\ (Fault => budget'.faults < budget.faults) /\ (NoFault => budget' = budget)
      BY <2>1, <3>1, <3>2, <3>3, TroubleMet, TroubleCounts DEF WindowsTyped, WindowsCounted
    <3> HIDE DEF WindowsRecord
    <3> QED
      BY <2>1, <3>1, <3>2, <3>3, <3>4
      DEF WindowsInv, WindowsTyped, WindowsNamed, WindowsStages, WindowsCalm, WindowsAtomic
  <2> QED BY <1>2, <2>1, WindowsRaised DEF CreateTemp, TryStep, To, Bound
<1>3. CASE WriteTemp
  <2>1. ASSUME v.pc = "fill", NoFault, v' = [v EXCEPT !.pc = "keepOld", !.open = TRUE],
               entry' = entry, content' = [content EXCEPT !["written"] = "new"]
        PROVE  WindowsInv'
    <3>1. /\ v' \in WindowsRecord
          /\ v'.pc = "keepOld" /\ v'.kind = v.kind /\ v'.found = v.found /\ v'.open = TRUE
          /\ v'.saved = v.saved /\ v'.installed = v.installed /\ v'.committed = v.committed
          /\ v'.restored = v.restored /\ v'.keep = v.keep /\ v'.again = v.again
          /\ v'.error = v.error
      BY <2>1 DEF WindowsTyped, WindowsRecord, WindowsSteps, WindowsEnds, Inodes, Names, NoFile
    <3>2. /\ content' \in [Inodes -> Contents]
          /\ content'["original"] = content["original"] /\ content'["written"] = "new"
          /\ content'["copy"] = content["copy"] /\ content'["rebuilt"] = content["rebuilt"]
          /\ content'["foreign"] = content["foreign"]
      BY <2>1 DEF WindowsTyped, Inodes, Contents, NoFile, WindowsNamed, WindowsStages
    <3>3. WindowsTyped' /\ WindowsCounted' /\ limit' = limit /\ before' = before
          /\ budget'.faults <= budget.faults /\ budget'.foreign = budget.foreign
          /\ (Fault => budget'.faults < budget.faults) /\ (NoFault => budget' = budget)
      BY <2>1, <3>1, <3>2, TroubleMet, TroubleCounts DEF WindowsTyped, WindowsCounted
    <3> HIDE DEF WindowsRecord
    <3> QED
      BY <2>1, <3>1, <3>2, <3>3
      DEF WindowsInv, WindowsTyped, WindowsNamed, WindowsStages, WindowsCalm, WindowsAtomic
  <2>2. ASSUME v.pc = "fill", Fault, v.kind = "workspace",
               v' = [v EXCEPT !.pc = "cleanup", !.error = "raised"],
               entry' = [entry EXCEPT !["temp"] = NoFile], content' = content
        PROVE  WindowsInv'
    <3>1. /\ v' \in WindowsRecord
          /\ v'.pc = "cleanup" /\ v'.kind = v.kind /\ v'.found = v.found /\ v'.open = v.open
          /\ v'.saved = v.saved /\ v'.installed = v.installed /\ v'.committed = v.committed
          /\ v'.restored = v.restored /\ v'.keep = v.keep /\ v'.again = v.again
          /\ v'.error = "raised"
      BY <2>2 DEF WindowsTyped, WindowsRecord, WindowsSteps, WindowsEnds, Inodes, Names, NoFile
    <3>2. /\ entry' \in [Names -> Inodes \cup {NoFile}]
          /\ entry'["path"] = entry["path"] /\ entry'["temp"] = NoFile
          /\ entry'["backup"] = entry["backup"]
      BY <2>2 DEF WindowsTyped, Names, Inodes, NoFile
    <3>3. WindowsTyped' /\ WindowsCounted' /\ limit' = limit /\ before' = before
          /\ budget'.faults <= budget.faults /\ budget'.foreign = budget.foreign
          /\ (Fault => budget'.faults < budget.faults) /\ (NoFault => budget' = budget)
      BY <2>2, <3>1, <3>2, TroubleMet, TroubleCounts DEF WindowsTyped, WindowsCounted
    <3> HIDE DEF WindowsRecord
    <3> QED
      BY <2>2, <3>1, <3>2, <3>3
      DEF WindowsInv, WindowsTyped, WindowsNamed, WindowsStages, WindowsCalm, WindowsAtomic
  <2> QED BY <1>3, <2>1, <2>2, WindowsRaised DEF WriteTemp, RaiseError, Bound, WindowsStages
<1>4. CASE CopyRestore
  <2>1. ASSUME v.pc = "keepOld", NoFault, v.found = NoFile, v' = [v EXCEPT !.pc = "check"],
               entry' = entry, content' = content
        PROVE  WindowsInv'
    <3>1. /\ v' \in WindowsRecord
          /\ v'.pc = "check" /\ v'.kind = v.kind /\ v'.found = v.found /\ v'.open = v.open
          /\ v'.saved = v.saved /\ v'.installed = v.installed /\ v'.committed = v.committed
          /\ v'.restored = v.restored /\ v'.keep = v.keep /\ v'.again = v.again
          /\ v'.error = v.error
      BY <2>1 DEF WindowsTyped, WindowsRecord, WindowsSteps, WindowsEnds, Inodes, Names, NoFile
    <3>2. WindowsTyped' /\ WindowsCounted' /\ limit' = limit /\ before' = before
          /\ budget'.faults <= budget.faults /\ budget'.foreign = budget.foreign
          /\ (Fault => budget'.faults < budget.faults) /\ (NoFault => budget' = budget)
      BY <2>1, <3>1, TroubleMet, TroubleCounts DEF WindowsTyped, WindowsCounted
    <3> HIDE DEF WindowsRecord
    <3> QED
      BY <2>1, <3>1, <3>2
      DEF WindowsInv, WindowsTyped, WindowsNamed, WindowsStages, WindowsCalm, WindowsAtomic
  <2>2. ASSUME v.pc = "keepOld", NoFault, v.found # NoFile,
               v' = [v EXCEPT !.pc = "check", !.saved = TRUE],
               entry' = [entry EXCEPT !["backup"] = "copy"],
               content' = [content EXCEPT !["copy"] = content[v.found]]
        PROVE  WindowsInv'
    <3>1. /\ v' \in WindowsRecord
          /\ v'.pc = "check" /\ v'.kind = v.kind /\ v'.found = v.found /\ v'.open = v.open
          /\ v'.saved = TRUE /\ v'.installed = v.installed /\ v'.committed = v.committed
          /\ v'.restored = v.restored /\ v'.keep = v.keep /\ v'.again = v.again
          /\ v'.error = v.error
      BY <2>2 DEF WindowsTyped, WindowsRecord, WindowsSteps, WindowsEnds, Inodes, Names, NoFile
    <3>2. /\ entry' \in [Names -> Inodes \cup {NoFile}]
          /\ entry'["path"] = entry["path"] /\ entry'["temp"] = entry["temp"]
          /\ entry'["backup"] = "copy"
      BY <2>2 DEF WindowsTyped, Names, Inodes, NoFile
    <3>3. /\ content' \in [Inodes -> Contents]
          /\ content'["original"] = content["original"]
          /\ content'["written"] = content["written"] /\ content'["copy"] = content[v.found]
          /\ content'["rebuilt"] = content["rebuilt"] /\ content'["foreign"] = content["foreign"]
      BY <2>2 DEF WindowsTyped, Inodes, Contents, NoFile, WindowsNamed, WindowsStages
    <3>4. WindowsTyped' /\ WindowsCounted' /\ limit' = limit /\ before' = before
          /\ budget'.faults <= budget.faults /\ budget'.foreign = budget.foreign
          /\ (Fault => budget'.faults < budget.faults) /\ (NoFault => budget' = budget)
      BY <2>2, <3>1, <3>2, <3>3, TroubleMet, TroubleCounts DEF WindowsTyped, WindowsCounted
    <3> HIDE DEF WindowsRecord
    <3> QED
      BY <2>2, <3>1, <3>2, <3>3, <3>4
      DEF WindowsInv, WindowsTyped, WindowsNamed, WindowsStages, WindowsCalm, WindowsAtomic
  <2> QED BY <1>4, <2>1, <2>2, WindowsRaised DEF CopyRestore, TryStep, To, Bound
<1>5. CASE Revalidate
  <2>1. ASSUME v.pc = "check", NoFault, entry["path"] = v.found, v' = [v EXCEPT !.pc = "rename"],
               entry' = entry, content' = content
        PROVE  WindowsInv'
    <3>1. /\ v' \in WindowsRecord
          /\ v'.pc = "rename" /\ v'.kind = v.kind /\ v'.found = v.found /\ v'.open = v.open
          /\ v'.saved = v.saved /\ v'.installed = v.installed /\ v'.committed = v.committed
          /\ v'.restored = v.restored /\ v'.keep = v.keep /\ v'.again = v.again
          /\ v'.error = v.error
      BY <2>1 DEF WindowsTyped, WindowsRecord, WindowsSteps, WindowsEnds, Inodes, Names, NoFile
    <3>2. WindowsTyped' /\ WindowsCounted' /\ limit' = limit /\ before' = before
          /\ budget'.faults <= budget.faults /\ budget'.foreign = budget.foreign
          /\ (Fault => budget'.faults < budget.faults) /\ (NoFault => budget' = budget)
      BY <2>1, <3>1, TroubleMet, TroubleCounts DEF WindowsTyped, WindowsCounted
    <3> HIDE DEF WindowsRecord
    <3> QED
      BY <2>1, <3>1, <3>2
      DEF WindowsInv, WindowsTyped, WindowsNamed, WindowsStages, WindowsCalm, WindowsAtomic
  <2> QED BY <1>5, <2>1, WindowsRaised DEF Revalidate, TryStep, To
<1>6. CASE RenameTemp
  <2>1. ASSUME v.pc = "rename", NoFault, v.found = NoFile => entry["path"] = NoFile,
               v' = [v EXCEPT !.pc = "verify", !.installed = TRUE],
               entry' = [entry EXCEPT !["path"] = entry["temp"], !["temp"] = NoFile],
               content' = content
        PROVE  WindowsInv'
    <3>1. /\ v' \in WindowsRecord
          /\ v'.pc = "verify" /\ v'.kind = v.kind /\ v'.found = v.found /\ v'.open = v.open
          /\ v'.saved = v.saved /\ v'.installed = TRUE /\ v'.committed = v.committed
          /\ v'.restored = v.restored /\ v'.keep = v.keep /\ v'.again = v.again
          /\ v'.error = v.error
      BY <2>1 DEF WindowsTyped, WindowsRecord, WindowsSteps, WindowsEnds, Inodes, Names, NoFile
    <3>2. /\ entry' \in [Names -> Inodes \cup {NoFile}]
          /\ entry'["path"] = entry["temp"] /\ entry'["temp"] = NoFile
          /\ entry'["backup"] = entry["backup"]
      BY <2>1 DEF WindowsTyped, Names, Inodes, NoFile
    <3>3. WindowsTyped' /\ WindowsCounted' /\ limit' = limit /\ before' = before
          /\ budget'.faults <= budget.faults /\ budget'.foreign = budget.foreign
          /\ (Fault => budget'.faults < budget.faults) /\ (NoFault => budget' = budget)
      BY <2>1, <3>1, <3>2, TroubleMet, TroubleCounts DEF WindowsTyped, WindowsCounted
    <3> HIDE DEF WindowsRecord
    <3> QED
      BY <2>1, <3>1, <3>2, <3>3
      DEF WindowsInv, WindowsTyped, WindowsNamed, WindowsStages, WindowsCalm, WindowsAtomic
  <2>2. ASSUME v.pc = "rename", Fault, v.found = NoFile => entry["path"] = NoFile,
               v' = [v EXCEPT !.pc = "undo", !.installed = TRUE, !.error = "raised"],
               entry' = [entry EXCEPT !["path"] = entry["temp"], !["temp"] = NoFile],
               content' = content
        PROVE  WindowsInv'
    <3>1. /\ v' \in WindowsRecord
          /\ v'.pc = "undo" /\ v'.kind = v.kind /\ v'.found = v.found /\ v'.open = v.open
          /\ v'.saved = v.saved /\ v'.installed = TRUE /\ v'.committed = v.committed
          /\ v'.restored = v.restored /\ v'.keep = v.keep /\ v'.again = v.again
          /\ v'.error = "raised"
      BY <2>2 DEF WindowsTyped, WindowsRecord, WindowsSteps, WindowsEnds, Inodes, Names, NoFile
    <3>2. /\ entry' \in [Names -> Inodes \cup {NoFile}]
          /\ entry'["path"] = entry["temp"] /\ entry'["temp"] = NoFile
          /\ entry'["backup"] = entry["backup"]
      BY <2>2 DEF WindowsTyped, Names, Inodes, NoFile
    <3>3. WindowsTyped' /\ WindowsCounted' /\ limit' = limit /\ before' = before
          /\ budget'.faults <= budget.faults /\ budget'.foreign = budget.foreign
          /\ (Fault => budget'.faults < budget.faults) /\ (NoFault => budget' = budget)
      BY <2>2, <3>1, <3>2, TroubleMet, TroubleCounts DEF WindowsTyped, WindowsCounted
    <3> HIDE DEF WindowsRecord
    <3> QED
      BY <2>2, <3>1, <3>2, <3>3
      DEF WindowsInv, WindowsTyped, WindowsNamed, WindowsStages, WindowsCalm, WindowsAtomic
  <2>3. ASSUME NEW keep \in BOOLEAN, v.pc = "rename", Fault \/ NoFault,
               v' = [v EXCEPT !.pc = "cleanup", !.error = "raised", !.keep = keep], entry' = entry,
               content' = content
        PROVE  WindowsInv'
    <3>1. /\ v' \in WindowsRecord
          /\ v'.pc = "cleanup" /\ v'.kind = v.kind /\ v'.found = v.found /\ v'.open = v.open
          /\ v'.saved = v.saved /\ v'.installed = v.installed /\ v'.committed = v.committed
          /\ v'.restored = v.restored /\ v'.keep = keep /\ v'.again = v.again
          /\ v'.error = "raised"
      BY <2>3 DEF WindowsTyped, WindowsRecord, WindowsSteps, WindowsEnds, Inodes, Names, NoFile
    <3>2. WindowsTyped' /\ WindowsCounted' /\ limit' = limit /\ before' = before
          /\ budget'.faults <= budget.faults /\ budget'.foreign = budget.foreign
          /\ (Fault => budget'.faults < budget.faults) /\ (NoFault => budget' = budget)
      BY <2>3, <3>1, TroubleMet, TroubleCounts DEF WindowsTyped, WindowsCounted
    <3> HIDE DEF WindowsRecord
    <3> QED
      BY <2>3, <3>1, <3>2
      DEF WindowsInv, WindowsTyped, WindowsNamed, WindowsStages, WindowsCalm, WindowsAtomic
  <2>4. entry["path"] # "written" /\ v \in WindowsRecord /\ entry["temp"] = "written" /\ v.pc = "rename"
    BY <1>6 DEF RenameTemp, WindowsNamed, WindowsStages, WindowsTyped
  <2>5. Renamed("temp", "path")["path"] = "written"
    BY <2>4 DEF Renamed, WindowsTyped, Names
  <2>6. v' = RenameFailed("written") => v' = [v EXCEPT !.pc = "undo", !.installed = TRUE, !.error = "raised"]
    BY DEF RenameFailed
  <2>7. CASE entry' = entry /\ v' = RenameFailed(entry["path"]) /\ content' = content /\ (Fault \/ NoFault)
    BY <2>3, <2>4, <2>7, RenameGivesUp
  <2> QED BY <1>6, <2>1, <2>2, <2>4, <2>5, <2>6, <2>7 DEF RenameTemp, Renamed
<1>7. CASE VerifyRenamed
  <2>1. ASSUME v.pc = "verify", NoFault, entry["path"] = "written", v' = [v EXCEPT !.pc = "sync"],
               entry' = entry, content' = content
        PROVE  WindowsInv'
    <3>1. /\ v' \in WindowsRecord
          /\ v'.pc = "sync" /\ v'.kind = v.kind /\ v'.found = v.found /\ v'.open = v.open
          /\ v'.saved = v.saved /\ v'.installed = v.installed /\ v'.committed = v.committed
          /\ v'.restored = v.restored /\ v'.keep = v.keep /\ v'.again = v.again
          /\ v'.error = v.error
      BY <2>1 DEF WindowsTyped, WindowsRecord, WindowsSteps, WindowsEnds, Inodes, Names, NoFile
    <3>2. WindowsTyped' /\ WindowsCounted' /\ limit' = limit /\ before' = before
          /\ budget'.faults <= budget.faults /\ budget'.foreign = budget.foreign
          /\ (Fault => budget'.faults < budget.faults) /\ (NoFault => budget' = budget)
      BY <2>1, <3>1, TroubleMet, TroubleCounts DEF WindowsTyped, WindowsCounted
    <3> HIDE DEF WindowsRecord
    <3> QED
      BY <2>1, <3>1, <3>2
      DEF WindowsInv, WindowsTyped, WindowsNamed, WindowsStages, WindowsCalm, WindowsAtomic
  <2> QED BY <1>7, <2>1, WindowsRaised DEF VerifyRenamed, TryStep, To, WindowsStages
<1>8. CASE SyncRenamed
  <2>1. ASSUME v.pc = "sync", NoFault, v' = [v EXCEPT !.pc = "dropOld"], entry' = entry,
               content' = content
        PROVE  WindowsInv'
    <3>1. /\ v' \in WindowsRecord
          /\ v'.pc = "dropOld" /\ v'.kind = v.kind /\ v'.found = v.found /\ v'.open = v.open
          /\ v'.saved = v.saved /\ v'.installed = v.installed /\ v'.committed = v.committed
          /\ v'.restored = v.restored /\ v'.keep = v.keep /\ v'.again = v.again
          /\ v'.error = v.error
      BY <2>1 DEF WindowsTyped, WindowsRecord, WindowsSteps, WindowsEnds, Inodes, Names, NoFile
    <3>2. WindowsTyped' /\ WindowsCounted' /\ limit' = limit /\ before' = before
          /\ budget'.faults <= budget.faults /\ budget'.foreign = budget.foreign
          /\ (Fault => budget'.faults < budget.faults) /\ (NoFault => budget' = budget)
      BY <2>1, <3>1, TroubleMet, TroubleCounts DEF WindowsTyped, WindowsCounted
    <3> HIDE DEF WindowsRecord
    <3> QED
      BY <2>1, <3>1, <3>2
      DEF WindowsInv, WindowsTyped, WindowsNamed, WindowsStages, WindowsCalm, WindowsAtomic
  <2> QED BY <1>8, <2>1, WindowsRaised DEF SyncRenamed, TryStep, To
<1>9. CASE DropRestore
  <2>1. ASSUME v.pc = "dropOld", NoFault, v.saved, entry["backup"] = "copy",
               v' = [v EXCEPT !.pc = "cleanup", !.committed = TRUE, !.saved = FALSE],
               entry' = [entry EXCEPT !["backup"] = NoFile], content' = content
        PROVE  WindowsInv'
    <3>1. /\ v' \in WindowsRecord
          /\ v'.pc = "cleanup" /\ v'.kind = v.kind /\ v'.found = v.found /\ v'.open = v.open
          /\ v'.saved = FALSE /\ v'.installed = v.installed /\ v'.committed = TRUE
          /\ v'.restored = v.restored /\ v'.keep = v.keep /\ v'.again = v.again
          /\ v'.error = v.error
      BY <2>1 DEF WindowsTyped, WindowsRecord, WindowsSteps, WindowsEnds, Inodes, Names, NoFile
    <3>2. /\ entry' \in [Names -> Inodes \cup {NoFile}]
          /\ entry'["path"] = entry["path"] /\ entry'["temp"] = entry["temp"]
          /\ entry'["backup"] = NoFile
      BY <2>1 DEF WindowsTyped, Names, Inodes, NoFile
    <3>3. WindowsTyped' /\ WindowsCounted' /\ limit' = limit /\ before' = before
          /\ budget'.faults <= budget.faults /\ budget'.foreign = budget.foreign
          /\ (Fault => budget'.faults < budget.faults) /\ (NoFault => budget' = budget)
      BY <2>1, <3>1, <3>2, TroubleMet, TroubleCounts DEF WindowsTyped, WindowsCounted
    <3> HIDE DEF WindowsRecord
    <3> QED
      BY <2>1, <3>1, <3>2, <3>3
      DEF WindowsInv, WindowsTyped, WindowsNamed, WindowsStages, WindowsCalm, WindowsAtomic
  <2>2. ASSUME v.pc = "dropOld", NoFault,
               v' = [v EXCEPT !.pc = "cleanup", !.committed = TRUE, !.saved = FALSE],
               entry' = entry, content' = content
        PROVE  WindowsInv'
    <3>1. /\ v' \in WindowsRecord
          /\ v'.pc = "cleanup" /\ v'.kind = v.kind /\ v'.found = v.found /\ v'.open = v.open
          /\ v'.saved = FALSE /\ v'.installed = v.installed /\ v'.committed = TRUE
          /\ v'.restored = v.restored /\ v'.keep = v.keep /\ v'.again = v.again
          /\ v'.error = v.error
      BY <2>2 DEF WindowsTyped, WindowsRecord, WindowsSteps, WindowsEnds, Inodes, Names, NoFile
    <3>2. WindowsTyped' /\ WindowsCounted' /\ limit' = limit /\ before' = before
          /\ budget'.faults <= budget.faults /\ budget'.foreign = budget.foreign
          /\ (Fault => budget'.faults < budget.faults) /\ (NoFault => budget' = budget)
      BY <2>2, <3>1, TroubleMet, TroubleCounts DEF WindowsTyped, WindowsCounted
    <3> HIDE DEF WindowsRecord
    <3> QED
      BY <2>2, <3>1, <3>2
      DEF WindowsInv, WindowsTyped, WindowsNamed, WindowsStages, WindowsCalm, WindowsAtomic
  <2>3. ASSUME v.pc = "dropOld", v.saved, Fault, v.kind = "private",
               v' = [v EXCEPT !.pc = "undo", !.error = "raised", !.again = TRUE], entry' = entry,
               content' = content
        PROVE  WindowsInv'
    <3>1. /\ v' \in WindowsRecord
          /\ v'.pc = "undo" /\ v'.kind = v.kind /\ v'.found = v.found /\ v'.open = v.open
          /\ v'.saved = v.saved /\ v'.installed = v.installed /\ v'.committed = v.committed
          /\ v'.restored = v.restored /\ v'.keep = v.keep /\ v'.again = TRUE
          /\ v'.error = "raised"
      BY <2>3 DEF WindowsTyped, WindowsRecord, WindowsSteps, WindowsEnds, Inodes, Names, NoFile
    <3>2. WindowsTyped' /\ WindowsCounted' /\ limit' = limit /\ before' = before
          /\ budget'.faults <= budget.faults /\ budget'.foreign = budget.foreign
          /\ (Fault => budget'.faults < budget.faults) /\ (NoFault => budget' = budget)
      BY <2>3, <3>1, TroubleMet, TroubleCounts DEF WindowsTyped, WindowsCounted
    <3> HIDE DEF WindowsRecord
    <3> QED
      BY <2>3, <3>1, <3>2
      DEF WindowsInv, WindowsTyped, WindowsNamed, WindowsStages, WindowsCalm, WindowsAtomic
  <2>4. ASSUME v.pc = "dropOld", v.saved, Fault, v.kind # "private",
               v' = [v EXCEPT !.pc = "undo", !.error = "raised", !.again = FALSE], entry' = entry,
               content' = content
        PROVE  WindowsInv'
    <3>1. /\ v' \in WindowsRecord
          /\ v'.pc = "undo" /\ v'.kind = v.kind /\ v'.found = v.found /\ v'.open = v.open
          /\ v'.saved = v.saved /\ v'.installed = v.installed /\ v'.committed = v.committed
          /\ v'.restored = v.restored /\ v'.keep = v.keep /\ v'.again = FALSE
          /\ v'.error = "raised"
      BY <2>4 DEF WindowsTyped, WindowsRecord, WindowsSteps, WindowsEnds, Inodes, Names, NoFile
    <3>2. WindowsTyped' /\ WindowsCounted' /\ limit' = limit /\ before' = before
          /\ budget'.faults <= budget.faults /\ budget'.foreign = budget.foreign
          /\ (Fault => budget'.faults < budget.faults) /\ (NoFault => budget' = budget)
      BY <2>4, <3>1, TroubleMet, TroubleCounts DEF WindowsTyped, WindowsCounted
    <3> HIDE DEF WindowsRecord
    <3> QED
      BY <2>4, <3>1, <3>2
      DEF WindowsInv, WindowsTyped, WindowsNamed, WindowsStages, WindowsCalm, WindowsAtomic
  <2> QED BY <1>9, <2>1, <2>2, <2>3, <2>4 DEF DropRestore, Removed, Bound
<1>10. CASE Undo
  <2>1. ASSUME v.pc = "undo",
               Fault \/ (NoFault /\ (entry["path"] # "written" \/ (v.found # NoFile /\ v.kind # "promote" /\ entry["backup"] # "copy"))),
               v.again, v.kind = "private",
               v' = [v EXCEPT !.pc = "undo", !.again = FALSE, !.keep = TRUE, !.error = "ambiguous"],
               entry' = entry, content' = content
        PROVE  WindowsInv'
    <3>1. /\ v' \in WindowsRecord
          /\ v'.pc = "undo" /\ v'.kind = v.kind /\ v'.found = v.found /\ v'.open = v.open
          /\ v'.saved = v.saved /\ v'.installed = v.installed /\ v'.committed = v.committed
          /\ v'.restored = v.restored /\ v'.keep = TRUE /\ v'.again = FALSE
          /\ v'.error = "ambiguous"
      BY <2>1 DEF WindowsTyped, WindowsRecord, WindowsSteps, WindowsEnds, Inodes, Names, NoFile
    <3>2. WindowsTyped' /\ WindowsCounted' /\ limit' = limit /\ before' = before
          /\ budget'.faults <= budget.faults /\ budget'.foreign = budget.foreign
          /\ (Fault => budget'.faults < budget.faults) /\ (NoFault => budget' = budget)
      BY <2>1, <3>1, TroubleMet, TroubleCounts DEF WindowsTyped, WindowsCounted
    <3> HIDE DEF WindowsRecord
    <3> QED
      BY <2>1, <3>1, <3>2
      DEF WindowsInv, WindowsTyped, WindowsNamed, WindowsStages, WindowsCalm, WindowsAtomic
  <2>2. ASSUME v.pc = "undo",
               Fault \/ (NoFault /\ (entry["path"] # "written" \/ (v.found # NoFile /\ v.kind # "promote" /\ entry["backup"] # "copy"))),
               ~v.again, v.kind = "private",
               v' = [v EXCEPT !.pc = "cleanup", !.again = FALSE, !.keep = TRUE, !.error = "ambiguous"],
               entry' = entry, content' = content
        PROVE  WindowsInv'
    <3>1. /\ v' \in WindowsRecord
          /\ v'.pc = "cleanup" /\ v'.kind = v.kind /\ v'.found = v.found /\ v'.open = v.open
          /\ v'.saved = v.saved /\ v'.installed = v.installed /\ v'.committed = v.committed
          /\ v'.restored = v.restored /\ v'.keep = TRUE /\ v'.again = FALSE
          /\ v'.error = "ambiguous"
      BY <2>2 DEF WindowsTyped, WindowsRecord, WindowsSteps, WindowsEnds, Inodes, Names, NoFile
    <3>2. WindowsTyped' /\ WindowsCounted' /\ limit' = limit /\ before' = before
          /\ budget'.faults <= budget.faults /\ budget'.foreign = budget.foreign
          /\ (Fault => budget'.faults < budget.faults) /\ (NoFault => budget' = budget)
      BY <2>2, <3>1, TroubleMet, TroubleCounts DEF WindowsTyped, WindowsCounted
    <3> HIDE DEF WindowsRecord
    <3> QED
      BY <2>2, <3>1, <3>2
      DEF WindowsInv, WindowsTyped, WindowsNamed, WindowsStages, WindowsCalm, WindowsAtomic
  <2>3. ASSUME v.pc = "undo",
               Fault \/ (NoFault /\ (entry["path"] # "written" \/ (v.found # NoFile /\ v.kind # "promote" /\ entry["backup"] # "copy"))),
               ~v.again, v.kind = "workspace",
               v' = [v EXCEPT !.pc = "cleanup", !.again = FALSE, !.keep = TRUE, !.error = "raised"],
               entry' = entry, content' = content
        PROVE  WindowsInv'
    <3>1. /\ v' \in WindowsRecord
          /\ v'.pc = "cleanup" /\ v'.kind = v.kind /\ v'.found = v.found /\ v'.open = v.open
          /\ v'.saved = v.saved /\ v'.installed = v.installed /\ v'.committed = v.committed
          /\ v'.restored = v.restored /\ v'.keep = TRUE /\ v'.again = FALSE
          /\ v'.error = "raised"
      BY <2>3 DEF WindowsTyped, WindowsRecord, WindowsSteps, WindowsEnds, Inodes, Names, NoFile
    <3>2. WindowsTyped' /\ WindowsCounted' /\ limit' = limit /\ before' = before
          /\ budget'.faults <= budget.faults /\ budget'.foreign = budget.foreign
          /\ (Fault => budget'.faults < budget.faults) /\ (NoFault => budget' = budget)
      BY <2>3, <3>1, TroubleMet, TroubleCounts DEF WindowsTyped, WindowsCounted
    <3> HIDE DEF WindowsRecord
    <3> QED
      BY <2>3, <3>1, <3>2
      DEF WindowsInv, WindowsTyped, WindowsNamed, WindowsStages, WindowsCalm, WindowsAtomic
  <2>4. ASSUME v.pc = "undo",
               Fault \/ (NoFault /\ (entry["path"] # "written" \/ (v.found # NoFile /\ v.kind # "promote" /\ entry["backup"] # "copy"))),
               ~v.again, v.kind = "promote",
               v' = [v EXCEPT !.pc = "cleanup", !.again = FALSE, !.keep = FALSE, !.error = "ambiguous"],
               entry' = entry, content' = content
        PROVE  WindowsInv'
    <3>1. /\ v' \in WindowsRecord
          /\ v'.pc = "cleanup" /\ v'.kind = v.kind /\ v'.found = v.found /\ v'.open = v.open
          /\ v'.saved = v.saved /\ v'.installed = v.installed /\ v'.committed = v.committed
          /\ v'.restored = v.restored /\ v'.keep = FALSE /\ v'.again = FALSE
          /\ v'.error = "ambiguous"
      BY <2>4 DEF WindowsTyped, WindowsRecord, WindowsSteps, WindowsEnds, Inodes, Names, NoFile
    <3>2. WindowsTyped' /\ WindowsCounted' /\ limit' = limit /\ before' = before
          /\ budget'.faults <= budget.faults /\ budget'.foreign = budget.foreign
          /\ (Fault => budget'.faults < budget.faults) /\ (NoFault => budget' = budget)
      BY <2>4, <3>1, TroubleMet, TroubleCounts DEF WindowsTyped, WindowsCounted
    <3> HIDE DEF WindowsRecord
    <3> QED
      BY <2>4, <3>1, <3>2
      DEF WindowsInv, WindowsTyped, WindowsNamed, WindowsStages, WindowsCalm, WindowsAtomic
  <2>5. ASSUME v.pc = "undo", Fault, v.found = NoFile, entry["path"] = "written", v.again,
               v.kind = "private",
               v' = [v EXCEPT !.pc = "undo", !.again = FALSE, !.keep = TRUE, !.error = "ambiguous"],
               entry' = entry, content' = [content EXCEPT !["written"] = "empty"]
        PROVE  WindowsInv'
    <3>1. /\ v' \in WindowsRecord
          /\ v'.pc = "undo" /\ v'.kind = v.kind /\ v'.found = v.found /\ v'.open = v.open
          /\ v'.saved = v.saved /\ v'.installed = v.installed /\ v'.committed = v.committed
          /\ v'.restored = v.restored /\ v'.keep = TRUE /\ v'.again = FALSE
          /\ v'.error = "ambiguous"
      BY <2>5 DEF WindowsTyped, WindowsRecord, WindowsSteps, WindowsEnds, Inodes, Names, NoFile
    <3>2. /\ content' \in [Inodes -> Contents]
          /\ content'["original"] = content["original"] /\ content'["written"] = "empty"
          /\ content'["copy"] = content["copy"] /\ content'["rebuilt"] = content["rebuilt"]
          /\ content'["foreign"] = content["foreign"]
      BY <2>5 DEF WindowsTyped, Inodes, Contents, NoFile, WindowsNamed, WindowsStages
    <3>3. WindowsTyped' /\ WindowsCounted' /\ limit' = limit /\ before' = before
          /\ budget'.faults <= budget.faults /\ budget'.foreign = budget.foreign
          /\ (Fault => budget'.faults < budget.faults) /\ (NoFault => budget' = budget)
      BY <2>5, <3>1, <3>2, TroubleMet, TroubleCounts DEF WindowsTyped, WindowsCounted
    <3> HIDE DEF WindowsRecord
    <3> QED
      BY <2>5, <3>1, <3>2, <3>3
      DEF WindowsInv, WindowsTyped, WindowsNamed, WindowsStages, WindowsCalm, WindowsAtomic
  <2>6. ASSUME v.pc = "undo", Fault, v.found = NoFile, entry["path"] = "written", ~v.again,
               v.kind = "private",
               v' = [v EXCEPT !.pc = "cleanup", !.again = FALSE, !.keep = TRUE, !.error = "ambiguous"],
               entry' = entry, content' = [content EXCEPT !["written"] = "empty"]
        PROVE  WindowsInv'
    <3>1. /\ v' \in WindowsRecord
          /\ v'.pc = "cleanup" /\ v'.kind = v.kind /\ v'.found = v.found /\ v'.open = v.open
          /\ v'.saved = v.saved /\ v'.installed = v.installed /\ v'.committed = v.committed
          /\ v'.restored = v.restored /\ v'.keep = TRUE /\ v'.again = FALSE
          /\ v'.error = "ambiguous"
      BY <2>6 DEF WindowsTyped, WindowsRecord, WindowsSteps, WindowsEnds, Inodes, Names, NoFile
    <3>2. /\ content' \in [Inodes -> Contents]
          /\ content'["original"] = content["original"] /\ content'["written"] = "empty"
          /\ content'["copy"] = content["copy"] /\ content'["rebuilt"] = content["rebuilt"]
          /\ content'["foreign"] = content["foreign"]
      BY <2>6 DEF WindowsTyped, Inodes, Contents, NoFile, WindowsNamed, WindowsStages
    <3>3. WindowsTyped' /\ WindowsCounted' /\ limit' = limit /\ before' = before
          /\ budget'.faults <= budget.faults /\ budget'.foreign = budget.foreign
          /\ (Fault => budget'.faults < budget.faults) /\ (NoFault => budget' = budget)
      BY <2>6, <3>1, <3>2, TroubleMet, TroubleCounts DEF WindowsTyped, WindowsCounted
    <3> HIDE DEF WindowsRecord
    <3> QED
      BY <2>6, <3>1, <3>2, <3>3
      DEF WindowsInv, WindowsTyped, WindowsNamed, WindowsStages, WindowsCalm, WindowsAtomic
  <2>7. ASSUME v.pc = "undo", NoFault, entry["path"] = "written", v.found = NoFile,
               v.kind # "promote",
               v' = [v EXCEPT !.pc = "cleanup", !.installed = FALSE, !.open = FALSE],
               entry' = [entry EXCEPT !["path"] = NoFile], content' = content
        PROVE  WindowsInv'
    <3>1. /\ v' \in WindowsRecord
          /\ v'.pc = "cleanup" /\ v'.kind = v.kind /\ v'.found = v.found /\ v'.open = FALSE
          /\ v'.saved = v.saved /\ v'.installed = FALSE /\ v'.committed = v.committed
          /\ v'.restored = v.restored /\ v'.keep = v.keep /\ v'.again = v.again
          /\ v'.error = v.error
      BY <2>7 DEF WindowsTyped, WindowsRecord, WindowsSteps, WindowsEnds, Inodes, Names, NoFile
    <3>2. /\ entry' \in [Names -> Inodes \cup {NoFile}]
          /\ entry'["path"] = NoFile /\ entry'["temp"] = entry["temp"]
          /\ entry'["backup"] = entry["backup"]
      BY <2>7 DEF WindowsTyped, Names, Inodes, NoFile
    <3>3. WindowsTyped' /\ WindowsCounted' /\ limit' = limit /\ before' = before
          /\ budget'.faults <= budget.faults /\ budget'.foreign = budget.foreign
          /\ (Fault => budget'.faults < budget.faults) /\ (NoFault => budget' = budget)
      BY <2>7, <3>1, <3>2, TroubleMet, TroubleCounts DEF WindowsTyped, WindowsCounted
    <3> HIDE DEF WindowsRecord
    <3> QED
      BY <2>7, <3>1, <3>2, <3>3
      DEF WindowsInv, WindowsTyped, WindowsNamed, WindowsStages, WindowsCalm, WindowsAtomic
  <2>8. ASSUME v.pc = "undo", NoFault, entry["path"] = "written", v.found = NoFile,
               v.kind = "private",
               v' = [v EXCEPT !.pc = "cleanup", !.installed = FALSE, !.open = FALSE],
               entry' = [entry EXCEPT !["path"] = NoFile],
               content' = [content EXCEPT !["written"] = "empty"]
        PROVE  WindowsInv'
    <3>1. /\ v' \in WindowsRecord
          /\ v'.pc = "cleanup" /\ v'.kind = v.kind /\ v'.found = v.found /\ v'.open = FALSE
          /\ v'.saved = v.saved /\ v'.installed = FALSE /\ v'.committed = v.committed
          /\ v'.restored = v.restored /\ v'.keep = v.keep /\ v'.again = v.again
          /\ v'.error = v.error
      BY <2>8 DEF WindowsTyped, WindowsRecord, WindowsSteps, WindowsEnds, Inodes, Names, NoFile
    <3>2. /\ entry' \in [Names -> Inodes \cup {NoFile}]
          /\ entry'["path"] = NoFile /\ entry'["temp"] = entry["temp"]
          /\ entry'["backup"] = entry["backup"]
      BY <2>8 DEF WindowsTyped, Names, Inodes, NoFile
    <3>3. /\ content' \in [Inodes -> Contents]
          /\ content'["original"] = content["original"] /\ content'["written"] = "empty"
          /\ content'["copy"] = content["copy"] /\ content'["rebuilt"] = content["rebuilt"]
          /\ content'["foreign"] = content["foreign"]
      BY <2>8 DEF WindowsTyped, Inodes, Contents, NoFile, WindowsNamed, WindowsStages
    <3>4. WindowsTyped' /\ WindowsCounted' /\ limit' = limit /\ before' = before
          /\ budget'.faults <= budget.faults /\ budget'.foreign = budget.foreign
          /\ (Fault => budget'.faults < budget.faults) /\ (NoFault => budget' = budget)
      BY <2>8, <3>1, <3>2, <3>3, TroubleMet, TroubleCounts DEF WindowsTyped, WindowsCounted
    <3> HIDE DEF WindowsRecord
    <3> QED
      BY <2>8, <3>1, <3>2, <3>3, <3>4
      DEF WindowsInv, WindowsTyped, WindowsNamed, WindowsStages, WindowsCalm, WindowsAtomic
  <2>9. ASSUME v.pc = "undo", NoFault, entry["path"] = "written", v.kind = "promote",
               v.found = NoFile,
               v' = [v EXCEPT !.pc = "cleanup", !.installed = FALSE, !.open = FALSE],
               entry' = [entry EXCEPT !["temp"] = entry["path"], !["path"] = NoFile],
               content' = content
        PROVE  WindowsInv'
    <3>1. /\ v' \in WindowsRecord
          /\ v'.pc = "cleanup" /\ v'.kind = v.kind /\ v'.found = v.found /\ v'.open = FALSE
          /\ v'.saved = v.saved /\ v'.installed = FALSE /\ v'.committed = v.committed
          /\ v'.restored = v.restored /\ v'.keep = v.keep /\ v'.again = v.again
          /\ v'.error = v.error
      BY <2>9 DEF WindowsTyped, WindowsRecord, WindowsSteps, WindowsEnds, Inodes, Names, NoFile
    <3>2. /\ entry' \in [Names -> Inodes \cup {NoFile}]
          /\ entry'["path"] = NoFile /\ entry'["temp"] = entry["path"]
          /\ entry'["backup"] = entry["backup"]
      BY <2>9 DEF WindowsTyped, Names, Inodes, NoFile
    <3>3. WindowsTyped' /\ WindowsCounted' /\ limit' = limit /\ before' = before
          /\ budget'.faults <= budget.faults /\ budget'.foreign = budget.foreign
          /\ (Fault => budget'.faults < budget.faults) /\ (NoFault => budget' = budget)
      BY <2>9, <3>1, <3>2, TroubleMet, TroubleCounts DEF WindowsTyped, WindowsCounted
    <3> HIDE DEF WindowsRecord
    <3> QED
      BY <2>9, <3>1, <3>2, <3>3
      DEF WindowsInv, WindowsTyped, WindowsNamed, WindowsStages, WindowsCalm, WindowsAtomic
  <2>10. ASSUME v.pc = "undo", NoFault, entry["path"] = "written", v.kind = "promote",
                v.found # NoFile, v' = [v EXCEPT !.pc = "undoOld"],
                entry' = [entry EXCEPT !["temp"] = entry["path"], !["path"] = NoFile],
                content' = content
         PROVE  WindowsInv'
    <3>1. /\ v' \in WindowsRecord
          /\ v'.pc = "undoOld" /\ v'.kind = v.kind /\ v'.found = v.found /\ v'.open = v.open
          /\ v'.saved = v.saved /\ v'.installed = v.installed /\ v'.committed = v.committed
          /\ v'.restored = v.restored /\ v'.keep = v.keep /\ v'.again = v.again
          /\ v'.error = v.error
      BY <2>10 DEF WindowsTyped, WindowsRecord, WindowsSteps, WindowsEnds, Inodes, Names, NoFile
    <3>2. /\ entry' \in [Names -> Inodes \cup {NoFile}]
          /\ entry'["path"] = NoFile /\ entry'["temp"] = entry["path"]
          /\ entry'["backup"] = entry["backup"]
      BY <2>10 DEF WindowsTyped, Names, Inodes, NoFile
    <3>3. WindowsTyped' /\ WindowsCounted' /\ limit' = limit /\ before' = before
          /\ budget'.faults <= budget.faults /\ budget'.foreign = budget.foreign
          /\ (Fault => budget'.faults < budget.faults) /\ (NoFault => budget' = budget)
      BY <2>10, <3>1, <3>2, TroubleMet, TroubleCounts DEF WindowsTyped, WindowsCounted
    <3> HIDE DEF WindowsRecord
    <3> QED
      BY <2>10, <3>1, <3>2, <3>3
      DEF WindowsInv, WindowsTyped, WindowsNamed, WindowsStages, WindowsCalm, WindowsAtomic
  <2>11. ASSUME v.pc = "undo", NoFault, entry["path"] = "written", v.found # NoFile,
                v.kind # "promote", entry["backup"] = "copy",
                v' = [v EXCEPT !.pc = "cleanup", !.installed = FALSE, !.open = FALSE, !.restored = TRUE],
                entry' = [entry EXCEPT !["path"] = entry["backup"], !["backup"] = NoFile],
                content' = content
         PROVE  WindowsInv'
    <3>1. /\ v' \in WindowsRecord
          /\ v'.pc = "cleanup" /\ v'.kind = v.kind /\ v'.found = v.found /\ v'.open = FALSE
          /\ v'.saved = v.saved /\ v'.installed = FALSE /\ v'.committed = v.committed
          /\ v'.restored = TRUE /\ v'.keep = v.keep /\ v'.again = v.again /\ v'.error = v.error
      BY <2>11 DEF WindowsTyped, WindowsRecord, WindowsSteps, WindowsEnds, Inodes, Names, NoFile
    <3>2. /\ entry' \in [Names -> Inodes \cup {NoFile}]
          /\ entry'["path"] = entry["backup"] /\ entry'["temp"] = entry["temp"]
          /\ entry'["backup"] = NoFile
      BY <2>11 DEF WindowsTyped, Names, Inodes, NoFile
    <3>3. WindowsTyped' /\ WindowsCounted' /\ limit' = limit /\ before' = before
          /\ budget'.faults <= budget.faults /\ budget'.foreign = budget.foreign
          /\ (Fault => budget'.faults < budget.faults) /\ (NoFault => budget' = budget)
      BY <2>11, <3>1, <3>2, TroubleMet, TroubleCounts DEF WindowsTyped, WindowsCounted
    <3> HIDE DEF WindowsRecord
    <3> QED
      BY <2>11, <3>1, <3>2, <3>3
      DEF WindowsInv, WindowsTyped, WindowsNamed, WindowsStages, WindowsCalm, WindowsAtomic
  <2>12. v \in WindowsRecord /\ v.pc = "undo" /\ (v.again => v.kind = "private") /\ v.again \in BOOLEAN
    BY <1>10 DEF Undo, WindowsStages, WindowsTyped, WindowsRecord
  <2>13. ASSUME UndoFails, UNCHANGED files,
                Fault \/ (NoFault /\ (entry["path"] # "written" \/ (v.found # NoFile /\ v.kind # "promote" /\ entry["backup"] # "copy")))
         PROVE  WindowsInv'
    BY <2>1, <2>2, <2>3, <2>4, <2>12, <2>13, UndoGivesUp
  <2>14. CASE entry["path"] # "written" /\ NoFault /\ UndoFails /\ UNCHANGED files
    BY <2>13, <2>14
  <2>15. CASE entry["path"] = "written" /\ v.found = NoFile /\ v.kind # "promote"
    <3>1. CASE UndoFails /\ Fault /\ UNCHANGED entry
      BY <1>10, <2>5, <2>6, <2>12, <2>13, <2>15, <3>1, UndoGivesUp DEF Undo
    <3>2. CASE entry' = Bound("path", NoFile) /\ NoFault /\ v' = Undone
      BY <1>10, <2>7, <2>8, <2>12, <2>15, <3>2 DEF Undo, Undone, Bound
    <3> QED BY <1>10, <2>15, <3>1, <3>2 DEF Undo
  <2>16. CASE entry["path"] = "written" /\ v.kind = "promote"
    <3>1. CASE UndoFails /\ Fault /\ UNCHANGED entry
      BY <1>10, <2>13, <2>16, <3>1 DEF Undo
    <3>2. CASE /\ NoFault /\ entry' = Renamed("path", "temp")
               /\ v' = IF v.found = NoFile THEN Undone ELSE [v EXCEPT !.pc = "undoOld"]
      BY <1>10, <2>9, <2>10, <2>12, <2>16, <3>2 DEF Undo, Undone, Renamed
    <3> QED BY <1>10, <2>16, <3>1, <3>2 DEF Undo
  <2>17. CASE entry["path"] = "written" /\ v.found # NoFile /\ v.kind # "promote"
    <3>1. CASE UndoFails /\ UNCHANGED entry /\ ((entry["backup"] # "copy" /\ NoFault) \/ Fault)
      BY <1>10, <2>13, <2>17, <3>1 DEF Undo
    <3>2. CASE /\ entry["backup"] = "copy" /\ NoFault /\ entry' = Renamed("backup", "path")
               /\ v' = [Undone EXCEPT !.restored = TRUE]
      BY <1>10, <2>11, <2>12, <2>17, <3>2, UndoneRestored DEF Undo, Renamed
    <3> QED BY <1>10, <2>17, <3>1, <3>2 DEF Undo
  <2> QED BY <1>10, <2>14, <2>15, <2>16, <2>17 DEF Undo
<1>11. CASE UndoOld
  <2>1. ASSUME v.pc = "undoOld", NoFault, entry["path"] = NoFile, entry["backup"] = "copy",
               v' = [v EXCEPT !.pc = "cleanup", !.installed = FALSE, !.open = FALSE, !.restored = TRUE],
               entry' = [entry EXCEPT !["path"] = entry["backup"], !["backup"] = NoFile],
               content' = content
        PROVE  WindowsInv'
    <3>1. /\ v' \in WindowsRecord
          /\ v'.pc = "cleanup" /\ v'.kind = v.kind /\ v'.found = v.found /\ v'.open = FALSE
          /\ v'.saved = v.saved /\ v'.installed = FALSE /\ v'.committed = v.committed
          /\ v'.restored = TRUE /\ v'.keep = v.keep /\ v'.again = v.again /\ v'.error = v.error
      BY <2>1 DEF WindowsTyped, WindowsRecord, WindowsSteps, WindowsEnds, Inodes, Names, NoFile
    <3>2. /\ entry' \in [Names -> Inodes \cup {NoFile}]
          /\ entry'["path"] = entry["backup"] /\ entry'["temp"] = entry["temp"]
          /\ entry'["backup"] = NoFile
      BY <2>1 DEF WindowsTyped, Names, Inodes, NoFile
    <3>3. WindowsTyped' /\ WindowsCounted' /\ limit' = limit /\ before' = before
          /\ budget'.faults <= budget.faults /\ budget'.foreign = budget.foreign
          /\ (Fault => budget'.faults < budget.faults) /\ (NoFault => budget' = budget)
      BY <2>1, <3>1, <3>2, TroubleMet, TroubleCounts DEF WindowsTyped, WindowsCounted
    <3> HIDE DEF WindowsRecord
    <3> QED
      BY <2>1, <3>1, <3>2, <3>3
      DEF WindowsInv, WindowsTyped, WindowsNamed, WindowsStages, WindowsCalm, WindowsAtomic
  <2>2. ASSUME v.pc = "undoOld",
               Fault \/ (NoFault /\ (entry["path"] # NoFile \/ entry["backup"] # "copy")),
               v' = [v EXCEPT !.pc = "cleanup", !.again = FALSE, !.keep = FALSE, !.error = "ambiguous"],
               entry' = entry, content' = content
        PROVE  WindowsInv'
    <3>1. /\ v' \in WindowsRecord
          /\ v'.pc = "cleanup" /\ v'.kind = v.kind /\ v'.found = v.found /\ v'.open = v.open
          /\ v'.saved = v.saved /\ v'.installed = v.installed /\ v'.committed = v.committed
          /\ v'.restored = v.restored /\ v'.keep = FALSE /\ v'.again = FALSE
          /\ v'.error = "ambiguous"
      BY <2>2 DEF WindowsTyped, WindowsRecord, WindowsSteps, WindowsEnds, Inodes, Names, NoFile
    <3>2. WindowsTyped' /\ WindowsCounted' /\ limit' = limit /\ before' = before
          /\ budget'.faults <= budget.faults /\ budget'.foreign = budget.foreign
          /\ (Fault => budget'.faults < budget.faults) /\ (NoFault => budget' = budget)
      BY <2>2, <3>1, TroubleMet, TroubleCounts DEF WindowsTyped, WindowsCounted
    <3> HIDE DEF WindowsRecord
    <3> QED
      BY <2>2, <3>1, <3>2
      DEF WindowsInv, WindowsTyped, WindowsNamed, WindowsStages, WindowsCalm, WindowsAtomic
  <2>3. v \in WindowsRecord /\ v.pc = "undoOld" /\ ~v.again /\ v.kind = "promote"
    BY <1>11 DEF UndoOld, WindowsStages, WindowsTyped, WindowsRecord
  <2> QED BY <1>11, <2>1, <2>2, <2>3, UndoGivesUp, UndoneRestored DEF UndoOld, Renamed, WindowsStages
<1>12. CASE ProcessKilled
  <2>1. ASSUME v.pc \in WindowsSteps, NoFault, v' = [v EXCEPT !.pc = "died"], entry' = entry,
               content' = content
        PROVE  WindowsInv'
    <3>1. /\ v' \in WindowsRecord
          /\ v'.pc = "died" /\ v'.kind = v.kind /\ v'.found = v.found /\ v'.open = v.open
          /\ v'.saved = v.saved /\ v'.installed = v.installed /\ v'.committed = v.committed
          /\ v'.restored = v.restored /\ v'.keep = v.keep /\ v'.again = v.again
          /\ v'.error = v.error
      BY <2>1 DEF WindowsTyped, WindowsRecord, WindowsSteps, WindowsEnds, Inodes, Names, NoFile
    <3>2. WindowsTyped' /\ WindowsCounted' /\ limit' = limit /\ before' = before
          /\ budget'.faults <= budget.faults /\ budget'.foreign = budget.foreign
          /\ (Fault => budget'.faults < budget.faults) /\ (NoFault => budget' = budget)
      BY <2>1, <3>1, TroubleMet, TroubleCounts DEF WindowsTyped, WindowsCounted
    <3> HIDE DEF WindowsRecord
    <3> QED
      BY <2>1, <3>1, <3>2
      DEF WindowsInv, WindowsTyped, WindowsNamed, WindowsStages, WindowsCalm, WindowsAtomic
  <2> QED BY <1>12, <2>1 DEF ProcessKilled, To
<1>13. CASE Cleanup
  <2> DEFINE dropTemp == v.open /\ ~v.committed /\ ~v.installed
             dropOld == v.saved /\ ~v.committed /\ ~v.restored /\ ~v.keep
                        /\ (v.kind = "workspace" => ~v.installed)
             how == IF v.error = "none" THEN "returned" ELSE v.error
  <2>1. v.pc = "cleanup" /\ (Fault \/ NoFault) /\ v' = [v EXCEPT !.pc = how]
    BY <1>13 DEF Cleanup, To
  <2>2. /\ entry' \in [Names -> Inodes \cup {NoFile}]
        /\ entry'["path"] = entry["path"]
        /\ entry'["temp"] \in {entry["temp"], NoFile}
        /\ entry'["backup"] = entry["backup"] \/ (dropOld /\ entry'["backup"] = NoFile)
    BY <1>13 DEF Cleanup, Deleted, WindowsTyped, WindowsNamed, Names, Inodes
  <2>3. /\ content' \in [Inodes -> Contents]
        /\ content'["original"] = content["original"] /\ content'["foreign"] = content["foreign"]
        /\ content'["written"] = content["written"] \/ (dropTemp /\ content'["written"] = "empty")
        /\ content'["copy"] = content["copy"] \/ (dropOld /\ content'["copy"] = "empty")
    BY <1>13 DEF Cleanup, WindowsTyped, Inodes, Contents
  <2>4. /\ how \in {"returned", "raised", "ambiguous"} /\ how = "returned" <=> v.error = "none"
        /\ how # "returned" => how = v.error
    OBVIOUS
  <2> HIDE DEF how
  <2>5. /\ v' \in WindowsRecord
        /\ v'.pc = how /\ v'.kind = v.kind /\ v'.found = v.found /\ v'.open = v.open
        /\ v'.saved = v.saved /\ v'.installed = v.installed /\ v'.committed = v.committed
        /\ v'.restored = v.restored /\ v'.keep = v.keep /\ v'.again = v.again
        /\ v'.error = v.error
    BY <2>1, <2>4 DEF WindowsTyped, WindowsRecord
  <2>6. WindowsTyped' /\ WindowsCounted' /\ limit' = limit /\ before' = before
        /\ budget'.faults <= budget.faults /\ budget'.foreign = budget.foreign
    BY <2>1, <2>2, <2>3, <2>5, TroubleMet, TroubleCounts DEF WindowsTyped, WindowsCounted
  <2>7. v.saved \in BOOLEAN /\ v.committed \in BOOLEAN /\ v.keep \in BOOLEAN
    BY DEF WindowsTyped, WindowsRecord
  <2> HIDE DEF WindowsRecord
  <2>8. WindowsNamed' /\ WindowsStages'
    BY <2>1, <2>2, <2>3, <2>4, <2>5, <2>6 DEF WindowsTyped, WindowsNamed, WindowsStages
  <2>9. WindowsCalm'
    BY <2>1, <2>2, <2>3, <2>4, <2>5, <2>6, <2>7 DEF WindowsTyped, WindowsNamed, WindowsStages, WindowsCalm
  <2>10. WindowsAtomic'
    BY <2>1, <2>2, <2>3, <2>4, <2>5, <2>6 DEF WindowsTyped, WindowsNamed, WindowsStages,
       WindowsCalm, WindowsAtomic
  <2> QED BY <2>6, <2>8, <2>9, <2>10 DEF WindowsInv
<1>14. CASE InterfereBetween
  <2>1. /\ limit' = limit /\ before' = before /\ budget' \in Trouble /\ budget.foreign > 0
        /\ budget'.foreign = budget.foreign - 1 /\ budget'.faults = budget.faults
        /\ UNCHANGED <<content, v>> /\ v.pc \in WindowsSteps
    BY <1>14, FilesAssumption DEF InterfereBetween, Interfere, Trouble, WindowsTyped
  <2>2. /\ entry' \in [Names -> Inodes \cup {NoFile}]
        /\ entry'["temp"] = entry["temp"]
        /\ \/ entry'["backup"] = entry["backup"] /\ entry'["path"] \in {"foreign", NoFile} /\ entry["path"] # NoFile
           \/ entry'["path"] = entry["path"] /\ entry'["backup"] \in {"foreign", NoFile}
    BY <1>14 DEF InterfereBetween, Interfere, Bound, WindowsTyped, Names, Inodes
  <2>3. budget'.faults \in Nat /\ budget'.foreign \in Nat
    BY <2>1, TroubleCounts
  <2>4. WindowsTyped' /\ WindowsCounted' /\ ~Calm /\ ~Calm'
    BY <2>1, <2>2, <2>3, TroubleCounts DEF WindowsTyped
  <2> QED BY <2>1, <2>2, <2>3, <2>4 DEF WindowsInv, WindowsTyped, WindowsNamed, WindowsStages, WindowsCalm, WindowsAtomic
<1>15. CASE UNCHANGED windowsVars
  BY <1>15 DEF windowsVars, WindowsInv, WindowsTyped, WindowsNamed, WindowsStages, WindowsCalm, WindowsAtomic
<1> QED BY <1>1, <1>2, <1>3, <1>4, <1>5, <1>6, <1>7, <1>8, <1>9, <1>10, <1>11, <1>12, <1>13, <1>14, <1>15 DEF WindowsNext

\* The invariant holds when the write begins.
LEMMA WindowsInvInit == WindowsInit => WindowsInv
<1> SUFFICES ASSUME WindowsInit PROVE WindowsInv
  OBVIOUS
<1>1. PICK kind \in Kinds :
        /\ v = [pc |-> "inspect", kind |-> kind, found |-> NoFile, open |-> FALSE,
                saved |-> FALSE, installed |-> FALSE, committed |-> FALSE,
                restored |-> FALSE, keep |-> FALSE, again |-> FALSE, error |-> "none"]
        /\ before \in {"absent", "old"}
        /\ entry = [n \in Names |->
                      CASE n = "path" /\ before = "old" -> "original"
                        [] n = "temp" /\ kind = "promote" -> "written"
                        [] OTHER -> NoFile]
        /\ content = [i \in Inodes |-> CASE i = "original" -> "old"
                                         [] i = "foreign" -> "other"
                                         [] i = "written" /\ kind = "promote" -> "new"
                                         [] OTHER -> "empty"]
        /\ limit \in Trouble /\ budget = limit
  BY DEF WindowsInit
<1>2. /\ v \in WindowsRecord
      /\ v.pc = "inspect" /\ v.kind = kind /\ v.found = NoFile /\ ~v.open /\ ~v.saved /\ ~v.installed
      /\ ~v.committed /\ ~v.restored /\ ~v.keep /\ ~v.again /\ v.error = "none"
  BY <1>1 DEF WindowsRecord, WindowsSteps
<1>3. /\ entry \in [Names -> Inodes \cup {NoFile}] /\ content \in [Inodes -> Contents]
  BY <1>1 DEF Names, Inodes, NoFile, Contents
<1>4. /\ entry["path"] = (IF before = "old" THEN "original" ELSE NoFile)
      /\ entry["temp"] = (IF kind = "promote" THEN "written" ELSE NoFile) /\ entry["backup"] = NoFile
      /\ content["original"] = "old" /\ content["foreign"] = "other"
      /\ kind = "promote" => content["written"] = "new"
  BY <1>1 DEF Names, Inodes, NoFile
<1>5. WindowsTyped /\ WindowsCounted
  BY <1>1, <1>2, <1>3, TroubleCounts DEF WindowsTyped, WindowsCounted
<1> QED
  BY <1>1, <1>2, <1>4, <1>5
  DEF WindowsInv, WindowsNamed, WindowsStages, WindowsCalm, WindowsAtomic, BeforeRename, AfterRename,
      WindowsEnds, Held, NoFile

\* It says what the run checks: the old contents are kept.
LEMMA WindowsInvSafe == WindowsInv => WindowsTypeOK /\ WindowsOldContentsKept
<1> SUFFICES ASSUME WindowsInv PROVE WindowsTypeOK /\ WindowsOldContentsKept
  OBVIOUS
<1> /\ WindowsTyped /\ WindowsNamed /\ WindowsStages /\ WindowsCalm
  BY DEF WindowsInv
<1>1. WindowsTypeOK
  BY DEF WindowsTyped, WindowsTypeOK, WindowsRecord, FilesTypeOK
<1>2. WindowsOldContentsKept
  <2> SUFFICES ASSUME Calm, before = "old", ~v.committed, v.kind = "promote" => limit.faults < 2
               PROVE  Held("path") = "old" \/ Held("backup") = "old"
    BY DEF WindowsOldContentsKept, Names
  <2>1. limit.faults \in Nat /\ v.pc \in WindowsSteps \cup WindowsEnds
    BY TroubleCounts DEF WindowsTyped, WindowsRecord
  <2>2. v.installed \in BOOLEAN /\ v.restored \in BOOLEAN
    BY DEF WindowsTyped, WindowsRecord
  <2> QED BY <2>1, <2>2 DEF WindowsCalm, WindowsStages, WindowsNamed, Held, NoFile, WindowsEnds
<1> QED BY <1>1, <1>2

\* What was decided at the start stays.
LEMMA WindowsFixed ==
    ASSUME WindowsInv, [WindowsNext]_windowsVars
    PROVE  limit' = limit /\ before' = before /\ v'.kind = v.kind
<1> limit \in Trouble /\ budget \in Trouble /\ v \in WindowsRecord
  BY DEF WindowsInv, WindowsTyped
<1> USE DEF TryStep, RaiseError, To, UndoFails, Undone, RenameFailed, WindowsRecord
<1>1. Fault \/ NoFault => limit' = limit /\ before' = before
  BY TroubleMet
<1>2. CASE InspectTarget \/ CreateTemp \/ WriteTemp \/ CopyRestore \/ Revalidate \/ RenameTemp
  BY <1>1, <1>2 DEF InspectTarget, CreateTemp, WriteTemp, CopyRestore, Revalidate, RenameTemp
<1>3. CASE VerifyRenamed \/ SyncRenamed \/ DropRestore \/ Undo \/ UndoOld \/ Cleanup \/ ProcessKilled
  BY <1>1, <1>3 DEF VerifyRenamed, SyncRenamed, DropRestore, Undo, UndoOld, Cleanup, ProcessKilled
<1>4. CASE InterfereBetween
  BY <1>4 DEF InterfereBetween, Interfere
<1>5. CASE UNCHANGED windowsVars
  BY <1>5 DEF windowsVars
<1> QED BY <1>2, <1>3, <1>4, <1>5 DEF WindowsNext

\* A step of the writer installs or withdraws the new file, or ends the write;
\* one that returns has installed it, one that raises has changed nothing.
LEMMA WindowsWriteIsAtomic ==
    ASSUME WindowsInv, WindowsJudged, WindowsNext
    PROVE  /\ WindowsStatus = "writing"
           /\ \/ WindowsStatus' = "writing" /\ Held("path")' \in {"new", before}
              \/ /\ WindowsStatus' \in WindowsEnds /\ Held("path")' = Held("path")
                 /\ WindowsStatus' = "returned" => Held("path") = "new"
                 /\ WindowsStatus' = "raised" => Held("path") = before
           /\ WindowsJudged' /\ before' = before
<1> WindowsTyped /\ WindowsNamed /\ WindowsAtomic
  BY DEF WindowsInv
<1> USE DEF TryStep, RaiseError, To, WindowsSteps, WindowsEnds, WindowsStatus, WindowsTyped, WindowsRecord
<1>1. limit' = limit /\ before' = before /\ v'.kind = v.kind
  BY WindowsFixed
<1>3. WindowsInv' /\ WindowsJudged'
  BY <1>1, WindowsInvNext DEF WindowsJudged, Calm
<1>4. Held("path")' \in {"new", before}
  BY <1>1, <1>3
  DEF WindowsInv, WindowsNamed, WindowsCalm, WindowsAtomic, WindowsJudged, Calm, Held, NoFile
<1>5. v.pc = "cleanup" /\ v.error = "none" => Held("path") = "new"
  BY DEF WindowsAtomic, Held, NoFile
<1>6. v.pc = "cleanup" /\ v.error = "raised" => Held("path") = before
  BY DEF WindowsAtomic
<1> SUFFICES /\ v.pc \in WindowsSteps
             /\ \/ v'.pc \in WindowsSteps
                \/ /\ v'.pc \in WindowsEnds /\ Held("path")' = Held("path")
                   /\ v'.pc = "returned" => v.pc = "cleanup" /\ v.error = "none"
                   /\ v'.pc = "raised" => v.pc = "cleanup" /\ v.error = "raised"
  BY <1>1, <1>3, <1>4, <1>5, <1>6
<1>7. CASE InspectTarget \/ CreateTemp \/ WriteTemp \/ CopyRestore \/ Revalidate
  BY <1>7 DEF InspectTarget, CreateTemp, WriteTemp, CopyRestore, Revalidate
<1>8. CASE RenameTemp \/ VerifyRenamed \/ SyncRenamed \/ DropRestore
  BY <1>8 DEF RenameTemp, RenameFailed, VerifyRenamed, SyncRenamed, DropRestore
<1>9. CASE Undo \/ UndoOld
  BY <1>9 DEF Undo, UndoOld, UndoFails, Undone
<1>10. CASE Cleanup
  <2>1. entry'["path"] = entry["path"] /\ (entry["path"] # NoFile => content'[entry["path"]] = content[entry["path"]])
    BY <1>10 DEF Cleanup, Deleted, WindowsNamed, Names, Inodes, NoFile
  <2> QED BY <1>10, <2>1 DEF Cleanup, Held
<1>11. CASE ProcessKilled
  BY <1>11 DEF ProcessKilled, files, Held
<1>12. CASE InterfereBetween
  BY <1>12 DEF InterfereBetween
<1> QED BY <1>7, <1>8, <1>9, <1>10, <1>11, <1>12 DEF WindowsNext

-----------------------------------------------------------------------------
(* The migration of a Session.                                              *)

TextRecord == [format : OldFormats \cup {"v5"}, mode : LegacyModes \cup PermissionModes \cup {"none"},
           turns : SUBSET Nat, goal : {"none", "working", "checkpoint"},
           torn : BOOLEAN, switched : BOOLEAN]
IsSessionText(x) ==
    /\ x \in TextRecord
    /\ x.mode \in ModesOf(x.format)
    /\ x.goal \in IF x.format = "v1" THEN {"none", "working"} ELSE {"none", "checkpoint"}
SessionFiles == {"json", "jsonl", "candidate"}
MoveSteps == {"idle", "read", "backup", "candidate", "recheck", "promote", "replace", "remove", "unlink"}

SessionTyped ==
    /\ session \in [SessionFiles -> TextRecord \cup {NoSessionFile}]
    /\ \A f \in SessionFiles : session[f] # NoSessionFile => IsSessionText(session[f])
    /\ session["json"] # NoSessionFile => session["json"].format = "v1"
    /\ \A text \in backups : IsSessionText(text)
    /\ move \in [pc : MoveSteps, source : TextRecord \cup {NoSessionFile}, failures : Nat]
    /\ move.pc # "idle" => IsSessionText(move.source) /\ move.source.format \in OldFormats
    /\ edits \in [count : Nat, unseen : SUBSET Nat]

\* What is about to be installed is the conversion of what is backed up.
CandidateConverted ==
    /\ move.pc \notin {"idle", "read"} => ~move.source.torn
    /\ move.pc \notin {"idle", "read", "backup"} => move.source \in backups
    /\ move.pc \in {"recheck", "promote", "replace"} => session["candidate"] = Converted(move.source)

\* What is about to be replaced or removed holds only what is backed up and
\* what was written after the last look at it.
LastLook ==
    /\ move.pc = "replace" /\ session["jsonl"] # NoSessionFile =>
          session["jsonl"].turns \subseteq move.source.turns \cup edits.unseen
    /\ move.pc = "unlink" /\ session["json"] # NoSessionFile =>
          session["json"].turns \subseteq move.source.turns \cup edits.unseen

\* What is read is there, and only a version 1 file is removed.
SourceThere ==
    /\ move.pc = "read" => session[Source] # NoSessionFile
    /\ move.pc \in {"remove", "unlink"} => move.source.format = "v1"

SessionMigrationInv ==
    SessionTyped /\ SourceThere /\ CandidateConverted /\ LastLook /\ TurnsKept /\ MigratedFromBackup

\* A conversion keeps turns, task and plan mode.
LEMMA ConversionKeeps ==
    ASSUME NEW text, IsSessionText(text), text.format \in OldFormats
    PROVE  LET new == Converted(text)
           IN  /\ IsSessionText(new) /\ new.format = "v5"
               /\ new.turns = text.turns /\ new.torn = text.torn
               /\ text.goal # "none" => new.goal = "checkpoint"
               /\ text.mode \in {"plan", "review"} => new.mode = "plan"
<1>1. CASE text.format = "v1"
  <2>1. Converted(text) = [text EXCEPT !.format = "v5", !.mode = "default", !.goal = PromotedWorkingState(text)]
    BY <1>1 DEF Converted, ConvertedLegacy
  <2>2. text \in TextRecord /\ text.mode = "none" /\ text.goal \in {"none", "working"}
    BY <1>1 DEF IsSessionText, ModesOf
  <2>3. PromotedWorkingState(text) = IF text.goal = "working" THEN "checkpoint" ELSE "none"
    BY <2>2 DEF PromotedWorkingState
  <2> QED BY <2>1, <2>2, <2>3 DEF IsSessionText, TextRecord, ModesOf, PermissionModes
<1>2. CASE text.format # "v1"
  <2> DEFINE mode == CASE text.format = "v4" -> text.mode
                       [] text.format = "v3" /\ text.mode # "act" -> "plan"
                       [] OTHER -> "default"
  <2>1. Converted(text) = [text EXCEPT !.format = "v5", !.mode = mode]
    BY <1>2 DEF Converted, ConvertedLines
  <2>2. text \in TextRecord /\ text.goal \in {"none", "checkpoint"}
    BY <1>2 DEF IsSessionText
  <2>3. mode \in PermissionModes /\ (text.mode \in {"plan", "review"} => mode = "plan")
    BY <1>2 DEF IsSessionText, ModesOf, OldFormats, PermissionModes, LegacyModes
  <2> HIDE DEF mode
  <2> QED BY <2>1, <2>2, <2>3 DEF IsSessionText, TextRecord, ModesOf
<1> QED BY <1>1, <1>2

\* The invariant holds of an old Session that nobody resumed.
LEMMA SessionInvInit == SessionMigrationInit => SessionMigrationInv
<1> SUFFICES ASSUME SessionMigrationInit PROVE SessionMigrationInv
  OBVIOUS
<1>a. PICK format \in OldFormats :
        \E text \in {x \in Texts(format) : x.turns = {0} /\ ~x.torn /\ (x.switched => format = "v2")} :
            session = [f \in SessionFiles |-> IF f = FileOf(format) THEN text ELSE NoSessionFile]
  BY DEF SessionMigrationInit, SessionFiles
<1>1. PICK text \in Texts(format) :
        /\ text.turns = {0} /\ ~text.torn
        /\ session = [f \in SessionFiles |-> IF f = FileOf(format) THEN text ELSE NoSessionFile]
  BY <1>a
<1>2. IsSessionText(text) /\ text.format = format /\ text # NoSessionFile
  <2>1. text \in TextRecord
    BY <1>1, SessionMigrationAssumption DEF Texts, TextRecord, ModesOf, LegacyModes, PermissionModes, LegacyTurns, OldFormats
  <2>2. text.format = format /\ text.mode \in ModesOf(text.format)
        /\ text.goal \in IF text.format = "v1" THEN {"none", "working"} ELSE {"none", "checkpoint"}
    BY <1>1 DEF Texts
  <2>3. text.format # "none"
    BY <2>2 DEF OldFormats
  <2> QED BY <2>1, <2>2, <2>3 DEF IsSessionText, NoSessionFile
<1>3. /\ backups = {} /\ move.pc = "idle" /\ edits = [count |-> 0, unseen |-> {}]
      /\ move = [pc |-> "idle", source |-> NoSessionFile, failures |-> 0]
  BY DEF SessionMigrationInit
<1>4. FileOf(format) \in {"json", "jsonl"} /\ (FileOf(format) = "json" => format = "v1")
  BY DEF FileOf
<1>5. SessionTyped
  <2>1. session \in [SessionFiles -> TextRecord \cup {NoSessionFile}]
    BY <1>1, <1>2 DEF IsSessionText
  <2>2. \A f \in SessionFiles : session[f] # NoSessionFile => session[f] = text /\ f = FileOf(format)
    BY <1>1
  <2> QED BY <1>2, <1>3, <1>4, <2>1, <2>2 DEF SessionTyped, MoveSteps, SessionFiles
<1>6. TurnsKept
  <2>1. session[FileOf(format)] = text
    BY <1>1, <1>4 DEF SessionFiles
  <2>2. text \in {session["json"], session["jsonl"]}
    BY <1>4, <2>1
  <2>3. \A turn \in 0..edits.count : turn = 0
    BY <1>3
  <2> QED BY <1>1, <1>2, <2>2, <2>3 DEF TurnsKept
<1>7. MigratedFromBackup
  <2>1. session["jsonl"] = NoSessionFile \/ session["jsonl"] = text
    BY <1>1 DEF SessionFiles
  <2> QED BY <1>2, <2>1 DEF MigratedFromBackup, Exists, OldFormats
<1> QED BY <1>3, <1>5, <1>6, <1>7 DEF SessionMigrationInv, SourceThere, CandidateConverted, LastLook

\* A resumption that reads, checks, fails or ends touches no text.
LEMMA NothingWritten ==
    ASSUME SessionMigrationInv, UNCHANGED <<session, edits>>,
           move' \in [pc : MoveSteps, source : TextRecord \cup {NoSessionFile}, failures : Nat],
           move'.pc # "idle" => IsSessionText(move'.source) /\ move'.source.format \in OldFormats,
           backups \subseteq backups', \A text \in backups' : IsSessionText(text),
           SourceThere', CandidateConverted', LastLook'
    PROVE  SessionMigrationInv'
<1>1. SessionTyped'
  BY DEF SessionMigrationInv, SessionTyped
<1>2. TurnsKept'
  BY DEF SessionMigrationInv, TurnsKept
<1>3. MigratedFromBackup'
  BY DEF SessionMigrationInv, MigratedFromBackup, Exists
<1> QED BY <1>1, <1>2, <1>3 DEF SessionMigrationInv

\* The steps of a resumption before it installs anything.
LEMMA Preparing ==
    ASSUME SessionMigrationInv,
           \/ Resume \/ ReadSource \/ WriteBackup \/ Recheck \/ LookBeforePromoting
           \/ LookBeforeRemoving \/ FailMoving
    PROVE  SessionMigrationInv'
<1>1. SessionTyped /\ SourceThere /\ CandidateConverted /\ LastLook
      /\ UNCHANGED <<session, edits>>
  BY DEF SessionMigrationInv, Resume, ReadSource, WriteBackup, Recheck, LookBeforePromoting,
         LookBeforeRemoving, FailMoving, RaiseMoving
<1>2. ASSUME UNCHANGED backups, move'.pc = "idle",
             move' \in [pc : MoveSteps, source : TextRecord \cup {NoSessionFile}, failures : Nat]
      PROVE  SessionMigrationInv'
  BY <1>1, <1>2, NothingWritten DEF CandidateConverted, LastLook, SessionTyped, SourceThere
<1>3. ASSUME Over, UNCHANGED backups
      PROVE  SessionMigrationInv'
  <2>1. move' \in [pc : MoveSteps, source : TextRecord \cup {NoSessionFile}, failures : Nat] /\ move'.pc = "idle"
    BY <1>1, <1>3 DEF Over, SessionTyped, MoveSteps
  <2> QED BY <1>2, <1>3, <2>1
<1>4. ASSUME NEW step \in MoveSteps, GoOn(step)
      PROVE  /\ move' \in [pc : MoveSteps, source : TextRecord \cup {NoSessionFile}, failures : Nat]
             /\ move'.pc = step /\ move'.source = move.source
  BY <1>1, <1>4 DEF GoOn, SessionTyped
<1>5. CASE Resume
  <2> DEFINE f == IF Exists("jsonl") THEN "jsonl" ELSE "json"
  <2>1. move' = [move EXCEPT !.pc = "read", !.source = session[f]] /\ UNCHANGED backups
    BY <1>5 DEF Resume
  <2>2. session[f] # NoSessionFile /\ IsSessionText(session[f]) /\ session[f] \in TextRecord
        /\ session[f].format \in OldFormats
    BY <1>1, <1>5 DEF Resume, Exists, SessionTyped, SessionFiles, OldFormats, IsSessionText
  <2>3. FileOf(session[f].format) = f
    BY <1>1, <1>5, <2>2 DEF Resume, Exists, SessionTyped, FileOf
  <2>4. /\ move' \in [pc : MoveSteps, source : TextRecord \cup {NoSessionFile}, failures : Nat]
        /\ move'.pc = "read" /\ move'.source = session[f]
    BY <1>1, <2>1, <2>2 DEF SessionTyped, MoveSteps
  <2>5. SourceThere' /\ CandidateConverted' /\ LastLook'
    BY <1>1, <2>2, <2>3, <2>4 DEF SourceThere, CandidateConverted, LastLook, Source
  <2> QED BY <1>1, <2>1, <2>2, <2>4, <2>5, NothingWritten DEF SessionTyped
<1>6. CASE ReadSource
  <2>1. CASE RaiseMoving
    BY <1>3, <2>1 DEF RaiseMoving
  <2>2. CASE ~RaiseMoving
    <3>1. /\ move' = [move EXCEPT !.pc = "backup", !.source = session[Source]] /\ UNCHANGED backups
          /\ ~session[Source].torn /\ move.pc = "read"
          /\ Source = "jsonl" => session[Source] = move.source
      BY <1>6, <2>2 DEF ReadSource
    <3>2. Source \in {"json", "jsonl"}
      BY DEF Source, FileOf
    <3>3. IsSessionText(session[Source]) /\ session[Source] \in TextRecord /\ session[Source].format \in OldFormats
      BY <1>1, <3>1, <3>2 DEF SourceThere, SessionTyped, SessionFiles, IsSessionText, OldFormats
    <3>4. /\ move' \in [pc : MoveSteps, source : TextRecord \cup {NoSessionFile}, failures : Nat]
          /\ move'.pc = "backup" /\ move'.source = session[Source]
      BY <1>1, <3>1, <3>3 DEF SessionTyped, MoveSteps
    <3>5. SourceThere' /\ CandidateConverted' /\ LastLook'
      BY <3>1, <3>4 DEF SourceThere, CandidateConverted, LastLook
    <3> QED BY <1>1, <3>1, <3>3, <3>4, <3>5, NothingWritten DEF SessionTyped
  <2> QED BY <2>1, <2>2
<1>7. CASE WriteBackup
  <2>1. /\ move' \in [pc : MoveSteps, source : TextRecord \cup {NoSessionFile}, failures : Nat]
        /\ move'.pc = "candidate" /\ move'.source = move.source /\ move.pc = "backup"
        /\ backups' = backups \cup {move.source}
    BY <1>4, <1>7 DEF WriteBackup, MoveSteps
  <2>2. IsSessionText(move.source) /\ move.source.format \in OldFormats
    BY <1>1, <2>1 DEF SessionTyped
  <2>3. SourceThere' /\ CandidateConverted' /\ LastLook'
    BY <1>1, <2>1 DEF SourceThere, CandidateConverted, LastLook
  <2> QED BY <1>1, <2>1, <2>2, <2>3, NothingWritten DEF SessionTyped
<1>8. CASE Recheck /\ ~RaiseMoving
  <2>1. /\ move' \in [pc : MoveSteps, source : TextRecord \cup {NoSessionFile}, failures : Nat]
        /\ move'.pc = "promote" /\ move'.source = move.source /\ move.pc = "recheck"
        /\ UNCHANGED backups
    BY <1>4, <1>8 DEF Recheck, MoveSteps
  <2>2. SourceThere' /\ CandidateConverted' /\ LastLook'
    BY <1>1, <2>1 DEF SourceThere, CandidateConverted, LastLook, Converted, ConvertedLegacy, ConvertedLines, PromotedWorkingState
  <2> QED BY <1>1, <2>1, <2>2, NothingWritten DEF SessionTyped
<1>9. CASE LookBeforePromoting /\ ~RaiseMoving
  <2>1. /\ move' \in [pc : MoveSteps, source : TextRecord \cup {NoSessionFile}, failures : Nat]
        /\ move'.pc = "replace" /\ move'.source = move.source /\ move.pc = "promote"
        /\ UNCHANGED backups /\ DestinationAsExpected
    BY <1>4, <1>9 DEF LookBeforePromoting, MoveSteps
  <2>2. session["jsonl"] # NoSessionFile => session["jsonl"] = move.source
    BY <2>1 DEF DestinationAsExpected, SourceAsRead, Exists
  <2>3. SourceThere' /\ CandidateConverted' /\ LastLook'
    BY <1>1, <2>1, <2>2 DEF SourceThere, CandidateConverted, LastLook, Converted, ConvertedLegacy, ConvertedLines, PromotedWorkingState
  <2> QED BY <1>1, <2>1, <2>3, NothingWritten DEF SessionTyped
<1>10. CASE LookBeforeRemoving /\ ~RaiseMoving
  <2>1. /\ move' \in [pc : MoveSteps, source : TextRecord \cup {NoSessionFile}, failures : Nat]
        /\ move'.pc = "unlink" /\ move'.source = move.source /\ move.pc = "remove"
        /\ UNCHANGED backups /\ SourceAsRead
    BY <1>4, <1>10 DEF LookBeforeRemoving, MoveSteps
  <2>2. session["json"] = move.source
    BY <1>1, <2>1 DEF SourceAsRead, SourceThere, Source, FileOf
  <2>3. SourceThere' /\ CandidateConverted' /\ LastLook'
    BY <1>1, <2>1, <2>2 DEF SourceThere, CandidateConverted, LastLook
  <2> QED BY <1>1, <2>1, <2>3, NothingWritten DEF SessionTyped
<1>11. CASE FailMoving
  <2>1. move' \in [pc : MoveSteps, source : TextRecord \cup {NoSessionFile}, failures : Nat] /\ move'.pc = "idle"
        /\ UNCHANGED backups
    BY <1>1, <1>11 DEF FailMoving, SessionTyped, MoveSteps
  <2> QED BY <1>2, <2>1
<1>12. CASE RaiseMoving
  BY <1>3, <1>12 DEF RaiseMoving
<1> QED BY <1>5, <1>6, <1>7, <1>8, <1>9, <1>10, <1>11, <1>12

\* The candidate is written next to what is there.
LEMMA Converting ==
    ASSUME SessionMigrationInv, WriteCandidate
    PROVE  SessionMigrationInv'
<1>1. SessionTyped /\ SourceThere /\ CandidateConverted /\ LastLook /\ UNCHANGED <<backups, edits>>
      /\ move.pc = "candidate" /\ IsSessionText(move.source) /\ move.source.format \in OldFormats
  BY DEF SessionMigrationInv, WriteCandidate, SessionTyped
<1>2. session' = [session EXCEPT !["candidate"] = Converted(move.source)]
      /\ move' = [move EXCEPT !.pc = "recheck"]
  BY DEF WriteCandidate, GoOn
<1>3. IsSessionText(Converted(move.source)) /\ Converted(move.source).format = "v5"
  BY <1>1, ConversionKeeps
<1>4. /\ session'["json"] = session["json"] /\ session'["jsonl"] = session["jsonl"]
      /\ session'["candidate"] = Converted(move.source)
      /\ session' \in [SessionFiles -> TextRecord \cup {NoSessionFile}]
  BY <1>1, <1>2, <1>3 DEF SessionTyped, SessionFiles, IsSessionText
<1>5. /\ move' \in [pc : MoveSteps, source : TextRecord \cup {NoSessionFile}, failures : Nat]
      /\ move'.pc = "recheck" /\ move'.source = move.source
  BY <1>1, <1>2 DEF SessionTyped, MoveSteps
<1>6. SessionTyped'
  BY <1>1, <1>3, <1>4, <1>5 DEF SessionTyped, SessionFiles
<1>7. CandidateConverted'
  <2>1. Converted(move.source)' = Converted(move.source)
    BY <1>5 DEF Converted, ConvertedLegacy, ConvertedLines, PromotedWorkingState
  <2> QED BY <1>1, <1>4, <1>5, <2>1 DEF CandidateConverted
<1>8. SourceThere' /\ LastLook'
  BY <1>5 DEF SourceThere, LastLook
<1>9. TurnsKept'
  BY <1>1, <1>4 DEF SessionMigrationInv, TurnsKept
<1>10. MigratedFromBackup'
  BY <1>1, <1>4 DEF SessionMigrationInv, MigratedFromBackup, Exists
<1> QED BY <1>6, <1>7, <1>8, <1>9, <1>10 DEF SessionMigrationInv

\* What the candidate replaces is backed up, but for what nobody could notice.
LEMMA Promoting ==
    ASSUME SessionMigrationInv, Promote
    PROVE  SessionMigrationInv'
<1>1. SessionTyped /\ SourceThere /\ CandidateConverted /\ LastLook /\ UNCHANGED <<backups, edits>>
      /\ move.pc = "replace" /\ IsSessionText(move.source) /\ move.source.format \in OldFormats
      /\ move.source \in backups /\ ~move.source.torn
      /\ session["candidate"] = Converted(move.source)
  BY DEF SessionMigrationInv, Promote, SessionTyped, CandidateConverted
<1>2. session' = [session EXCEPT !["jsonl"] = session["candidate"], !["candidate"] = NoSessionFile]
  BY DEF Promote
<1>3. LET new == Converted(move.source)
      IN  /\ IsSessionText(new) /\ new.format = "v5"
          /\ new.turns = move.source.turns /\ new.torn = move.source.torn
          /\ move.source.goal # "none" => new.goal = "checkpoint"
          /\ move.source.mode \in {"plan", "review"} => new.mode = "plan"
  BY <1>1, ConversionKeeps
<1>4. /\ session'["json"] = session["json"] /\ session'["jsonl"] = Converted(move.source)
      /\ session'["candidate"] = NoSessionFile
      /\ session' \in [SessionFiles -> TextRecord \cup {NoSessionFile}]
  BY <1>1, <1>2 DEF SessionTyped, SessionFiles
<1>5. /\ move' \in [pc : MoveSteps, source : TextRecord \cup {NoSessionFile}, failures : Nat]
      /\ \/ move'.pc = "remove" /\ move'.source = move.source /\ move.source.format = "v1"
         \/ move'.pc = "idle"
  <2>1. Source = "json" => move.source.format = "v1"
    BY DEF Source, FileOf
  <2> QED BY <1>1, <2>1 DEF Promote, GoOn, Over, SessionTyped, MoveSteps
<1>6. SessionTyped'
  <2>1. \A f \in SessionFiles : session'[f] # NoSessionFile => IsSessionText(session'[f])
    BY <1>1, <1>3, <1>4 DEF SessionTyped, SessionFiles
  <2>2. move'.pc # "idle" => IsSessionText(move'.source) /\ move'.source.format \in OldFormats
    BY <1>1, <1>5
  <2> QED BY <1>1, <1>4, <1>5, <2>1, <2>2 DEF SessionTyped
<1>7. SourceThere' /\ CandidateConverted' /\ LastLook'
  BY <1>1, <1>5 DEF SourceThere, CandidateConverted, LastLook
<1>8. TurnsKept'
  <2> SUFFICES ASSUME NEW turn \in 0..edits.count, turn \notin edits.unseen
               PROVE  \E text \in {session'["json"], session'["jsonl"]} \cup backups :
                         text # NoSessionFile /\ turn \in text.turns
    BY <1>1 DEF TurnsKept
  <2>1. PICK text \in {session["json"], session["jsonl"]} \cup backups :
           text # NoSessionFile /\ turn \in text.turns
    BY DEF SessionMigrationInv, TurnsKept
  <2>2. CASE text = session["jsonl"]
    <3>1. turn \in move.source.turns
      BY <1>1, <2>1, <2>2 DEF LastLook
    <3>2. move.source # NoSessionFile
      BY <1>1 DEF OldFormats, NoSessionFile
    <3> QED BY <1>1, <3>1, <3>2
  <2>3. CASE text # session["jsonl"]
    BY <1>4, <2>1, <2>3
  <2> QED BY <2>2, <2>3
<1>9. MigratedFromBackup'
  BY <1>1, <1>3, <1>4 DEF MigratedFromBackup
<1> QED BY <1>6, <1>7, <1>8, <1>9 DEF SessionMigrationInv

\* So is what is removed.
LEMMA RemovingLegacy ==
    ASSUME SessionMigrationInv, RemoveLegacy
    PROVE  SessionMigrationInv'
<1>1. SessionTyped /\ SourceThere /\ CandidateConverted /\ LastLook /\ UNCHANGED <<backups, edits>>
      /\ move.pc = "unlink" /\ IsSessionText(move.source) /\ move.source.format \in OldFormats
      /\ move.source \in backups
  BY DEF SessionMigrationInv, RemoveLegacy, SessionTyped, CandidateConverted
<1>2. session' = [session EXCEPT !["json"] = NoSessionFile]
  BY DEF RemoveLegacy
<1>3. /\ session'["json"] = NoSessionFile /\ session'["jsonl"] = session["jsonl"]
      /\ session'["candidate"] = session["candidate"]
      /\ session' \in [SessionFiles -> TextRecord \cup {NoSessionFile}]
  BY <1>1, <1>2 DEF SessionTyped, SessionFiles
<1>4. /\ move' \in [pc : MoveSteps, source : TextRecord \cup {NoSessionFile}, failures : Nat]
      /\ move'.pc = "idle"
  BY <1>1 DEF RemoveLegacy, Over, SessionTyped, MoveSteps
<1>5. SessionTyped'
  BY <1>1, <1>3, <1>4 DEF SessionTyped, SessionFiles
<1>6. SourceThere' /\ CandidateConverted' /\ LastLook'
  BY <1>4 DEF SourceThere, CandidateConverted, LastLook
<1>7. TurnsKept'
  <2> SUFFICES ASSUME NEW turn \in 0..edits.count, turn \notin edits.unseen
               PROVE  \E text \in {session'["json"], session'["jsonl"]} \cup backups :
                         text # NoSessionFile /\ turn \in text.turns
    BY <1>1 DEF TurnsKept
  <2>1. PICK text \in {session["json"], session["jsonl"]} \cup backups :
           text # NoSessionFile /\ turn \in text.turns
    BY DEF SessionMigrationInv, TurnsKept
  <2>2. CASE text = session["json"]
    <3>1. turn \in move.source.turns
      BY <1>1, <2>1, <2>2 DEF LastLook
    <3>2. move.source # NoSessionFile
      BY <1>1 DEF OldFormats, NoSessionFile
    <3> QED BY <1>1, <3>1, <3>2
  <2>3. CASE text # session["json"]
    BY <1>3, <2>1, <2>3
  <2> QED BY <2>2, <2>3
<1>8. MigratedFromBackup'
  BY <1>1, <1>3 DEF SessionMigrationInv, MigratedFromBackup, Exists
<1> QED BY <1>5, <1>6, <1>7, <1>8 DEF SessionMigrationInv

\* Another program adds a turn, before the last look at the file or after it.
LEMMA Editing ==
    ASSUME SessionMigrationInv, NEW f \in {"json", "jsonl"}, EditSource(f)
    PROVE  SessionMigrationInv'
<1>1. SessionTyped /\ SourceThere /\ CandidateConverted /\ LastLook /\ UNCHANGED <<backups, move>>
      /\ session[f] # NoSessionFile /\ session[f].format \in OldFormats
      /\ session[f] \in TextRecord /\ IsSessionText(session[f])
  BY DEF SessionMigrationInv, EditSource, SessionTyped, Exists, SessionFiles, IsSessionText
<1>2. PICK torn \in BOOLEAN :
        session' = [session EXCEPT ![f].turns = @ \cup {edits.count + 1}, ![f].torn = torn]
  BY DEF EditSource
<1>3. edits.count \in Nat /\ edits.unseen \subseteq Nat
  BY <1>1 DEF SessionTyped
<1>4. session' = [session EXCEPT ![f] = [session[f] EXCEPT !.turns = session[f].turns \cup {edits.count + 1}, !.torn = torn]]
  BY <1>1, <1>2 DEF SessionTyped, SessionFiles, TextRecord
<1>5. session'[f] = [session[f] EXCEPT !.turns = session[f].turns \cup {edits.count + 1}, !.torn = torn]
      /\ \A g \in SessionFiles : g # f => session'[g] = session[g]
  BY <1>1, <1>4 DEF SessionTyped, SessionFiles
<1>6. /\ session'[f] \in TextRecord /\ session'[f].format = session[f].format
      /\ session'[f].mode = session[f].mode /\ session'[f].goal = session[f].goal
      /\ session'[f].turns = session[f].turns \cup {edits.count + 1}
  <2> DEFINE new == [session[f] EXCEPT !.turns = session[f].turns \cup {edits.count + 1}, !.torn = torn]
  <2>1. session[f] \in TextRecord /\ session[f].turns \cup {edits.count + 1} \in SUBSET Nat
    BY <1>1, <1>3 DEF TextRecord
  <2>2. new \in TextRecord
    BY <2>1 DEF TextRecord
  <2>3. new.format = session[f].format
    BY <2>1 DEF TextRecord
  <2>4. new.mode = session[f].mode
    BY <2>1 DEF TextRecord
  <2>5. new.goal = session[f].goal
    BY <2>1 DEF TextRecord
  <2>6. new.turns = session[f].turns \cup {edits.count + 1}
    BY <2>1 DEF TextRecord
  <2> QED BY <1>5, <2>2, <2>3, <2>4, <2>5, <2>6
<1>7. session'[f] # NoSessionFile /\ IsSessionText(session'[f])
  BY <1>1, <1>6 DEF IsSessionText, OldFormats, NoSessionFile
<1>8. /\ edits'.count = edits.count + 1 /\ edits.unseen \subseteq edits'.unseen
      /\ edits' \in [count : Nat, unseen : SUBSET Nat]
      /\ move.pc = (IF f = "json" THEN "unlink" ELSE "replace") => edits.count + 1 \in edits'.unseen
  BY <1>3 DEF EditSource
<1>9. SessionTyped'
  <2>1. session' \in [SessionFiles -> TextRecord \cup {NoSessionFile}]
    BY <1>1, <1>4, <1>5, <1>6 DEF SessionTyped, SessionFiles
  <2>2. \A g \in SessionFiles : session'[g] # NoSessionFile => IsSessionText(session'[g])
    BY <1>1, <1>5, <1>7 DEF SessionTyped
  <2>3. session'["json"] # NoSessionFile => session'["json"].format = "v1"
    BY <1>1, <1>5, <1>6 DEF SessionTyped, SessionFiles
  <2> QED BY <1>1, <1>8, <2>1, <2>2, <2>3 DEF SessionTyped
<1>10. CandidateConverted'
  <2>1. session'["candidate"] = session["candidate"]
    BY <1>5 DEF SessionFiles
  <2>2. Converted(move.source)' = Converted(move.source)
    BY <1>1 DEF Converted, ConvertedLegacy, ConvertedLines, PromotedWorkingState
  <2> QED BY <1>1, <2>1, <2>2 DEF CandidateConverted
<1>11. SourceThere'
  <2>1. Source' = Source /\ Source \in SessionFiles
    BY <1>1 DEF Source, FileOf, SessionFiles
  <2> QED BY <1>1, <1>5, <1>7, <2>1 DEF SourceThere
<1>12. LastLook'
  <2>1. ASSUME move.pc = "replace", session'["jsonl"] # NoSessionFile
        PROVE  session'["jsonl"].turns \subseteq move.source.turns \cup edits'.unseen
    <3>1. CASE f = "jsonl"
      BY <1>1, <1>6, <1>8, <2>1, <3>1 DEF LastLook
    <3>2. CASE f # "jsonl"
      BY <1>1, <1>5, <1>8, <2>1, <3>2 DEF LastLook, SessionFiles
    <3> QED BY <3>1, <3>2
  <2>2. ASSUME move.pc = "unlink", session'["json"] # NoSessionFile
        PROVE  session'["json"].turns \subseteq move.source.turns \cup edits'.unseen
    <3>1. CASE f = "json"
      BY <1>1, <1>6, <1>8, <2>2, <3>1 DEF LastLook
    <3>2. CASE f # "json"
      BY <1>1, <1>5, <1>8, <2>2, <3>2 DEF LastLook, SessionFiles
    <3> QED BY <3>1, <3>2
  <2> QED BY <1>1, <2>1, <2>2 DEF LastLook
<1>13. TurnsKept'
  <2> SUFFICES ASSUME NEW turn \in 0..(edits.count + 1), turn \notin edits'.unseen
               PROVE  \E text \in {session'["json"], session'["jsonl"]} \cup backups :
                         text # NoSessionFile /\ turn \in text.turns
    BY <1>1, <1>8 DEF TurnsKept
  <2>1. CASE turn = edits.count + 1
    <3>1. turn \in session'[f].turns
      BY <1>6, <2>1
    <3> QED BY <1>7, <3>1
  <2>2. CASE turn # edits.count + 1
    <3>1. turn \in 0..edits.count /\ turn \notin edits.unseen
      BY <1>3, <1>8, <2>2
    <3>2. PICK text \in {session["json"], session["jsonl"]} \cup backups :
             text # NoSessionFile /\ turn \in text.turns
      BY <3>1 DEF SessionMigrationInv, TurnsKept
    <3>3. CASE text = session[f]
      BY <1>6, <1>7, <3>2, <3>3
    <3>4. CASE text # session[f]
      BY <1>5, <3>2, <3>4 DEF SessionFiles
    <3> QED BY <3>3, <3>4
  <2> QED BY <2>1, <2>2
<1>14. MigratedFromBackup'
  <2>1. CASE f = "jsonl"
    BY <1>1, <1>6, <2>1 DEF MigratedFromBackup, OldFormats
  <2>2. CASE f # "jsonl"
    <3>1. session'["jsonl"] = session["jsonl"]
      BY <1>5, <2>2 DEF SessionFiles
    <3> QED BY <1>1, <3>1 DEF SessionMigrationInv, MigratedFromBackup, Exists
  <2> QED BY <2>1, <2>2
<1> QED BY <1>9, <1>10, <1>11, <1>12, <1>13, <1>14 DEF SessionMigrationInv

\* Another program puts a .jsonl file where there was none.
LEMMA Creating ==
    ASSUME SessionMigrationInv, CreateSession
    PROVE  SessionMigrationInv'
<1> DEFINE new == [format |-> "v4", mode |-> "plan", turns |-> {edits.count + 1},
                   goal |-> "none", torn |-> FALSE, switched |-> FALSE]
<1>1. SessionTyped /\ SourceThere /\ CandidateConverted /\ LastLook /\ UNCHANGED <<backups, move>>
      /\ session["jsonl"] = NoSessionFile
  BY DEF SessionMigrationInv, CreateSession, Exists
<1>2. session' = [session EXCEPT !["jsonl"] = new] /\ edits.count \in Nat /\ edits.unseen \subseteq Nat
  BY <1>1 DEF CreateSession, SessionTyped
<1>3. new \in TextRecord /\ IsSessionText(new) /\ new # NoSessionFile /\ new.format = "v4"
      /\ new.turns = {edits.count + 1}
  <2>1. new \in TextRecord
    BY <1>2 DEF TextRecord, OldFormats, PermissionModes
  <2>2. new.format # NoSessionFile.format
    BY DEF NoSessionFile
  <2> QED BY <2>1, <2>2 DEF IsSessionText, ModesOf, PermissionModes
<1>4. /\ session'["jsonl"] = new /\ session'["json"] = session["json"]
      /\ session'["candidate"] = session["candidate"]
      /\ session' \in [SessionFiles -> TextRecord \cup {NoSessionFile}]
  BY <1>1, <1>2, <1>3 DEF SessionTyped, SessionFiles
<1>5. /\ edits'.count = edits.count + 1 /\ edits.unseen \subseteq edits'.unseen
      /\ edits' \in [count : Nat, unseen : SUBSET Nat]
      /\ move.pc = "replace" => edits.count + 1 \in edits'.unseen
  BY <1>2 DEF CreateSession
<1> HIDE DEF new
<1>6. SessionTyped'
  BY <1>1, <1>3, <1>4, <1>5 DEF SessionTyped, SessionFiles
<1>7. CandidateConverted'
  <2>1. Converted(move.source)' = Converted(move.source)
    BY <1>1 DEF Converted, ConvertedLegacy, ConvertedLines, PromotedWorkingState
  <2> QED BY <1>1, <1>4, <2>1 DEF CandidateConverted
<1>8. SourceThere'
  <2>1. Source' = Source /\ Source \in {"json", "jsonl"}
    BY <1>1 DEF Source, FileOf
  <2> QED BY <1>1, <1>3, <1>4, <2>1 DEF SourceThere
<1>9. LastLook'
  BY <1>1, <1>3, <1>4, <1>5 DEF LastLook
<1>10. TurnsKept'
  <2> SUFFICES ASSUME NEW turn \in 0..(edits.count + 1), turn \notin edits'.unseen
               PROVE  \E text \in {session'["json"], session'["jsonl"]} \cup backups :
                         text # NoSessionFile /\ turn \in text.turns
    BY <1>1, <1>5 DEF TurnsKept
  <2>1. CASE turn = edits.count + 1
    BY <1>3, <1>4, <2>1
  <2>2. CASE turn # edits.count + 1
    <3>1. turn \in 0..edits.count /\ turn \notin edits.unseen
      BY <1>2, <1>5, <2>2
    <3>2. PICK text \in {session["json"], session["jsonl"]} \cup backups :
             text # NoSessionFile /\ turn \in text.turns
      BY <3>1 DEF SessionMigrationInv, TurnsKept
    <3> QED BY <1>1, <1>4, <3>2
  <2> QED BY <2>1, <2>2
<1>11. MigratedFromBackup'
  BY <1>3, <1>4 DEF MigratedFromBackup
<1> QED BY <1>6, <1>7, <1>8, <1>9, <1>10, <1>11 DEF SessionMigrationInv

\* Every step keeps the invariant.
LEMMA SessionInvNext ==
    ASSUME SessionMigrationInv, [SessionMigrationNext]_sessionMigrationVars
    PROVE  SessionMigrationInv'
<1>1. CASE UNCHANGED sessionMigrationVars
  <2>1. UNCHANGED <<session, backups, move, edits>>
    BY <1>1 DEF sessionMigrationVars
  <2> QED BY <2>1 DEF SessionMigrationInv, SessionTyped, SourceThere, CandidateConverted, LastLook,
             TurnsKept, MigratedFromBackup, Exists, Source, Converted, ConvertedLegacy,
             ConvertedLines, PromotedWorkingState
<1> QED BY <1>1, Preparing, Converting, Promoting, RemovingLegacy, Editing, Creating
        DEF SessionMigrationNext, MoveStep

\* No migration of a Session loses a turn or leaves a Session in the current
\* format without the whole text it came from, for any number of edits and of
\* attempts cut short (SessionStore.load_for_resume).
THEOREM TurnsSurviveMigration == SessionMigrationSpec => [](TurnsKept /\ MigratedFromBackup)
<1>1. SessionMigrationInv => TurnsKept /\ MigratedFromBackup
  BY DEF SessionMigrationInv
<1> QED BY <1>1, SessionInvInit, SessionInvNext, PTL DEF SessionMigrationSpec

-----------------------------------------------------------------------------
(* The migration of the run artifacts.                                      *)

MigrationPlaces == {"none", "clear", "copy", "build", "ready", "check", "moveOld", "oldMoved",
                    "install", "installed", "validate", "dropOld", "commit", "dropJournal",
                    "return", "undoNew", "undoOld", "undone", "discard", "undoHalf", "undoneHalf"}
DirectoryType == [kind : DirectoryKinds, run : BOOLEAN]
JournalType == [state : JournalStates, source : DirectoryType, candidate : DirectoryType]
OperationType == [op : {"none", "apply", "abort", "recover"}, pc : MigrationPlaces,
                  applies : 0..MaxApplies, stops : 0..MaxStops]
MigrationTyped ==
    /\ dir \in [Directories -> DirectoryType] /\ journal \in JournalType
    /\ mig \in OperationType /\ stray \in JournalStates \cup {"never", "moveOld"}
    /\ mig.op = "none" <=> mig.pc = "none"

\* Where the old runs are: in their place, moved away, or behind a candidate
\* that is in their place.
Whole == {"old", "new"}
Pending == {"part", "bad", "new"}
AtHome == dir["live"].kind \in Whole /\ dir["rollback"].kind = "none"
Away == dir["live"].kind \in {"none", "fresh"} /\ dir["rollback"].kind \in Whole
InstallPending == Away /\ dir["candidate"].kind \in Pending
Swapped == /\ dir["live"].kind \in Pending /\ dir["candidate"].kind = "none"
           /\ dir["rollback"].kind \in Whole
Reverted == AtHome /\ dir["candidate"].kind \in Pending

\* What the journal says of it, whoever reads it.
JournalTells ==
    /\ dir["candidate"].kind \in Pending \cup {"none"}
    /\ journal.state \in {"none", "preparing", "candidate_ready"} => AtHome \/ Away
    /\ journal.state = "old_moved" => InstallPending \/ Swapped
    /\ journal.state = "new_installed" => Swapped
    /\ journal.state = "validated" =>
         /\ dir["live"].kind = "new" /\ dir["candidate"].kind = "none"
         /\ dir["rollback"].kind \in Whole \cup {"part", "none"}
    /\ journal.state = "committed" => dir["live"].kind = "new" /\ dir["rollback"].kind = "none"
    /\ journal.state \in {"rollback_required", "rollback_failed"} => InstallPending \/ Swapped \/ Reverted
    /\ journal.state = "rolled_back" => AtHome

\* What the operation that runs knows beyond the journal.
OperationKnows ==
    /\ mig.pc \in {"clear", "copy", "build", "ready"} => journal.state = "preparing"
    /\ mig.pc = "build" => There("live")
    /\ mig.pc = "ready" => dir["candidate"].kind \in {"new", "bad"}
    /\ mig.pc \in {"check", "moveOld", "oldMoved"} => journal.state = "candidate_ready"
    /\ mig.pc = "moveOld" => dir["candidate"].kind \in {"new", "bad"}
    /\ mig.pc = "oldMoved" => InstallPending
    /\ mig.pc \in {"install", "installed"} => journal.state = "old_moved"
    /\ mig.pc = "installed" => Swapped
    /\ mig.pc = "validate" => journal.state = "new_installed"
    /\ mig.pc \in {"dropOld", "commit"} => journal.state = "validated"
    /\ mig.pc = "commit" => dir["rollback"].kind = "none"
    /\ mig.pc = "discard" => journal.state \in {"preparing", "candidate_ready", "rolled_back"}
    /\ mig.pc = "dropJournal" =>
         journal.state \in {"preparing", "candidate_ready", "rolled_back", "committed"}
    /\ mig.pc \in {"undoNew", "undoOld", "undone", "undoHalf", "undoneHalf"} =>
         journal.state = "rollback_required"
    /\ mig.pc = "undoNew" => InstallPending \/ Swapped
    /\ mig.pc \in {"undoOld", "undoHalf"} => InstallPending
    /\ mig.pc \in {"undone", "undoneHalf"} => Reverted

\* The identities: what the live directory held when it was recorded is in the
\* candidate that was built from it.
IdentitiesTell ==
    /\ mig.pc \in {"clear", "copy"} => (journal.source.run => dir["live"].run)
    /\ mig.pc \in {"build", "ready"} => (journal.source.run => dir["candidate"].run)
    /\ journal.state = "candidate_ready" =>
         /\ journal.candidate.kind \in {"new", "bad"}
         /\ journal.source.run => journal.candidate.run

\* A run that was stored in time is with the old runs, and in what replaces them.
StrayFollowed ==
    stray \in {"preparing", "candidate_ready"} =>
        /\ dir["live"].kind \in Whole \cup {"fresh"} => dir["live"].run
        /\ dir["rollback"].kind \in Whole /\ dir["live"].kind # "fresh" => dir["rollback"].run
        /\ dir["live"].kind = "none" /\ dir["candidate"].kind = "new" => dir["candidate"].run
        /\ mig.pc = "moveOld" /\ There("live") => dir["candidate"].run

MigrationInv == MigrationTyped /\ JournalTells /\ OperationKnows /\ IdentitiesTell /\ StrayFollowed

\* The updates of an operation.
LEMMA OperationMoves ==
    ASSUME mig \in OperationType
    PROVE  /\ \A o \in {"none", "apply", "abort", "recover"}, p \in MigrationPlaces :
                 [mig EXCEPT !.op = o, !.pc = p] \in OperationType
           /\ \A o \in {"none", "apply", "abort", "recover"}, p \in MigrationPlaces :
                 mig.stops < MaxStops =>
                      [mig EXCEPT !.op = o, !.pc = p, !.stops = @ + 1] \in OperationType
           /\ \A o \in {"none", "apply", "abort", "recover"}, p \in MigrationPlaces :
                 mig.applies < MaxApplies =>
                      [mig EXCEPT !.op = o, !.applies = @ + 1, !.pc = p] \in OperationType
           /\ \A p \in MigrationPlaces : [mig EXCEPT !.pc = p] \in OperationType
<1>1. /\ mig = [op |-> mig.op, pc |-> mig.pc, applies |-> mig.applies, stops |-> mig.stops]
      /\ mig.op \in {"none", "apply", "abort", "recover"} /\ mig.pc \in MigrationPlaces
      /\ mig.applies \in 0..MaxApplies /\ mig.stops \in 0..MaxStops
  BY DEF OperationType
<1>2. mig.stops < MaxStops => mig.stops + 1 \in 0..MaxStops
  BY <1>1, MigrationAssumption
<1>3. mig.applies < MaxApplies => mig.applies + 1 \in 0..MaxApplies
  BY <1>1, MigrationAssumption
<1>4. ASSUME NEW o \in {"none", "apply", "abort", "recover"}, NEW p \in MigrationPlaces
      PROVE  /\ [mig EXCEPT !.op = o, !.pc = p] \in OperationType
             /\ [mig EXCEPT !.pc = p] \in OperationType
  BY <1>1 DEF OperationType
<1>5. ASSUME NEW o \in {"none", "apply", "abort", "recover"}, NEW p \in MigrationPlaces,
             mig.stops < MaxStops
      PROVE  [mig EXCEPT !.op = o, !.pc = p, !.stops = @ + 1] \in OperationType
  <2> DEFINE n == mig.stops + 1
  <2>1. n \in 0..MaxStops
    BY <1>2, <1>5
  <2> HIDE DEF n
  <2>2. [mig EXCEPT !.op = o, !.pc = p, !.stops = n] \in OperationType
    BY <2>1 DEF OperationType
  <2> QED BY <2>2 DEF n
<1>6. ASSUME NEW o \in {"none", "apply", "abort", "recover"}, NEW p \in MigrationPlaces,
             mig.applies < MaxApplies
      PROVE  [mig EXCEPT !.op = o, !.applies = @ + 1, !.pc = p] \in OperationType
  <2> DEFINE n == mig.applies + 1
  <2>1. n \in 0..MaxApplies
    BY <1>3, <1>6
  <2> HIDE DEF n
  <2>2. [mig EXCEPT !.op = o, !.applies = n, !.pc = p] \in OperationType
    BY <2>1 DEF OperationType
  <2> QED BY <2>2 DEF n
<1> QED BY <1>4, <1>5, <1>6

\* The updates of the directories.
LEMMA DirectoryMoves ==
    ASSUME dir \in [Directories -> DirectoryType]
    PROVE  /\ \A d \in Directories, x \in DirectoryType : [dir EXCEPT ![d] = x] \in [Directories -> DirectoryType]
           /\ \A d, e \in Directories, x \in DirectoryType :
                [dir EXCEPT ![d] = dir[e], ![e] = x] \in [Directories -> DirectoryType]
           /\ Absent \in DirectoryType /\ Built("part") \in DirectoryType
           /\ \A d \in Directories : dir[d] \in DirectoryType
  BY DEF Directories, DirectoryType, DirectoryKinds, Absent, Built

\* Every step of an operation, every stop and every late write keeps it.
LEMMA MigrationInvNext == MigrationInv /\ [MigrationNext]_migrationVars => MigrationInv'
<1> SUFFICES ASSUME MigrationInv, [MigrationNext]_migrationVars PROVE MigrationInv'
  OBVIOUS
<1>0. MigrationTyped /\ JournalTells /\ OperationKnows /\ IdentitiesTell /\ StrayFollowed
  BY DEF MigrationInv
<1> USE <1>0
<1> USE DEF MigrationTyped, DirectoryType, JournalType, OperationType, Directories
<1>1. CASE Apply
  <2>1. MigrationTyped'
    <3> DEFINE p == IF journal.state = "none" THEN "clear" ELSE Advance(journal.state)
    <3>1. p \in MigrationPlaces /\ p # "none"
      BY DEF Advance, MigrationPlaces
    <3>2. mig' = [mig EXCEPT !.op = "apply", !.applies = @ + 1, !.pc = p] /\ mig.applies < MaxApplies
      BY <1>1 DEF Apply
    <3> HIDE DEF p, OperationType
    <3>3. mig' \in OperationType
      BY <3>1, <3>2, OperationMoves
    <3>4. mig'.op = "apply" /\ mig'.pc = p
      BY <3>2 DEF OperationType
    <3>5. journal' \in JournalType
      BY <1>1 DEF Apply, NoJournal, Absent, DirectoryKinds, JournalStates
    <3> QED BY <1>1, <3>1, <3>3, <3>4, <3>5 DEF Apply
  <2>2. JournalTells'
    BY <1>1 DEF Apply, There, NoJournal, Advance, Absent, JournalTells, OperationKnows,
       InstallPending, Swapped, Reverted, AtHome, Away, Whole, Pending
  <2>3. OperationKnows'
    BY <1>1 DEF Apply, There, NoJournal, Advance, Absent, JournalTells, OperationKnows,
       InstallPending, Swapped, Reverted, AtHome, Away, Whole, Pending
  <2>4. IdentitiesTell'
    BY <1>1 DEF Apply, There, NoJournal, Advance, Absent, IdentitiesTell, OperationKnows,
       JournalTells, Whole, AtHome, Away
  <2>5. StrayFollowed'
    BY <1>1 DEF Apply, There, NoJournal, Advance, Absent, StrayFollowed, IdentitiesTell,
       OperationKnows, JournalTells, InstallPending, Swapped, Reverted, AtHome, Away, Whole, Pending
  <2> QED BY <2>1, <2>2, <2>3, <2>4, <2>5 DEF MigrationInv
<1>2. CASE Abort
  <2>1. MigrationTyped'
    <3> HIDE DEF OperationType
    <3>1. mig' \in OperationType
      BY <1>2, OperationMoves DEF Abort, MigrationPlaces
    <3>2. mig'.op = "abort" /\ mig'.pc = "discard"
      BY <1>2 DEF Abort, OperationType
    <3> QED BY <1>2, <3>1, <3>2 DEF Abort
  <2>2. JournalTells'
    BY <1>2 DEF Abort, JournalTells, OperationKnows, InstallPending, Swapped, Reverted, AtHome,
       Away, Whole, Pending
  <2>3. OperationKnows'
    BY <1>2 DEF Abort, JournalTells, OperationKnows, InstallPending, Swapped, Reverted, AtHome,
       Away, Whole, Pending
  <2>4. IdentitiesTell'
    BY <1>2 DEF Abort, IdentitiesTell, OperationKnows, JournalTells, Whole, AtHome, Away
  <2>5. StrayFollowed'
    BY <1>2 DEF Abort, StrayFollowed, IdentitiesTell, OperationKnows, JournalTells, InstallPending,
       Swapped, Reverted, AtHome, Away, Whole, Pending, There
  <2> QED BY <2>1, <2>2, <2>3, <2>4, <2>5 DEF MigrationInv
<1>3. CASE Recover
  <2>1. MigrationTyped'
    <3>1. PICK p \in MigrationPlaces \ {"none"} : mig' = [mig EXCEPT !.op = "recover", !.pc = p]
      BY <1>3 DEF Recover, Advance, MigrationPlaces
    <3> HIDE DEF OperationType
    <3>2. mig' \in OperationType
      BY <3>1, OperationMoves
    <3>3. mig'.op = "recover" /\ mig'.pc = p
      BY <3>1 DEF OperationType
    <3>4. journal' \in JournalType
      BY <1>3 DEF Recover, Reconciled, JournalStates
    <3> QED BY <1>3, <3>1, <3>2, <3>3, <3>4 DEF Recover
  <2>2. /\ dir' = dir /\ stray' = stray /\ journal'.state = Reconciled
        /\ journal'.source = journal.source /\ journal'.candidate = journal.candidate
    BY <1>3 DEF Recover
  <2>3. JournalTells'
    <3>1. /\ AtHome' = AtHome /\ Away' = Away /\ InstallPending' = InstallPending
          /\ Swapped' = Swapped /\ Reverted' = Reverted
      BY <2>2 DEF AtHome, Away, InstallPending, Swapped, Reverted
    <3>2. CASE journal.state = Reconciled
      BY <2>2, <3>1, <3>2 DEF JournalTells
    <3>3. CASE journal.state # Reconciled
      <4>1. \/ /\ journal.state = "candidate_ready" /\ Reconciled = "old_moved"
               /\ ~There("live") /\ There("candidate") /\ There("rollback")
            \/ /\ journal.state = "old_moved" /\ Reconciled = "new_installed"
               /\ There("live") /\ ~There("candidate") /\ There("rollback")
            \/ /\ journal.state = "validated" /\ Reconciled = "committed"
               /\ There("live") /\ ~There("rollback")
            \/ /\ journal.state = "rollback_required" /\ Reconciled = "rolled_back"
               /\ There("live") /\ There("candidate") /\ ~There("rollback")
        BY <3>3 DEF Reconciled
      <4> HIDE DEF Reconciled
      <4>2. CASE Reconciled = "old_moved"
        <5>1. InstallPending
          BY <4>1, <4>2 DEF JournalTells, There, AtHome, Away, InstallPending, Whole, Pending
        <5> QED BY <2>2, <3>1, <4>2, <5>1 DEF JournalTells
      <4>3. CASE Reconciled = "new_installed"
        <5>1. Swapped
          BY <4>1, <4>3 DEF JournalTells, There, InstallPending, Swapped, Whole, Pending
        <5> QED BY <2>2, <3>1, <4>3, <5>1 DEF JournalTells
      <4>4. CASE Reconciled = "committed"
        <5>1. dir["live"].kind = "new" /\ dir["rollback"].kind = "none"
          BY <4>1, <4>4 DEF JournalTells, There
        <5> QED BY <2>2, <3>1, <4>4, <5>1 DEF JournalTells
      <4>5. CASE Reconciled = "rolled_back"
        <5>1. InstallPending \/ Swapped \/ Reverted
          BY <4>1, <4>5 DEF JournalTells
        <5>2. dir["rollback"].kind = "none"
          BY <4>1, <4>5 DEF There
        <5>3. AtHome
          BY <5>1, <5>2 DEF InstallPending, Away, Swapped, Reverted, Whole
        <5> QED BY <2>2, <3>1, <4>5, <5>3 DEF JournalTells
      <4> QED BY <4>1, <4>2, <4>3, <4>4, <4>5
    <3> QED BY <3>2, <3>3
  <2>4. OperationKnows'
    <3> DEFINE state == Reconciled
               aborted == state = "candidate_ready" /\ There("live") /\ ~There("candidate")
                          /\ ~There("rollback")
               p == CASE HalfUndone -> "undoHalf"
                      [] state \in {"preparing", "rolled_back"} -> "discard"
                      [] aborted -> "dropJournal"
                      [] state = "rollback_required" /\ ~HalfUndone -> "undoNew"
                      [] OTHER -> Advance(state)
    <3>1. /\ mig'.pc = p /\ journal'.state = state /\ dir' = dir /\ journal.state # "none"
      BY <1>3 DEF Recover
    <3>2. CASE HalfUndone
      <4>1. p = "undoHalf" /\ state = "rollback_required" /\ InstallPending
        BY <3>2 DEF HalfUndone, Reconciled, There, JournalTells, InstallPending, Swapped, Reverted,
           AtHome, Away, Whole, Pending
      <4> HIDE DEF p, state
      <4> QED BY <3>1, <4>1 DEF OperationKnows, InstallPending, Away
    <3>3. CASE ~HalfUndone /\ state = "rollback_required"
      <4>1. p = "undoNew" /\ (InstallPending \/ Swapped)
        BY <3>3 DEF HalfUndone, Reconciled, There, JournalTells, InstallPending, Swapped, Reverted,
           AtHome, Away, Whole, Pending
      <4> HIDE DEF p, state
      <4> QED BY <3>1, <3>3, <4>1 DEF OperationKnows, InstallPending, Away, Swapped
    <3>4. CASE ~HalfUndone /\ state # "rollback_required"
      <4>1. /\ p \in {"discard", "dropJournal", "check", "install", "validate", "dropOld", "return"}
            /\ p = "discard" => state \in {"preparing", "rolled_back"}
            /\ p = "dropJournal" => state \in {"candidate_ready", "committed"}
            /\ p = "check" => state = "candidate_ready"
            /\ p = "install" => state = "old_moved"
            /\ p = "validate" => state = "new_installed"
            /\ p = "dropOld" => state = "validated"
        BY <3>4 DEF Advance
      <4> HIDE DEF p, state
      <4> QED BY <3>1, <4>1 DEF OperationKnows
    <3> QED BY <3>2, <3>3, <3>4
  <2>5. mig'.pc \in {"undoHalf", "discard", "dropJournal", "undoNew", "check", "install", "validate",
                    "dropOld", "return"}
    BY <1>3 DEF Recover, Advance
  <2>6. Reconciled \in {"preparing", "candidate_ready"} => journal.state = Reconciled
    BY DEF Reconciled
  <2>7. IdentitiesTell'
    BY <2>2, <2>5, <2>6 DEF IdentitiesTell
  <2>8. StrayFollowed'
    BY <2>2, <2>5 DEF StrayFollowed, There
  <2> QED BY <2>1, <2>3, <2>4, <2>7, <2>8 DEF MigrationInv
<1>4. CASE ClearCandidate
  <2>1. MigrationTyped'
    <3>1. \/ mig' = mig /\ \/ dir' = [dir EXCEPT !["candidate"] = Absent]
                           \/ dir' = [dir EXCEPT !["candidate"] = Built("part")]
          \/ mig' = [mig EXCEPT !.pc = "copy"] /\ dir' = dir
      BY <1>4 DEF ClearCandidate, Removing, RemoveTree, Next
    <3>2. mig' \in OperationType /\ dir' \in [Directories -> DirectoryType]
      <4> HIDE DEF OperationType, DirectoryType, Directories
      <4>1. "candidate" \in Directories
        BY DEF Directories
      <4>2. "copy" \in MigrationPlaces
        BY DEF MigrationPlaces
      <4>3. mig' \in OperationType
        BY <3>1, <4>2, OperationMoves
      <4>4. dir' \in [Directories -> DirectoryType]
        BY <3>1, <4>1, DirectoryMoves
      <4> QED BY <4>3, <4>4
    <3> QED BY <1>4, <3>1, <3>2 DEF ClearCandidate, Removing, At
  <2>2. JournalTells'
    BY <1>4 DEF ClearCandidate, Removing, At, There, RemoveTree, Next, Absent, Built, JournalTells,
       OperationKnows, InstallPending, Swapped, Reverted, AtHome, Away, Whole, Pending
  <2>3. OperationKnows'
    BY <1>4 DEF ClearCandidate, Removing, At, There, RemoveTree, Next, Absent, Built, JournalTells,
       OperationKnows, InstallPending, Swapped, Reverted, AtHome, Away, Whole, Pending
  <2>4. IdentitiesTell'
    BY <1>4 DEF ClearCandidate, Removing, At, There, RemoveTree, Next, Absent, Built,
       IdentitiesTell, OperationKnows, JournalTells, Whole, AtHome, Away
  <2>5. StrayFollowed'
    BY <1>4 DEF ClearCandidate, Removing, At, There, RemoveTree, Next, Absent, Built, StrayFollowed,
       IdentitiesTell, OperationKnows, JournalTells, InstallPending, Swapped, Reverted, AtHome, Away,
       Whole, Pending
  <2> QED BY <2>1, <2>2, <2>3, <2>4, <2>5 DEF MigrationInv
<1>5. CASE CopyLive
  <2>1. MigrationTyped'
    BY <1>5 DEF CopyLive, At, Next, There, DirectoryKinds, JournalStates, MigrationPlaces
  <2>2. JournalTells'
    BY <1>5 DEF CopyLive, At, Next, There, JournalTells, OperationKnows, InstallPending, Swapped,
       Reverted, AtHome, Away, Whole, Pending
  <2>3. OperationKnows'
    BY <1>5 DEF CopyLive, At, Next, There, JournalTells, OperationKnows, InstallPending, Swapped,
       Reverted, AtHome, Away, Whole, Pending
  <2>4. IdentitiesTell'
    BY <1>5 DEF CopyLive, At, Next, There, IdentitiesTell, OperationKnows, JournalTells, Whole, AtHome, Away
  <2>5. StrayFollowed'
    BY <1>5 DEF CopyLive, At, Next, There, StrayFollowed, IdentitiesTell, OperationKnows,
       JournalTells, InstallPending, Swapped, Reverted, AtHome, Away, Whole, Pending
  <2> QED BY <2>1, <2>2, <2>3, <2>4, <2>5 DEF MigrationInv
<1>6. CASE BuildCandidate
  <2>1. MigrationTyped'
    BY <1>6 DEF BuildCandidate, At, Next, DirectoryKinds, JournalStates, MigrationPlaces
  <2>2. JournalTells'
    BY <1>6 DEF BuildCandidate, At, Next, JournalTells, OperationKnows, InstallPending, Swapped,
       Reverted, AtHome, Away, Whole, Pending
  <2>3. OperationKnows'
    BY <1>6 DEF BuildCandidate, At, Next, JournalTells, OperationKnows, InstallPending, Swapped,
       Reverted, AtHome, Away, Whole, Pending
  <2>4. IdentitiesTell'
    BY <1>6 DEF BuildCandidate, At, Next, IdentitiesTell, OperationKnows, JournalTells, Whole, AtHome, Away
  <2>5. StrayFollowed'
    <3>1. /\ dir'["live"] = dir["live"] /\ dir'["rollback"] = dir["rollback"]
          /\ dir'["candidate"].run = dir["candidate"].run /\ mig'.pc = "ready" /\ stray' = stray
          /\ mig.pc = "build" /\ mig.op # "none" /\ journal.state = "preparing"
      BY <1>6 DEF BuildCandidate, At, Next, OperationKnows
    <3>2. dir["live"].kind # "none"
      BY <3>1 DEF OperationKnows, There
    <3> QED BY <3>1, <3>2 DEF StrayFollowed
  <2> QED BY <2>1, <2>2, <2>3, <2>4, <2>5 DEF MigrationInv
<1>7. CASE RecordReady
  <2>1. MigrationTyped'
    BY <1>7 DEF RecordReady, At, Next, DirectoryKinds, JournalStates, MigrationPlaces
  <2>2. JournalTells'
    BY <1>7 DEF RecordReady, At, Next, JournalTells, OperationKnows, InstallPending, Swapped,
       Reverted, AtHome, Away, Whole, Pending
  <2>3. OperationKnows'
    BY <1>7 DEF RecordReady, At, Next, JournalTells, OperationKnows, InstallPending, Swapped,
       Reverted, AtHome, Away, Whole, Pending
  <2>4. IdentitiesTell'
    BY <1>7 DEF RecordReady, At, Next, IdentitiesTell, OperationKnows, JournalTells, Whole, AtHome, Away
  <2>5. StrayFollowed'
    BY <1>7 DEF RecordReady, At, Next, StrayFollowed, IdentitiesTell, OperationKnows, JournalTells,
       InstallPending, Swapped, Reverted, AtHome, Away, Whole, Pending, There
  <2> QED BY <2>1, <2>2, <2>3, <2>4, <2>5 DEF MigrationInv
<1>8. CASE CheckIdentities
  <2>1. MigrationTyped'
    BY <1>8 DEF CheckIdentities, At, Next, DirectoryKinds, JournalStates, MigrationPlaces
  <2>2. JournalTells'
    BY <1>8 DEF CheckIdentities, At, Next, JournalTells, OperationKnows, InstallPending, Swapped,
       Reverted, AtHome, Away, Whole, Pending
  <2>3. OperationKnows'
    <3>1. /\ dir' = dir /\ journal' = journal /\ mig'.pc = "moveOld" /\ journal.state = "candidate_ready"
          /\ dir["candidate"] = journal.candidate
      BY <1>8 DEF CheckIdentities, At, Next, OperationKnows
    <3> QED BY <3>1 DEF OperationKnows, IdentitiesTell
  <2>4. IdentitiesTell'
    BY <1>8 DEF CheckIdentities, At, Next, IdentitiesTell, OperationKnows, JournalTells, Whole, AtHome, Away
  <2>5. StrayFollowed'
    BY <1>8 DEF CheckIdentities, At, Next, StrayFollowed, IdentitiesTell, OperationKnows,
       JournalTells, InstallPending, Swapped, Reverted, AtHome, Away, Whole, Pending, There
  <2> QED BY <2>1, <2>2, <2>3, <2>4, <2>5 DEF MigrationInv
<1>9. CASE MoveOld
  <2>1. MigrationTyped'
    BY <1>9 DEF MoveOld, Renaming, At, Rename, Next, There, Absent, DirectoryKinds, JournalStates,
       MigrationPlaces
  <2>2. JournalTells'
    BY <1>9 DEF MoveOld, Renaming, At, Rename, Next, There, Absent, JournalTells, OperationKnows,
       InstallPending, Swapped, Reverted, AtHome, Away, Whole, Pending
  <2>3. OperationKnows'
    BY <1>9 DEF MoveOld, Renaming, At, Rename, Next, There, Absent, JournalTells, OperationKnows,
       InstallPending, Swapped, Reverted, AtHome, Away, Whole, Pending
  <2>4. IdentitiesTell'
    BY <1>9 DEF MoveOld, Renaming, At, Rename, Next, There, Absent, IdentitiesTell, OperationKnows,
       JournalTells, Whole, AtHome, Away
  <2>5. StrayFollowed'
    BY <1>9 DEF MoveOld, Renaming, At, Rename, Next, There, Absent, StrayFollowed, IdentitiesTell,
       OperationKnows, JournalTells, InstallPending, Swapped, Reverted, AtHome, Away, Whole, Pending
  <2> QED BY <2>1, <2>2, <2>3, <2>4, <2>5 DEF MigrationInv
<1>10. CASE RecordOldMoved
  <2>1. MigrationTyped'
    BY <1>10 DEF RecordOldMoved, At, Record, Next, DirectoryKinds, JournalStates, MigrationPlaces
  <2>2. JournalTells'
    BY <1>10 DEF RecordOldMoved, At, Record, Next, JournalTells, OperationKnows, InstallPending,
       Swapped, Reverted, AtHome, Away, Whole, Pending
  <2>3. OperationKnows'
    BY <1>10 DEF RecordOldMoved, At, Record, Next, JournalTells, OperationKnows, InstallPending,
       Swapped, Reverted, AtHome, Away, Whole, Pending
  <2>4. IdentitiesTell'
    BY <1>10 DEF RecordOldMoved, At, Record, Next, IdentitiesTell, OperationKnows, JournalTells,
       Whole, AtHome, Away
  <2>5. StrayFollowed'
    BY <1>10 DEF RecordOldMoved, At, Record, Next, StrayFollowed, IdentitiesTell, OperationKnows,
       JournalTells, InstallPending, Swapped, Reverted, AtHome, Away, Whole, Pending, There
  <2> QED BY <2>1, <2>2, <2>3, <2>4, <2>5 DEF MigrationInv
<1>11. CASE InstallCandidate
  <2>1. MigrationTyped'
    BY <1>11 DEF InstallCandidate, Renaming, At, Rename, Next, There, Absent, DirectoryKinds,
       JournalStates, MigrationPlaces
  <2>2. JournalTells'
    BY <1>11 DEF InstallCandidate, Renaming, At, Rename, Next, There, Absent, JournalTells,
       OperationKnows, InstallPending, Swapped, Reverted, AtHome, Away, Whole, Pending
  <2>3. OperationKnows'
    BY <1>11 DEF InstallCandidate, Renaming, At, Rename, Next, There, Absent, JournalTells,
       OperationKnows, InstallPending, Swapped, Reverted, AtHome, Away, Whole, Pending
  <2>4. IdentitiesTell'
    BY <1>11 DEF InstallCandidate, Renaming, At, Rename, Next, There, Absent, IdentitiesTell,
       OperationKnows, JournalTells, Whole, AtHome, Away
  <2>5. StrayFollowed'
    BY <1>11 DEF InstallCandidate, Renaming, At, Rename, Next, There, Absent, StrayFollowed,
       IdentitiesTell, OperationKnows, JournalTells, InstallPending, Swapped, Reverted, AtHome, Away,
       Whole, Pending
  <2> QED BY <2>1, <2>2, <2>3, <2>4, <2>5 DEF MigrationInv
<1>12. CASE RecordInstalled
  <2>1. MigrationTyped'
    BY <1>12 DEF RecordInstalled, At, Record, Next, DirectoryKinds, JournalStates, MigrationPlaces
  <2>2. JournalTells'
    BY <1>12 DEF RecordInstalled, At, Record, Next, JournalTells, OperationKnows, InstallPending,
       Swapped, Reverted, AtHome, Away, Whole, Pending
  <2>3. OperationKnows'
    BY <1>12 DEF RecordInstalled, At, Record, Next, JournalTells, OperationKnows, InstallPending,
       Swapped, Reverted, AtHome, Away, Whole, Pending
  <2>4. IdentitiesTell'
    BY <1>12 DEF RecordInstalled, At, Record, Next, IdentitiesTell, OperationKnows, JournalTells,
       Whole, AtHome, Away
  <2>5. StrayFollowed'
    BY <1>12 DEF RecordInstalled, At, Record, Next, StrayFollowed, IdentitiesTell, OperationKnows,
       JournalTells, InstallPending, Swapped, Reverted, AtHome, Away, Whole, Pending, There
  <2> QED BY <2>1, <2>2, <2>3, <2>4, <2>5 DEF MigrationInv
<1>13. CASE ValidateLive
  <2>1. MigrationTyped'
    BY <1>13 DEF ValidateLive, At, Record, Next, DirectoryKinds, JournalStates, MigrationPlaces
  <2>2. JournalTells'
    BY <1>13 DEF ValidateLive, At, Record, Next, JournalTells, OperationKnows, InstallPending,
       Swapped, Reverted, AtHome, Away, Whole, Pending
  <2>3. OperationKnows'
    BY <1>13 DEF ValidateLive, At, Record, Next, JournalTells, OperationKnows, InstallPending,
       Swapped, Reverted, AtHome, Away, Whole, Pending
  <2>4. IdentitiesTell'
    BY <1>13 DEF ValidateLive, At, Record, Next, IdentitiesTell, OperationKnows, JournalTells,
       Whole, AtHome, Away
  <2>5. StrayFollowed'
    BY <1>13 DEF ValidateLive, At, Record, Next, StrayFollowed, IdentitiesTell, OperationKnows,
       JournalTells, InstallPending, Swapped, Reverted, AtHome, Away, Whole, Pending, There
  <2> QED BY <2>1, <2>2, <2>3, <2>4, <2>5 DEF MigrationInv
<1>14. CASE DropOld
  <2>1. MigrationTyped'
    BY <1>14 DEF DropOld, At, Next, RemoveTree, There, Absent, Built, DirectoryKinds, JournalStates,
       MigrationPlaces
  <2>2. JournalTells'
    BY <1>14 DEF DropOld, At, Next, RemoveTree, There, Absent, Built, JournalTells, OperationKnows,
       InstallPending, Swapped, Reverted, AtHome, Away, Whole, Pending
  <2>3. OperationKnows'
    BY <1>14 DEF DropOld, At, Next, RemoveTree, There, Absent, Built, JournalTells, OperationKnows,
       InstallPending, Swapped, Reverted, AtHome, Away, Whole, Pending
  <2>4. IdentitiesTell'
    BY <1>14 DEF DropOld, At, Next, RemoveTree, There, Absent, Built, IdentitiesTell,
       OperationKnows, JournalTells, Whole, AtHome, Away
  <2>5. StrayFollowed'
    BY <1>14 DEF DropOld, At, Next, RemoveTree, There, Absent, Built, StrayFollowed, IdentitiesTell,
       OperationKnows, JournalTells, InstallPending, Swapped, Reverted, AtHome, Away, Whole, Pending
  <2> QED BY <2>1, <2>2, <2>3, <2>4, <2>5 DEF MigrationInv
<1>15. CASE RecordCommitted
  <2>1. MigrationTyped'
    BY <1>15 DEF RecordCommitted, At, Record, Next, DirectoryKinds, JournalStates, MigrationPlaces
  <2>2. JournalTells'
    BY <1>15 DEF RecordCommitted, At, Record, Next, JournalTells, OperationKnows, InstallPending,
       Swapped, Reverted, AtHome, Away, Whole, Pending
  <2>3. OperationKnows'
    BY <1>15 DEF RecordCommitted, At, Record, Next, JournalTells, OperationKnows, InstallPending,
       Swapped, Reverted, AtHome, Away, Whole, Pending
  <2>4. IdentitiesTell'
    BY <1>15 DEF RecordCommitted, At, Record, Next, IdentitiesTell, OperationKnows, JournalTells,
       Whole, AtHome, Away
  <2>5. StrayFollowed'
    BY <1>15 DEF RecordCommitted, At, Record, Next, StrayFollowed, IdentitiesTell, OperationKnows,
       JournalTells, InstallPending, Swapped, Reverted, AtHome, Away, Whole, Pending, There
  <2> QED BY <2>1, <2>2, <2>3, <2>4, <2>5 DEF MigrationInv
<1>16. CASE DropJournal
  <2>1. MigrationTyped'
    BY <1>16 DEF DropJournal, At, Return, NoJournal, Absent, DirectoryKinds, JournalStates, MigrationPlaces
  <2>2. JournalTells'
    BY <1>16 DEF DropJournal, At, Return, NoJournal, Absent, JournalTells, OperationKnows,
       InstallPending, Swapped, Reverted, AtHome, Away, Whole, Pending
  <2>3. OperationKnows'
    BY <1>16 DEF DropJournal, At, Return, NoJournal, Absent, JournalTells, OperationKnows,
       InstallPending, Swapped, Reverted, AtHome, Away, Whole, Pending
  <2>4. IdentitiesTell'
    BY <1>16 DEF DropJournal, At, Return, NoJournal, Absent, IdentitiesTell, OperationKnows,
       JournalTells, Whole, AtHome, Away
  <2>5. StrayFollowed'
    BY <1>16 DEF DropJournal, At, Return, NoJournal, Absent, StrayFollowed, IdentitiesTell,
       OperationKnows, JournalTells, InstallPending, Swapped, Reverted, AtHome, Away, Whole, Pending,
       There
  <2> QED BY <2>1, <2>2, <2>3, <2>4, <2>5 DEF MigrationInv
<1>17. CASE ReturnState
  <2>1. MigrationTyped'
    <3>1. mig' = [mig EXCEPT !.op = "none", !.pc = "none"]
      BY <1>17 DEF ReturnState, Return
    <3>2. mig' \in OperationType
      <4> HIDE DEF OperationType
      <4> QED BY <3>1, OperationMoves DEF MigrationPlaces
    <3> QED BY <1>17, <3>1, <3>2 DEF ReturnState
  <2>2. JournalTells'
    BY <1>17 DEF ReturnState, At, Return, JournalTells, OperationKnows, InstallPending, Swapped,
       Reverted, AtHome, Away, Whole, Pending
  <2>3. OperationKnows'
    BY <1>17 DEF ReturnState, At, Return, JournalTells, OperationKnows, InstallPending, Swapped,
       Reverted, AtHome, Away, Whole, Pending
  <2>4. IdentitiesTell'
    BY <1>17 DEF ReturnState, At, Return, IdentitiesTell, OperationKnows, JournalTells, Whole, AtHome, Away
  <2>5. StrayFollowed'
    BY <1>17 DEF ReturnState, At, Return, StrayFollowed, IdentitiesTell, OperationKnows,
       JournalTells, InstallPending, Swapped, Reverted, AtHome, Away, Whole, Pending, There
  <2> QED BY <2>1, <2>2, <2>3, <2>4, <2>5 DEF MigrationInv
<1>18. CASE Refused
  <2>1. MigrationTyped'
    <3>1. mig' = [mig EXCEPT !.op = "none", !.pc = "none"]
      BY <1>18 DEF Refused, Return
    <3>2. mig' \in OperationType
      <4> HIDE DEF OperationType
      <4> QED BY <3>1, OperationMoves DEF MigrationPlaces
    <3> QED BY <1>18, <3>1, <3>2 DEF Refused
  <2>2. JournalTells'
    BY <1>18 DEF Refused, At, Return, There, JournalTells, OperationKnows, InstallPending, Swapped,
       Reverted, AtHome, Away, Whole, Pending
  <2>3. OperationKnows'
    BY <1>18 DEF Refused, At, Return, There, JournalTells, OperationKnows, InstallPending, Swapped,
       Reverted, AtHome, Away, Whole, Pending
  <2>4. IdentitiesTell'
    BY <1>18 DEF Refused, At, Return, There, IdentitiesTell, OperationKnows, JournalTells, Whole, AtHome, Away
  <2>5. StrayFollowed'
    BY <1>18 DEF Refused, At, Return, There, StrayFollowed, IdentitiesTell, OperationKnows,
       JournalTells, InstallPending, Swapped, Reverted, AtHome, Away, Whole, Pending
  <2> QED BY <2>1, <2>2, <2>3, <2>4, <2>5 DEF MigrationInv
<1>19. CASE UndoNew
  <2>1. MigrationTyped'
    <3>1. mig' = [mig EXCEPT !.pc = "undoOld"] /\ mig.op # "none"
      BY <1>19 DEF UndoNew, Next, At
    <3>2. mig' \in OperationType
      <4> HIDE DEF OperationType
      <4> QED BY <3>1, OperationMoves DEF MigrationPlaces
    <3>3. dir' = dir \/ dir' = [dir EXCEPT !["candidate"] = dir["live"], !["live"] = Absent]
      BY <1>19 DEF UndoNew, Rename
    <3>4. dir' \in [Directories -> DirectoryType]
      <4> HIDE DEF DirectoryType, Directories
      <4>1. "candidate" \in Directories /\ "live" \in Directories
        BY DEF Directories
      <4> QED BY <3>3, <4>1, DirectoryMoves
    <3> QED BY <1>19, <3>1, <3>2, <3>4 DEF UndoNew
  <2>2. JournalTells'
    BY <1>19 DEF UndoNew, At, Next, Rename, There, Absent, JournalTells, OperationKnows,
       InstallPending, Swapped, Reverted, AtHome, Away, Whole, Pending
  <2>3. OperationKnows'
    BY <1>19 DEF UndoNew, At, Next, Rename, There, Absent, JournalTells, OperationKnows,
       InstallPending, Swapped, Reverted, AtHome, Away, Whole, Pending
  <2>4. IdentitiesTell'
    BY <1>19 DEF UndoNew, At, Next, Rename, There, Absent, IdentitiesTell, OperationKnows,
       JournalTells, Whole, AtHome, Away
  <2>5. StrayFollowed'
    BY <1>19 DEF UndoNew, At, Next, Rename, There, Absent, StrayFollowed, IdentitiesTell,
       OperationKnows, JournalTells, InstallPending, Swapped, Reverted, AtHome, Away, Whole, Pending
  <2> QED BY <2>1, <2>2, <2>3, <2>4, <2>5 DEF MigrationInv
<1>20. CASE RestoreOld
  <2>1. MigrationTyped'
    BY <1>20 DEF RestoreOld, Renaming, At, Rename, Next, There, Absent, DirectoryKinds,
       JournalStates, MigrationPlaces
  <2>2. JournalTells'
    BY <1>20 DEF RestoreOld, Renaming, At, Rename, Next, There, Absent, JournalTells,
       OperationKnows, InstallPending, Swapped, Reverted, AtHome, Away, Whole, Pending
  <2>3. OperationKnows'
    BY <1>20 DEF RestoreOld, Renaming, At, Rename, Next, There, Absent, JournalTells,
       OperationKnows, InstallPending, Swapped, Reverted, AtHome, Away, Whole, Pending
  <2>4. IdentitiesTell'
    BY <1>20 DEF RestoreOld, Renaming, At, Rename, Next, There, Absent, IdentitiesTell,
       OperationKnows, JournalTells, Whole, AtHome, Away
  <2>5. StrayFollowed'
    BY <1>20 DEF RestoreOld, Renaming, At, Rename, Next, There, Absent, StrayFollowed,
       IdentitiesTell, OperationKnows, JournalTells, InstallPending, Swapped, Reverted, AtHome, Away,
       Whole, Pending
  <2> QED BY <2>1, <2>2, <2>3, <2>4, <2>5 DEF MigrationInv
<1>21. CASE RecordRolledBack
  <2>1. MigrationTyped'
    BY <1>21 DEF RecordRolledBack, At, Record, Next, DirectoryKinds, JournalStates, MigrationPlaces
  <2>2. JournalTells'
    BY <1>21 DEF RecordRolledBack, At, Record, Next, JournalTells, OperationKnows, InstallPending,
       Swapped, Reverted, AtHome, Away, Whole, Pending
  <2>3. OperationKnows'
    BY <1>21 DEF RecordRolledBack, At, Record, Next, JournalTells, OperationKnows, InstallPending,
       Swapped, Reverted, AtHome, Away, Whole, Pending
  <2>4. IdentitiesTell'
    BY <1>21 DEF RecordRolledBack, At, Record, Next, IdentitiesTell, OperationKnows, JournalTells,
       Whole, AtHome, Away
  <2>5. StrayFollowed'
    BY <1>21 DEF RecordRolledBack, At, Record, Next, StrayFollowed, IdentitiesTell, OperationKnows,
       JournalTells, InstallPending, Swapped, Reverted, AtHome, Away, Whole, Pending, There
  <2> QED BY <2>1, <2>2, <2>3, <2>4, <2>5 DEF MigrationInv
<1>22. CASE DiscardCandidate
  <2>1. MigrationTyped'
    <3>1. \/ mig' = mig /\ \/ dir' = [dir EXCEPT !["candidate"] = Absent]
                           \/ dir' = [dir EXCEPT !["candidate"] = Built("part")]
          \/ mig' = [mig EXCEPT !.pc = "dropJournal"] /\ dir' = dir
      BY <1>22 DEF DiscardCandidate, Removing, RemoveTree, Next
    <3>2. mig' \in OperationType /\ dir' \in [Directories -> DirectoryType]
      <4> HIDE DEF OperationType, DirectoryType, Directories
      <4>1. "candidate" \in Directories
        BY DEF Directories
      <4>2. "dropJournal" \in MigrationPlaces
        BY DEF MigrationPlaces
      <4>3. mig' \in OperationType
        BY <3>1, <4>2, OperationMoves
      <4>4. dir' \in [Directories -> DirectoryType]
        BY <3>1, <4>1, DirectoryMoves
      <4> QED BY <4>3, <4>4
    <3> QED BY <1>22, <3>1, <3>2 DEF DiscardCandidate, Removing, At
  <2>2. JournalTells'
    BY <1>22 DEF DiscardCandidate, Removing, At, There, RemoveTree, Next, Absent, Built,
       JournalTells, OperationKnows, InstallPending, Swapped, Reverted, AtHome, Away, Whole, Pending
  <2>3. OperationKnows'
    BY <1>22 DEF DiscardCandidate, Removing, At, There, RemoveTree, Next, Absent, Built,
       JournalTells, OperationKnows, InstallPending, Swapped, Reverted, AtHome, Away, Whole, Pending
  <2>4. IdentitiesTell'
    BY <1>22 DEF DiscardCandidate, Removing, At, There, RemoveTree, Next, Absent, Built,
       IdentitiesTell, OperationKnows, JournalTells, Whole, AtHome, Away
  <2>5. StrayFollowed'
    BY <1>22 DEF DiscardCandidate, Removing, At, There, RemoveTree, Next, Absent, Built,
       StrayFollowed, IdentitiesTell, OperationKnows, JournalTells, InstallPending, Swapped, Reverted,
       AtHome, Away, Whole, Pending
  <2> QED BY <2>1, <2>2, <2>3, <2>4, <2>5 DEF MigrationInv
<1>23. CASE UndoHalf
  <2>1. MigrationTyped'
    BY <1>23 DEF UndoHalf, Renaming, At, Rename, Next, There, Absent, DirectoryKinds, JournalStates,
       MigrationPlaces
  <2>2. JournalTells'
    BY <1>23 DEF UndoHalf, Renaming, At, Rename, Next, There, Absent, JournalTells, OperationKnows,
       InstallPending, Swapped, Reverted, AtHome, Away, Whole, Pending
  <2>3. OperationKnows'
    BY <1>23 DEF UndoHalf, Renaming, At, Rename, Next, There, Absent, JournalTells, OperationKnows,
       InstallPending, Swapped, Reverted, AtHome, Away, Whole, Pending
  <2>4. IdentitiesTell'
    BY <1>23 DEF UndoHalf, Renaming, At, Rename, Next, There, Absent, IdentitiesTell,
       OperationKnows, JournalTells, Whole, AtHome, Away
  <2>5. StrayFollowed'
    BY <1>23 DEF UndoHalf, Renaming, At, Rename, Next, There, Absent, StrayFollowed, IdentitiesTell,
       OperationKnows, JournalTells, InstallPending, Swapped, Reverted, AtHome, Away, Whole, Pending
  <2> QED BY <2>1, <2>2, <2>3, <2>4, <2>5 DEF MigrationInv
<1>24. CASE RecordUndoneHalf
  <2>1. MigrationTyped'
    BY <1>24 DEF RecordUndoneHalf, At, Record, Next, DirectoryKinds, JournalStates, MigrationPlaces
  <2>2. JournalTells'
    BY <1>24 DEF RecordUndoneHalf, At, Record, Next, JournalTells, OperationKnows, InstallPending,
       Swapped, Reverted, AtHome, Away, Whole, Pending
  <2>3. OperationKnows'
    BY <1>24 DEF RecordUndoneHalf, At, Record, Next, JournalTells, OperationKnows, InstallPending,
       Swapped, Reverted, AtHome, Away, Whole, Pending
  <2>4. IdentitiesTell'
    BY <1>24 DEF RecordUndoneHalf, At, Record, Next, IdentitiesTell, OperationKnows, JournalTells,
       Whole, AtHome, Away
  <2>5. StrayFollowed'
    BY <1>24 DEF RecordUndoneHalf, At, Record, Next, StrayFollowed, IdentitiesTell, OperationKnows,
       JournalTells, InstallPending, Swapped, Reverted, AtHome, Away, Whole, Pending, There
  <2> QED BY <2>1, <2>2, <2>3, <2>4, <2>5 DEF MigrationInv
<1>25. CASE Stop
  <2>1. MigrationTyped'
    <3>1. /\ mig' = [mig EXCEPT !.op = "none", !.pc = "none", !.stops = @ + 1]
          /\ mig.stops < MaxStops
      BY <1>25 DEF Stop
    <3>2. mig' \in OperationType
      <4> HIDE DEF OperationType
      <4> QED BY <3>1, OperationMoves DEF MigrationPlaces
    <3> QED BY <1>25, <3>1, <3>2 DEF Stop
  <2>2. JournalTells'
    BY <1>25 DEF Stop, JournalTells, OperationKnows, InstallPending, Swapped, Reverted, AtHome,
       Away, Whole, Pending
  <2>3. OperationKnows'
    BY <1>25 DEF Stop, JournalTells, OperationKnows, InstallPending, Swapped, Reverted, AtHome,
       Away, Whole, Pending
  <2>4. IdentitiesTell'
    BY <1>25 DEF Stop, IdentitiesTell, OperationKnows, JournalTells, Whole, AtHome, Away
  <2>5. StrayFollowed'
    BY <1>25 DEF Stop, StrayFollowed, IdentitiesTell, OperationKnows, JournalTells, InstallPending,
       Swapped, Reverted, AtHome, Away, Whole, Pending, There
  <2> QED BY <2>1, <2>2, <2>3, <2>4, <2>5 DEF MigrationInv
<1>26. CASE RollbackFails
  <2>1. MigrationTyped'
    <3>1. \/ /\ mig' = [mig EXCEPT !.op = "none", !.pc = "none", !.stops = @ + 1]
             /\ mig.stops < MaxStops
          \/ mig' = [mig EXCEPT !.op = "none", !.pc = "none"]
      BY <1>26 DEF RollbackFails, Return
    <3>2. mig' \in OperationType
      <4> HIDE DEF OperationType
      <4> QED BY <3>1, OperationMoves DEF MigrationPlaces
    <3>3. mig'.op = "none" /\ mig'.pc = "none"
      BY <3>1
    <3>4. journal' \in JournalType
      BY <1>26 DEF RollbackFails, JournalStates
    <3> QED BY <1>26, <3>2, <3>3, <3>4 DEF RollbackFails
  <2>2. /\ mig'.pc = "none" /\ journal'.state = "rollback_failed" /\ dir' = dir /\ stray' = stray
        /\ journal.state = "rollback_required"
    BY <1>26 DEF RollbackFails, Return, OperationKnows
  <2>3. JournalTells'
    <3>1. InstallPending \/ Swapped \/ Reverted
      BY <2>2 DEF JournalTells
    <3>2. InstallPending' \/ Swapped' \/ Reverted'
      BY <2>2, <3>1 DEF InstallPending, Swapped, Reverted, AtHome, Away
    <3> QED BY <2>2, <3>2 DEF JournalTells
  <2>4. OperationKnows'
    BY <2>2 DEF OperationKnows
  <2>5. IdentitiesTell'
    BY <2>2 DEF IdentitiesTell
  <2>6. StrayFollowed'
    BY <2>2 DEF StrayFollowed, There
  <2> QED BY <2>1, <2>3, <2>4, <2>5, <2>6 DEF MigrationInv
<1>27. CASE StoreRun
  <2>1. MigrationTyped'
    BY <1>27 DEF StoreRun, There, DirectoryKinds, JournalStates, MigrationPlaces
  <2>2. JournalTells'
    BY <1>27 DEF StoreRun, There, JournalTells, OperationKnows, InstallPending, Swapped, Reverted,
       AtHome, Away, Whole, Pending
  <2>3. OperationKnows'
    BY <1>27 DEF StoreRun, There, JournalTells, OperationKnows, InstallPending, Swapped, Reverted,
       AtHome, Away, Whole, Pending
  <2>4. IdentitiesTell'
    BY <1>27 DEF StoreRun, There, IdentitiesTell, OperationKnows, JournalTells, Whole, AtHome, Away
  <2>5. StrayFollowed'
    BY <1>27 DEF StoreRun, There, StrayFollowed, IdentitiesTell, OperationKnows, JournalTells,
       InstallPending, Swapped, Reverted, AtHome, Away, Whole, Pending
  <2> QED BY <2>1, <2>2, <2>3, <2>4, <2>5 DEF MigrationInv
<1>28. CASE UNCHANGED migrationVars
  <2>1. mig' = mig /\ dir' = dir /\ journal' = journal /\ stray' = stray
    BY <1>28 DEF migrationVars
  <2>2. MigrationTyped'
    BY <2>1
  <2>3. JournalTells'
    BY <2>1 DEF JournalTells, InstallPending, Swapped, Reverted, AtHome, Away
  <2>4. OperationKnows' /\ IdentitiesTell' /\ StrayFollowed'
    BY <2>1 DEF OperationKnows, IdentitiesTell, StrayFollowed, InstallPending, Swapped, Reverted,
       AtHome, Away, There
  <2> QED BY <2>2, <2>3, <2>4 DEF MigrationInv
<1> QED BY <1>1, <1>2, <1>3, <1>4, <1>5, <1>6, <1>7, <1>8, <1>9, <1>10, <1>11, <1>12, <1>13, <1>14, <1>15, <1>16, <1>17, <1>18, <1>19, <1>20, <1>21, <1>22, <1>23, <1>24, <1>25, <1>26, <1>27, <1>28 DEF MigrationNext, OperationStep

\* The invariant holds before the first migration.
LEMMA MigrationInvInit == MigrationInit => MigrationInv
<1> SUFFICES ASSUME MigrationInit PROVE MigrationInv
  OBVIOUS
<1>1. /\ dir["live"].kind = "old" /\ dir["candidate"].kind = "none" /\ dir["rollback"].kind = "none"
      /\ journal.state = "none" /\ ~journal.source.run /\ mig.pc = "none" /\ stray = "never"
  BY DEF MigrationInit, Directories, NoJournal, Absent, Built
<1>2. MigrationTyped
  <2>1. dir \in [Directories -> DirectoryType]
    BY DEF MigrationInit, Directories, DirectoryType, DirectoryKinds, Absent, Built
  <2>2. journal \in JournalType
    BY DEF MigrationInit, NoJournal, Absent, JournalType, DirectoryType, DirectoryKinds, JournalStates
  <2>3. mig \in OperationType /\ stray = "never"
    BY MigrationAssumption DEF MigrationInit, OperationType, MigrationPlaces
  <2> QED BY <2>1, <2>2, <2>3 DEF MigrationInit, MigrationTyped
<1>3. JournalTells /\ OperationKnows /\ IdentitiesTell /\ StrayFollowed
  BY <1>1 DEF JournalTells, OperationKnows, IdentitiesTell, StrayFollowed, AtHome, Away,
     InstallPending, Swapped,
              Reverted, Whole, Pending
<1> QED BY <1>2, <1>3 DEF MigrationInv

\* It says what the run checks.
LEMMA MigrationInvSafe == MigrationInv => RunsKept /\ MigrationTypeOK
<1> SUFFICES ASSUME MigrationInv PROVE RunsKept /\ MigrationTypeOK
  OBVIOUS
<1>0. MigrationTyped /\ JournalTells /\ OperationKnows /\ IdentitiesTell /\ StrayFollowed
  BY DEF MigrationInv
<1>1. MigrationTypeOK
  BY <1>0 DEF MigrationTyped, MigrationTypeOK, DirectoryType, JournalType, OperationType
<1>2. journal.state \in JournalStates
  BY <1>1 DEF MigrationTypeOK
<1>3. OldRunsKept
  BY <1>0, <1>2 DEF OldRunsKept, JournalTells, JournalStates, AtHome, Away, InstallPending, Swapped,
     Reverted, Whole, Pending
<1>4. LiveRunsWhole
  BY <1>0 DEF LiveRunsWhole, RuntimeMayStart, There, JournalTells, AtHome, Away, Whole
<1>5. StoredRunKept
  <2> SUFFICES ASSUME stray \in {"preparing", "candidate_ready"}
               PROVE  dir["live"].run \/ dir["candidate"].run \/ dir["rollback"].run
    BY DEF StoredRunKept, Directories
  <2> QED BY <1>0, <1>3 DEF OldRunsKept, StrayFollowed, JournalTells, Whole
<1> QED BY <1>1, <1>3, <1>4, <1>5 DEF RunsKept

-----------------------------------------------------------------------------
(* The types of the migration of a Session.                                *)

\* No text holds a turn that was not written, and nothing is kept of a
\* resumption that is over.
SessionBounded ==
    /\ edits.count <= MaxLegacyEdits
    /\ \A f \in SessionFiles : Exists(f) => session[f].turns \subseteq LegacyTurns
    /\ \A text \in backups : text.turns \subseteq LegacyTurns
    /\ move.pc = "idle" => move.source = NoSessionFile
    /\ move.pc # "idle" => move.source.turns \subseteq LegacyTurns

LEMMA BoundedText ==
    ASSUME NEW x, IsSessionText(x), x.turns \subseteq LegacyTurns
    PROVE  x \in AllTexts
<1>1. /\ x \in TextRecord /\ x.mode \in ModesOf(x.format)
      /\ x.goal \in IF x.format = "v1" THEN {"none", "working"} ELSE {"none", "checkpoint"}
  BY DEF IsSessionText
<1>2. x \in Texts(x.format)
  BY <1>1 DEF TextRecord, Texts
<1>3. x.format \in OldFormats \cup {"v5"}
  BY <1>1 DEF TextRecord
<1> QED BY <1>2, <1>3 DEF AllTexts

LEMMA SessionBoundedInit == SessionMigrationInit => SessionBounded
<1> SUFFICES ASSUME SessionMigrationInit PROVE SessionBounded
  OBVIOUS
<1>1. PICK format \in OldFormats : \E text :
          /\ text.turns = {0}
          /\ session = [f \in {"json", "jsonl", "candidate"} |->
                           IF f = FileOf(format) THEN text ELSE NoSessionFile]
  BY DEF SessionMigrationInit
<1>2. 0 \in LegacyTurns /\ 0 <= MaxLegacyEdits
  BY SessionMigrationAssumption DEF LegacyTurns
<1> QED BY <1>1, <1>2 DEF SessionMigrationInit, SessionBounded, SessionFiles, Exists

LEMMA SessionBoundedNext ==
    ASSUME SessionMigrationInv, SessionBounded, [SessionMigrationNext]_sessionMigrationVars
    PROVE  SessionBounded'
<1>1. /\ session \in [SessionFiles -> TextRecord \cup {NoSessionFile}]
      /\ move \in [pc : MoveSteps, source : TextRecord \cup {NoSessionFile}, failures : Nat]
      /\ edits \in [count : Nat, unseen : SUBSET Nat]
      /\ {"json", "jsonl", "candidate"} = SessionFiles
      /\ SourceThere
  BY DEF SessionMigrationInv, SessionTyped, SessionFiles
<1>2. CASE UNCHANGED sessionMigrationVars
  BY <1>2 DEF sessionMigrationVars, SessionBounded, Exists
<1>3. CASE Resume
  <2>1. /\ \E f \in SessionFiles : Exists(f) /\ move' = [move EXCEPT !.pc = "read", !.source = session[f]]
        /\ UNCHANGED <<session, backups, edits>>
    BY <1>3 DEF Resume, SessionFiles, Exists
  <2> QED BY <1>1, <2>1 DEF SessionBounded, Exists
<1>4. CASE Over /\ UNCHANGED <<session, backups, edits>>
  BY <1>1, <1>4 DEF Over, SessionBounded, Exists
<1>5. ASSUME NEW step, step # "idle", move.pc # "idle", GoOn(step), UNCHANGED <<session, edits>>,
             backups' \subseteq backups \cup {move.source}
      PROVE  SessionBounded'
  <2>1. move'.pc = step /\ move'.source = move.source
    BY <1>1, <1>5 DEF GoOn
  <2> QED BY <1>5, <2>1 DEF SessionBounded, Exists
<1>6. CASE ReadSource
  <2>1. CASE RaiseMoving
    BY <1>4, <2>1 DEF RaiseMoving
  <2>2. CASE ~RaiseMoving
    <3>1. move' = [move EXCEPT !.pc = "backup", !.source = session[Source]]
          /\ UNCHANGED <<session, backups, edits>>
      BY <1>6, <2>2 DEF ReadSource
    <3>2. Exists(Source) /\ Source \in SessionFiles
      BY <1>1, <1>6 DEF SessionFiles, FileOf, Source, Exists, ReadSource, SourceThere
    <3> QED BY <1>1, <3>1, <3>2 DEF SessionBounded, Exists
  <2> QED BY <2>1, <2>2
<1>7. CASE WriteBackup
  BY <1>5, <1>7 DEF WriteBackup
<1>8. CASE WriteCandidate
  <2>1. Converted(move.source).turns = move.source.turns
    BY <1>1 DEF Converted, ConvertedLegacy, ConvertedLines, TextRecord
  <2>2. /\ move'.pc = "recheck" /\ move'.source = move.source /\ move.pc = "candidate"
        /\ UNCHANGED <<backups, edits>>
        /\ \A f \in SessionFiles : session'[f] = session[f] \/ session'[f] = Converted(move.source)
    BY <1>1, <1>8 DEF WriteCandidate, GoOn
  <2> QED BY <2>1, <2>2 DEF SessionBounded, Exists
<1>9. CASE Recheck \/ LookBeforePromoting \/ LookBeforeRemoving
  BY <1>4, <1>5, <1>9 DEF Recheck, LookBeforePromoting, LookBeforeRemoving, RaiseMoving
<1>10. CASE Promote \/ RemoveLegacy
  <2>1. /\ move.pc # "idle" /\ UNCHANGED <<backups, edits>>
        /\ \/ move'.pc = "remove" /\ move'.source = move.source
           \/ move'.pc = "idle" /\ move'.source = NoSessionFile
        /\ \A f \in SessionFiles : session'[f] \in {session[f], session["candidate"], NoSessionFile}
    BY <1>1, <1>10 DEF Promote, RemoveLegacy, GoOn, Over
  <2> QED BY <1>1, <2>1 DEF SessionBounded, Exists
<1>11. CASE FailMoving
  BY <1>11 DEF FailMoving, SessionBounded, Exists
<1>12. edits.count < MaxLegacyEdits => edits.count + 1 \in LegacyTurns /\ edits.count + 1 <= MaxLegacyEdits
  <2> DEFINE count == edits.count
  <2>1. count \in Nat
    BY <1>1
  <2> HIDE DEF count
  <2>2. count < MaxLegacyEdits => count + 1 \in LegacyTurns /\ count + 1 <= MaxLegacyEdits
    BY <2>1, SessionMigrationAssumption DEF LegacyTurns
  <2> QED BY <2>2 DEF count
<1>13. ASSUME NEW e \in SessionFiles, EditSource(e) PROVE SessionBounded'
  <2>1. PICK torn \in BOOLEAN :
          session' = [session EXCEPT ![e].turns = @ \cup {edits.count + 1}, ![e].torn = torn]
    BY <1>13 DEF EditSource
  <2>2. session[e] \in TextRecord
    BY <1>1, <1>13 DEF EditSource, Exists
  <2>3. /\ \A f \in SessionFiles \ {e} : session'[f] = session[f]
        /\ session'[e].turns = session[e].turns \cup {edits.count + 1}
    BY <1>1, <2>1, <2>2 DEF TextRecord
  <2>4. edits'.count = edits.count + 1 /\ edits.count < MaxLegacyEdits /\ UNCHANGED <<backups, move>>
        /\ Exists(e)
    BY <1>13 DEF EditSource
  <2>5. \A f \in SessionFiles : session'[f] # NoSessionFile => session'[f].turns \subseteq LegacyTurns
    BY <1>12, <2>3, <2>4 DEF SessionBounded, Exists
  <2> QED BY <1>12, <2>4, <2>5 DEF SessionBounded, Exists
<1>14. CASE CreateSession
  <2>1. /\ edits'.count = edits.count + 1 /\ edits.count < MaxLegacyEdits /\ UNCHANGED <<backups, move>>
        /\ session'["jsonl"].turns = {edits.count + 1}
        /\ \A f \in SessionFiles \ {"jsonl"} : session'[f] = session[f]
    BY <1>1, <1>14 DEF CreateSession
  <2> QED BY <1>12, <2>1 DEF SessionBounded, Exists
<1>15. CASE EditSource("json") \/ EditSource("jsonl")
  BY <1>1, <1>13, <1>15
<1> QED BY <1>2, <1>3, <1>6, <1>7, <1>8, <1>9, <1>10, <1>11, <1>14, <1>15 DEF SessionMigrationNext, MoveStep

LEMMA SessionInvTypes == SessionMigrationInv /\ SessionBounded => SessionMigrationTypeOK
<1> SUFFICES ASSUME SessionTyped, SessionBounded PROVE SessionMigrationTypeOK
  BY DEF SessionMigrationInv
<1>1. DOMAIN session = SessionFiles
  BY DEF SessionTyped
<1>2. ASSUME NEW f \in SessionFiles, Exists(f) PROVE session[f] \in AllTexts
  BY <1>2, BoundedText DEF SessionTyped, SessionBounded, Exists
<1>3. backups \subseteq AllTexts
  BY BoundedText DEF SessionTyped, SessionBounded
<1>4. move.source \in AllTexts \cup {NoSessionFile}
  BY BoundedText DEF SessionTyped, SessionBounded
<1> QED BY <1>1, <1>2, <1>3, <1>4 DEF SessionMigrationTypeOK
=============================================================================
