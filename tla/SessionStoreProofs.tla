------------------------- MODULE SessionStoreProofs -------------------------
(***************************************************************************)
(* Theorems about SessionStore and SessionClone for every set of writers,  *)
(* models, modes, tools and plan texts, and every length of the file.      *)
(***************************************************************************)
EXTENDS SessionClone, FiniteSetTheorems, WellFoundedInduction, TLAPS

\* No message is lost to the model on any branch, active or not: the active
\* leaf moves to another branch with every rewind, so NothingForgotten alone
\* is not inductive.
Intact(l) ==
    \A n \in 0..Len(l) :
        /\ KeptEntryFound(l, n)
        /\ MessagesOn(l, PathTo(l, n)) \subseteq Shown(l, n) \cup Summarised(l, n)

\* The path of an entry is cut off at each of its members, so that what a
\* rewind to one of them abandons is what is not on the path of that member.
Nested(l) ==
    \A i \in DOMAIN l : \A j \in l[i].path :
        l[j].path = {k \in l[i].path : k <= j}

\* A branch summary in line b, two lines after the leaf that was abandoned.
TellsAbandoned(l, b, target, summary) ==
    /\ 2 < b /\ target \in 1..(b - 2)
    /\ summary = MessagesOn(l, PathTo(l, b - 2)) \ PathTo(l, target)

\* The strengthening of BranchSummaryComplete that every append preserves.
Told(l) ==
    /\ Nested(l)
    /\ \A b \in DOMAIN l : l[b].kind = "branch_summary" =>
          TellsAbandoned(l, b, l[b].data.target, l[b].data.summary)

Plans(l, n) == {i \in PathTo(l, n) : l[i].kind = "plan_artifact"}

\* The strengthening of PlanRevisionNamesOneText that every append preserves:
\* on every branch, no plan has a revision beyond the one in force.
Revised(l) ==
    \A n \in 0..Len(l) :
        /\ \A i \in Plans(l, n) : l[i].data.revision <= StateAt(l, n).revision
        /\ \A i, j \in Plans(l, n) :
              l[i].data.revision = l[j].data.revision => l[i].data.text = l[j].data.text

\* In plan mode, and only there, a state knows the mode to return to; at every
\* entry, since a rewind makes any of them the state in force.
Remembers(state) == (state.mode = "plan") = (state.pre # None)
Remembered(l) == \A n \in 0..Len(l) : Remembers(StateAt(l, n))

\* The first entry a compaction keeps is a message: it has a counterpart in a
\* clone.
KeepsMessages(l) ==
    \A c \in DOMAIN l : l[c].kind = "compaction" =>
        /\ l[c].data.kept \in 1..(c - 1)
        /\ l[l[c].data.kept].kind \in {"message", "tool_exchange"}

\* Every operation of the store leaves a file like this one: well formed, with
\* the lines it found still there, and intact, told, revised, remembered and
\* keeping messages if it was.
Extension(log1, log2) ==
    /\ WellFormed(log2)
    /\ Len(log1) <= Len(log2)
    /\ \A i \in 1..Len(log1) : log2[i] = log1[i]
    /\ Intact(log1) => Intact(log2)
    /\ Told(log1) => Told(log2)
    /\ Revised(log1) => Revised(log2)
    /\ Remembered(log1) => Remembered(log2)
    /\ KeepsMessages(log1) => KeepsMessages(log2)

\* The entries any operation may append; compactions need a plan, branch
\* summaries an abandoned branch, and plan texts a new revision.
PlainBodies ==
    {body \in Bodies : body.kind \notin {"compaction", "branch_summary", "plan_artifact"}}

FromPlan(l, p, body) == \E k \in Shown(l, p) : body = CompactionPlan(l, p, k)

FromBranch(l, body) ==
    Told(l) => TellsAbandoned(l, Len(l) + 1, body.data.target, body.data.summary)

NewRevision(l, p, body) == StateAt(l, p).revision < body.data.revision

-----------------------------------------------------------------------------
(* The operators of SessionTree *)

LEMMA BaseType == Base \in States
  BY SessionTreeAssumption DEF Base, States, NoRules, Rules

LEMMA StateAtType ==
  ASSUME NEW l, WellFormed(l), NEW n \in 0..Len(l)
  PROVE  StateAt(l, n) \in States /\ PathTo(l, n) \in SUBSET (1..n)
<1>1. CASE n = 0
  BY <1>1, BaseType DEF StateAt, PathTo
<1>2. CASE n # 0
  <2>1. n \in DOMAIN l
    BY <1>2 DEF WellFormed
  <2>2. l[n] \in Entries
    BY <2>1 DEF WellFormed
  <2> QED BY <1>2, <2>1, <2>2 DEF StateAt, PathTo, WellFormed, Entries
<1> QED BY <1>1, <1>2

LEMMA ApplyEntryType ==
  ASSUME NEW s \in States, NEW body \in Bodies, NEW i \in Nat
  PROVE  ApplyEntry(s, body, i) \in States
<1>1. CASE body.kind = "permission_mode_change"
  <2>1. body.data \in ModeData
    BY <1>1 DEF Bodies
  <2>2. ApplyMode(s, body.data) \in States
    BY <2>1 DEF ApplyMode, States, ModeData
  <2> QED BY <1>1, <2>2 DEF ApplyEntry
<1>2. CASE body.kind = "session_info"
  <2>1. body.data \in InfoData
    BY <1>2 DEF Bodies
  <2>2. ApplyInfo(s, body.data) \in States
    BY <2>1 DEF ApplyInfo, States, InfoData
  <2> QED BY <1>2, <2>2 DEF ApplyEntry
<1>3. CASE body.kind = "plan_artifact"
  <2>1. body.data \in PlanData
    BY <1>3 DEF Bodies
  <2> QED BY <1>3, <2>1, SessionTreeAssumption DEF ApplyEntry, States, PlanData
<1>4. CASE body.kind = "task_checkpoint"
  <2>1. body.data \in CheckpointData
    BY <1>4 DEF Bodies
  <2> QED BY <1>4, <2>1 DEF ApplyEntry, States, CheckpointData
<1>5. CASE body.kind \notin {"permission_mode_change", "session_info",
                             "plan_artifact", "task_checkpoint"}
  BY <1>5 DEF ApplyEntry
<1> QED BY <1>1, <1>2, <1>3, <1>4, <1>5

LEMMA BodyType ==
  ASSUME NEW body \in Bodies
  PROVE  /\ body.kind \in Kinds
         /\ body.data \in Data
         /\ [kind |-> body.kind, data |-> body.data] = body
  BY DEF Bodies, Kinds, Data

LEMMA AddWellFormed ==
  ASSUME NEW l, WellFormed(l), NEW p \in 0..Len(l), NEW body \in Bodies
  PROVE  /\ WellFormed(Add(l, p, body))
         /\ Len(Add(l, p, body)) = Len(l) + 1
         /\ \A j \in 1..Len(l) : Add(l, p, body)[j] = l[j]
         /\ Add(l, p, body)[Len(l) + 1].kind = body.kind
         /\ Add(l, p, body)[Len(l) + 1].data = body.data
         /\ Add(l, p, body)[Len(l) + 1].path = PathTo(l, p) \cup {Len(l) + 1}
         /\ Add(l, p, body)[Len(l) + 1].state
              = ApplyEntry(StateAt(l, p), body, Len(l) + 1)
<1> DEFINE i == Len(l) + 1
           entry == [parent |-> p, kind |-> body.kind, data |-> body.data,
                     path |-> PathTo(l, p) \cup {i},
                     state |-> ApplyEntry(StateAt(l, p), body, i)]
           e == Append(l, entry)
<1>1. l \in Seq(Entries) /\ Len(l) \in Nat
  BY DEF WellFormed
<1>2. StateAt(l, p) \in States /\ PathTo(l, p) \in SUBSET (1..p)
  BY StateAtType
<1>3. entry \in Entries
  <2>1. ApplyEntry(StateAt(l, p), body, i) \in States
    BY <1>1, <1>2, ApplyEntryType
  <2>2. PathTo(l, p) \cup {i} \in SUBSET Nat
    BY <1>1, <1>2
  <2>3. p \in Nat
    OBVIOUS
  <2> QED BY <2>1, <2>2, <2>3, BodyType DEF Entries
<1>4. /\ e \in Seq(Entries) /\ Len(e) = i
      /\ e[i] = entry
      /\ \A j \in 1..Len(l) : e[j] = l[j]
      /\ DOMAIN e = 1..i /\ DOMAIN l = 1..Len(l)
  BY <1>1, <1>3
<1>5. ASSUME NEW n \in 0..Len(l)
      PROVE  PathTo(e, n) = PathTo(l, n)
  BY <1>1, <1>4 DEF PathTo
<1>6. /\ [kind |-> entry.kind, data |-> entry.data] \in Bodies
      /\ entry.parent < i
      /\ entry.path = PathTo(e, entry.parent) \cup {i}
      /\ entry.path \subseteq 1..i
  <2>1. entry.path = PathTo(l, p) \cup {i} /\ entry.parent = p
    OBVIOUS
  <2>2. entry.path = PathTo(e, entry.parent) \cup {i}
    BY <1>5, <2>1
  <2>3. p < i /\ PathTo(l, p) \cup {i} \subseteq 1..i
    BY <1>1, <1>2
  <2> QED BY <2>1, <2>2, <2>3, BodyType
<1>7. Add(l, p, body) = e
  BY DEF Add
<1>10. /\ entry.kind = body.kind /\ entry.data = body.data
       /\ entry.path = PathTo(l, p) \cup {Len(l) + 1}
       /\ entry.state = ApplyEntry(StateAt(l, p), body, Len(l) + 1)
  OBVIOUS
<1> HIDE DEF e, entry
<1>8. ASSUME NEW j \in DOMAIN e
      PROVE  /\ [kind |-> e[j].kind, data |-> e[j].data] \in Bodies
             /\ e[j].parent < j
             /\ e[j].path = PathTo(e, e[j].parent) \cup {j}
             /\ e[j].path \subseteq 1..j
  <2>1. CASE j \in 1..Len(l)
    <3>1. j \in DOMAIN l /\ e[j] = l[j]
      BY <1>4, <2>1
    <3>2. l[j] \in Entries
      BY <1>1, <3>1
    <3>3. /\ [kind |-> l[j].kind, data |-> l[j].data] \in Bodies
          /\ l[j].parent < j
          /\ l[j].path = PathTo(l, l[j].parent) \cup {j}
          /\ l[j].path \subseteq 1..j
      BY <3>1 DEF WellFormed
    <3>4. l[j].parent \in 0..Len(l)
      BY <1>1, <2>1, <3>2, <3>3 DEF Entries
    <3> QED BY <1>5, <3>1, <3>3, <3>4
  <2>2. CASE j = i
    BY <1>4, <1>6, <2>2
  <2> QED BY <1>1, <1>4, <2>1, <2>2
<1>9. WellFormed(e)
  BY <1>4, <1>8 DEF WellFormed
<1> QED BY <1>1, <1>4, <1>7, <1>9, <1>10

\* What a reader sees at an entry depends on the lines up to it.
LEMMA ViewOfPrefix ==
  ASSUME NEW l, WellFormed(l), NEW e, WellFormed(e), Len(l) <= Len(e),
         \A j \in 1..Len(l) : e[j] = l[j], NEW n \in 0..Len(l)
  PROVE  /\ PathTo(e, n) = PathTo(l, n)
         /\ PathTo(l, n) \subseteq 1..Len(l)
         /\ MessagesOn(e, PathTo(e, n)) = MessagesOn(l, PathTo(l, n))
         /\ NewestCompaction(e, n) = NewestCompaction(l, n)
         /\ Shown(e, n) = Shown(l, n)
         /\ Summarised(e, n) = Summarised(l, n)
         /\ KeptEntryFound(e, n) <=> KeptEntryFound(l, n)
<1>1. Len(l) \in Nat
  BY DEF WellFormed
<1>2. PathTo(e, n) = PathTo(l, n)
  BY <1>1 DEF PathTo
<1>3. PathTo(l, n) \subseteq 1..Len(l)
  BY <1>1, StateAtType
<1>4. MessagesOn(e, PathTo(e, n)) = MessagesOn(l, PathTo(l, n))
  BY <1>2, <1>3 DEF MessagesOn
<1>5. NewestCompaction(e, n) = NewestCompaction(l, n)
  BY <1>2, <1>3 DEF NewestCompaction
<1>6. ASSUME NEW c \in NewestCompaction(l, n)
      PROVE  e[c] = l[c]
  BY <1>3 DEF NewestCompaction
<1>7. Shown(e, n) = Shown(l, n)
  BY <1>4, <1>5, <1>6 DEF Shown
<1>8. Summarised(e, n) = Summarised(l, n)
  BY <1>5, <1>6 DEF Summarised
<1>9. KeptEntryFound(e, n) <=> KeptEntryFound(l, n)
  BY <1>2, <1>5, <1>6 DEF KeptEntryFound
<1> QED BY <1>2, <1>3, <1>4, <1>5, <1>7, <1>8, <1>9

LEMMA PrefixIntact ==
  ASSUME NEW l, WellFormed(l), NEW e, WellFormed(e), Len(l) <= Len(e),
         \A j \in 1..Len(l) : e[j] = l[j], Intact(e)
  PROVE  Intact(l)
<1>1. Len(l) \in Nat /\ Len(e) \in Nat
  BY DEF WellFormed
<1>2. ASSUME NEW n \in 0..Len(l)
      PROVE  /\ KeptEntryFound(l, n)
             /\ MessagesOn(l, PathTo(l, n)) \subseteq Shown(l, n) \cup Summarised(l, n)
  <2>1. n \in 0..Len(e)
    BY <1>1
  <2> QED BY <2>1, ViewOfPrefix DEF Intact
<1> QED BY <1>2 DEF Intact

\* A line that is not a compaction hides nothing that was shown; a planned
\* compaction summarises what it hides.
LEMMA AddKeepsIntact ==
  ASSUME NEW l, WellFormed(l), NEW p \in 0..Len(l), NEW body \in Bodies,
         body.kind = "compaction" => FromPlan(l, p, body), Intact(l)
  PROVE  Intact(Add(l, p, body))
<1> DEFINE i == Len(l) + 1
           e == Add(l, p, body)
           P == PathTo(l, p)
<1>1. /\ WellFormed(e) /\ Len(e) = i /\ Len(l) \in Nat
      /\ \A j \in 1..Len(l) : e[j] = l[j]
      /\ e[i].kind = body.kind /\ e[i].data = body.data
      /\ e[i].path = P \cup {i}
  <2>1. Len(l) \in Nat
    BY DEF WellFormed
  <2> QED BY <2>1, AddWellFormed
<1> HIDE DEF e
<1>2. ASSUME NEW n \in 0..Len(l)
      PROVE  /\ KeptEntryFound(e, n)
             /\ MessagesOn(e, PathTo(e, n)) \subseteq Shown(e, n) \cup Summarised(e, n)
  BY <1>1, ViewOfPrefix DEF Intact
<1>3. P \subseteq 1..Len(l) /\ PathTo(e, i) = P \cup {i}
  <2>1. P \subseteq 1..p
    BY StateAtType
  <2> QED BY <1>1, <2>1 DEF PathTo
<1>4. /\ KeptEntryFound(l, p)
      /\ MessagesOn(l, P) \subseteq Shown(l, p) \cup Summarised(l, p)
  BY DEF Intact
<1> HIDE DEF P
<1>5. MessagesOn(e, P \cup {i}) \subseteq MessagesOn(l, P) \cup {i}
  BY <1>1, <1>3 DEF MessagesOn
<1>6. ASSUME body.kind # "compaction"
      PROVE  /\ KeptEntryFound(e, i)
             /\ MessagesOn(e, PathTo(e, i)) \subseteq Shown(e, i) \cup Summarised(e, i)
  <2>1. NewestCompaction(e, i) = NewestCompaction(l, p)
    BY <1>1, <1>3, <1>6 DEF NewestCompaction, P
  <2>2. ASSUME NEW c \in NewestCompaction(l, p)
        PROVE  /\ c \in P /\ e[c] = l[c]
               /\ l[c].data.kept \in P /\ l[c].data.kept < c
               /\ l[c].data.kept \in 1..Len(l)
    <3>1. c \in P
      BY DEF NewestCompaction, P
    <3> QED BY <1>1, <1>3, <1>4, <3>1 DEF KeptEntryFound, P
  <2>3. KeptEntryFound(e, i)
    BY <1>3, <2>1, <2>2 DEF KeptEntryFound
  <2>4. Summarised(e, i) = Summarised(l, p)
    BY <2>1, <2>2 DEF Summarised
  <2>5. ASSUME NEW m \in MessagesOn(e, P \cup {i})
        PROVE  m \in Shown(e, i) \cup Summarised(e, i)
    <3>1. CASE m = i
      <4>1. \A c \in NewestCompaction(e, i) : e[c].data.kept <= m
        BY <1>1, <2>1, <2>2, <3>1
      <4> QED BY <1>3, <4>1 DEF Shown
    <3>2. CASE m \in MessagesOn(l, P)
      <4>1. m \in Shown(l, p) \/ m \in Summarised(l, p)
        BY <1>4, <3>2
      <4>2. CASE m \in Shown(l, p)
        <5>1. \A c \in NewestCompaction(e, i) : e[c].data.kept <= m
          BY <2>1, <2>2, <4>2 DEF Shown
        <5> QED BY <1>3, <5>1 DEF Shown
      <4>3. CASE m \in Summarised(l, p)
        BY <2>4, <4>3
      <4> QED BY <4>1, <4>2, <4>3
    <3> QED BY <1>5, <3>1, <3>2
  <2> QED BY <1>3, <2>3, <2>5
<1>7. ASSUME body.kind = "compaction"
      PROVE  /\ KeptEntryFound(e, i)
             /\ MessagesOn(e, PathTo(e, i)) \subseteq Shown(e, i) \cup Summarised(e, i)
  <2>1. PICK k \in Shown(l, p) : body = CompactionPlan(l, p, k)
    BY <1>7 DEF FromPlan
  <2>2. NewestCompaction(e, i) = {i}
    <3>1. i \in PathTo(e, i) /\ e[i].kind = "compaction"
      BY <1>1, <1>3, <1>7
    <3>2. PathTo(e, i) \subseteq 1..i /\ i \in Nat
      <4>1. Len(l) + 1 \in Nat /\ 1..Len(l) \cup {Len(l) + 1} \subseteq 1..(Len(l) + 1)
        BY <1>1
      <4> QED BY <1>3, <4>1
    <3> HIDE DEF i
    <3>3. \A d \in PathTo(e, i) : d <= i /\ (i <= d => d = i)
      BY <3>2
    <3> QED BY <3>1, <3>3 DEF NewestCompaction
  <2>3. /\ e[i].data.kept = k
        /\ e[i].data.summary = Summarised(l, p) \cup {j \in Shown(l, p) : j < k}
    BY <1>1, <2>1 DEF CompactionPlan, Compaction
  <2>4. k \in P /\ k < i /\ Shown(l, p) \subseteq P
    BY <1>1, <1>3 DEF Shown, MessagesOn, P
  <2>5. KeptEntryFound(e, i)
    BY <1>3, <2>2, <2>3, <2>4 DEF KeptEntryFound
  <2>6. Summarised(e, i) = Summarised(l, p) \cup {j \in Shown(l, p) : j < k}
    BY <2>2, <2>3 DEF Summarised
  <2>7. ASSUME NEW m \in MessagesOn(e, P \cup {i})
        PROVE  m \in Shown(e, i) \cup Summarised(e, i)
    <3>1. m # i
      BY <1>1, <1>7 DEF MessagesOn
    <3>2. m \in Shown(l, p) \/ m \in Summarised(l, p)
      BY <1>4, <1>5, <3>1
    <3>3. CASE m \in Shown(l, p) /\ k <= m
      BY <1>3, <2>2, <2>3, <3>3 DEF Shown
    <3>4. CASE m \in Shown(l, p) /\ m < k
      BY <2>6, <3>4
    <3>5. m \in Shown(l, p) => m \in Nat /\ k \in Nat
      BY <1>3, <2>4
    <3> QED BY <2>6, <3>2, <3>3, <3>4, <3>5
  <2> QED BY <1>3, <2>5, <2>7
<1>8. Intact(e)
  <2>1. 0..Len(e) = 0..Len(l) \cup {i}
    BY <1>1
  <2> QED BY <1>2, <1>6, <1>7, <2>1 DEF Intact
<1> QED BY <1>8 DEF e

\* A path through an added entry nests as the path of its parent does.
LEMMA AddKeepsNested ==
  ASSUME NEW l, WellFormed(l), NEW p \in 0..Len(l), NEW body \in Bodies, Nested(l)
  PROVE  Nested(Add(l, p, body))
<1> DEFINE i == Len(l) + 1
           e == Add(l, p, body)
           P == PathTo(l, p)
<1>1. /\ WellFormed(e) /\ Len(e) = i /\ Len(l) \in Nat
      /\ \A j \in 1..Len(l) : e[j] = l[j]
      /\ e[i].path = P \cup {i}
  <2>1. Len(l) \in Nat
    BY DEF WellFormed
  <2> QED BY <2>1, AddWellFormed
<1> HIDE DEF e
<1>2. DOMAIN e = 1..i /\ DOMAIN l = 1..Len(l)
  BY <1>1 DEF WellFormed
<1>3. P \in SUBSET (1..p) /\ 1..p \subseteq 1..Len(l)
  BY <1>1, StateAtType
<1>4. ASSUME NEW j \in P
      PROVE  j \in 1..Len(l) /\ l[j].path = {k \in P : k <= j}
  <2>1. p # 0 /\ p \in DOMAIN l /\ P = l[p].path
    BY <1>1, <1>2, <1>4 DEF PathTo
  <2> QED BY <1>3, <1>4, <2>1 DEF Nested
<1> HIDE DEF P
<1>5. ASSUME NEW m \in DOMAIN e, NEW j \in e[m].path
      PROVE  e[j].path = {k \in e[m].path : k <= j}
  <2>1. CASE m \in 1..Len(l)
    <3>1. e[m] = l[m] /\ m \in DOMAIN l /\ j \in l[m].path
      BY <1>1, <1>2, <1>5, <2>1
    <3>2. l[m].path \subseteq 1..m
      BY <3>1 DEF WellFormed
    <3>3. j \in 1..Len(l)
      BY <1>1, <2>1, <3>1, <3>2
    <3>4. e[j] = l[j]
      BY <1>1, <3>3
    <3> QED BY <3>1, <3>4 DEF Nested
  <2>2. CASE m = i /\ j = i
    <3>1. \A k \in P \cup {i} : k <= i
      BY <1>1, <1>3
    <3> QED BY <1>1, <2>2, <3>1
  <2>3. CASE m = i /\ j \in P
    <3>1. e[j].path = {k \in P : k <= j} /\ ~(i <= j)
      BY <1>1, <1>4, <2>3
    <3> HIDE DEF i
    <3> QED BY <1>1, <2>3, <3>1
  <2>4. m \in 1..Len(l) \/ m = i
    BY <1>1, <1>2
  <2> QED BY <1>1, <2>1, <2>2, <2>3, <2>4
<1> QED BY <1>5 DEF Nested, e

\* What a branch summary tells depends on the lines before it.
LEMMA TellsInPrefix ==
  ASSUME NEW l, WellFormed(l), NEW e, WellFormed(e), Len(l) <= Len(e),
         \A j \in 1..Len(l) : e[j] = l[j],
         NEW b \in 1..(Len(l) + 1), NEW target, NEW summary
  PROVE  TellsAbandoned(e, b, target, summary) <=> TellsAbandoned(l, b, target, summary)
<1>1. Len(l) \in Nat
  BY DEF WellFormed
<1> SUFFICES ASSUME 2 < b, target \in 1..(b - 2)
             PROVE  /\ MessagesOn(e, PathTo(e, b - 2)) = MessagesOn(l, PathTo(l, b - 2))
                    /\ PathTo(e, target) = PathTo(l, target)
  BY DEF TellsAbandoned
<1>2. b - 2 \in 0..Len(l) /\ target \in 0..Len(l)
  BY <1>1
<1> QED BY <1>2, ViewOfPrefix

LEMMA PrefixTold ==
  ASSUME NEW l, WellFormed(l), NEW e, WellFormed(e), Len(l) <= Len(e),
         \A j \in 1..Len(l) : e[j] = l[j], Told(e)
  PROVE  Told(l)
<1>1. /\ Len(l) \in Nat /\ Len(e) \in Nat
      /\ DOMAIN l = 1..Len(l) /\ DOMAIN e = 1..Len(e)
  BY DEF WellFormed
<1>2. ASSUME NEW i \in DOMAIN l, NEW j \in l[i].path
      PROVE  l[j].path = {k \in l[i].path : k <= j}
  <2>1. l[i].path \subseteq 1..i
    BY DEF WellFormed
  <2>2. i \in DOMAIN e /\ e[i] = l[i] /\ j \in 1..Len(l)
    BY <1>1, <1>2, <2>1
  <2> QED BY <2>2 DEF Told, Nested
<1>3. ASSUME NEW b \in DOMAIN l, l[b].kind = "branch_summary"
      PROVE  TellsAbandoned(l, b, l[b].data.target, l[b].data.summary)
  <2>1. b \in DOMAIN e /\ e[b] = l[b] /\ b \in 1..(Len(l) + 1)
    BY <1>1
  <2>2. TellsAbandoned(e, b, l[b].data.target, l[b].data.summary)
    BY <1>3, <2>1 DEF Told
  <2> QED BY <2>1, <2>2, TellsInPrefix
<1> QED BY <1>2, <1>3 DEF Told, Nested

LEMMA AddKeepsTold ==
  ASSUME NEW l, WellFormed(l), NEW p \in 0..Len(l), NEW body \in Bodies,
         body.kind = "branch_summary" => FromBranch(l, body), Told(l)
  PROVE  Told(Add(l, p, body))
<1> DEFINE i == Len(l) + 1
           e == Add(l, p, body)
<1>1. /\ WellFormed(e) /\ Len(e) = i /\ Len(l) \in Nat
      /\ \A j \in 1..Len(l) : e[j] = l[j]
      /\ e[i].kind = body.kind /\ e[i].data = body.data
  <2>1. Len(l) \in Nat
    BY DEF WellFormed
  <2> QED BY <2>1, AddWellFormed
<1>2. Nested(e)
  BY AddKeepsNested DEF Told
<1> HIDE DEF e
<1>3. DOMAIN e = 1..i /\ DOMAIN l = 1..Len(l)
  BY <1>1 DEF WellFormed
<1>4. ASSUME NEW b \in DOMAIN e, e[b].kind = "branch_summary"
      PROVE  TellsAbandoned(e, b, e[b].data.target, e[b].data.summary)
  <2>1. b \in 1..(Len(l) + 1) /\ Len(l) <= Len(e)
    BY <1>1, <1>3
  <2>2. CASE b \in 1..Len(l)
    <3>1. e[b] = l[b] /\ b \in DOMAIN l
      BY <1>1, <1>3, <2>2
    <3>2. TellsAbandoned(l, b, e[b].data.target, e[b].data.summary)
      BY <1>4, <3>1 DEF Told
    <3> QED BY <1>1, <2>1, <3>2, TellsInPrefix
  <2>3. CASE b = i
    <3>1. TellsAbandoned(l, b, e[b].data.target, e[b].data.summary)
      BY <1>1, <1>4, <2>3 DEF FromBranch
    <3> QED BY <1>1, <2>1, <3>1, TellsInPrefix
  <2> QED BY <1>1, <2>1, <2>2, <2>3
<1> QED BY <1>2, <1>4 DEF Told, e

\* Only a plan text changes the revision.
LEMMA ApplyKeepsRevision ==
  ASSUME NEW s \in States, NEW body \in Bodies, NEW i \in Nat
  PROVE  /\ body.kind # "plan_artifact" => ApplyEntry(s, body, i).revision = s.revision
         /\ body.kind = "plan_artifact" =>
              ApplyEntry(s, body, i).revision = body.data.revision
<1>1. CASE body.kind = "permission_mode_change"
  BY <1>1 DEF ApplyEntry, ApplyMode, States
<1>2. CASE body.kind = "session_info"
  BY <1>2 DEF ApplyEntry, ApplyInfo, States
<1>3. CASE body.kind = "plan_artifact"
  BY <1>3 DEF ApplyEntry, States
<1>4. CASE body.kind = "task_checkpoint"
  BY <1>4 DEF ApplyEntry, States
<1>5. CASE body.kind \notin {"permission_mode_change", "session_info",
                             "plan_artifact", "task_checkpoint"}
  BY <1>5 DEF ApplyEntry
<1> QED BY <1>1, <1>2, <1>3, <1>4, <1>5

\* The plans in force at an entry depend on the lines up to it.
LEMMA PlansInPrefix ==
  ASSUME NEW l, WellFormed(l), NEW e, WellFormed(e), Len(l) <= Len(e),
         \A j \in 1..Len(l) : e[j] = l[j], NEW n \in 0..Len(l)
  PROVE  /\ Plans(e, n) = Plans(l, n)
         /\ StateAt(e, n) = StateAt(l, n)
         /\ \A i \in Plans(l, n) : e[i] = l[i]
<1>1. Len(l) \in Nat
  BY DEF WellFormed
<1>2. PathTo(e, n) = PathTo(l, n) /\ PathTo(l, n) \subseteq 1..Len(l)
  BY ViewOfPrefix
<1>3. StateAt(e, n) = StateAt(l, n)
  BY <1>1 DEF StateAt
<1> QED BY <1>2, <1>3 DEF Plans

LEMMA PrefixRevised ==
  ASSUME NEW l, WellFormed(l), NEW e, WellFormed(e), Len(l) <= Len(e),
         \A j \in 1..Len(l) : e[j] = l[j], Revised(e)
  PROVE  Revised(l)
<1>1. Len(l) \in Nat /\ Len(e) \in Nat
  BY DEF WellFormed
<1>2. ASSUME NEW n \in 0..Len(l)
      PROVE  /\ \A i \in Plans(l, n) : l[i].data.revision <= StateAt(l, n).revision
             /\ \A i, j \in Plans(l, n) :
                  l[i].data.revision = l[j].data.revision => l[i].data.text = l[j].data.text
  <2>1. n \in 0..Len(e)
    BY <1>1
  <2> QED BY <2>1, PlansInPrefix DEF Revised
<1> QED BY <1>2 DEF Revised

LEMMA AddKeepsRevised ==
  ASSUME NEW l, WellFormed(l), NEW p \in 0..Len(l), NEW body \in Bodies,
         body.kind = "plan_artifact" => NewRevision(l, p, body), Revised(l)
  PROVE  Revised(Add(l, p, body))
<1> DEFINE i == Len(l) + 1
           e == Add(l, p, body)
           before == StateAt(l, p).revision
           after == StateAt(e, i).revision
<1>1. /\ WellFormed(e) /\ Len(e) = i /\ Len(l) \in Nat
      /\ \A j \in 1..Len(l) : e[j] = l[j]
      /\ e[i].kind = body.kind /\ e[i].data = body.data
      /\ e[i].path = PathTo(l, p) \cup {i}
      /\ e[i].state = ApplyEntry(StateAt(l, p), body, i)
  <2>1. Len(l) \in Nat
    BY DEF WellFormed
  <2> QED BY <2>1, AddWellFormed
<1>2. /\ StateAt(l, p) \in States
      /\ PathTo(l, p) \subseteq 1..Len(l) /\ PathTo(e, i) = PathTo(l, p) \cup {i}
      /\ StateAt(e, i) = ApplyEntry(StateAt(l, p), body, i)
  <2>1. StateAt(l, p) \in States /\ PathTo(l, p) \subseteq 1..p
    BY StateAtType
  <2> QED BY <1>1, <2>1 DEF PathTo, StateAt
<1> HIDE DEF e
<1>3. ASSUME NEW n \in 0..Len(l)
      PROVE  /\ \A m \in Plans(e, n) : e[m].data.revision <= StateAt(e, n).revision
             /\ \A m, j \in Plans(e, n) :
                  e[m].data.revision = e[j].data.revision => e[m].data.text = e[j].data.text
  <2>1. /\ Plans(e, n) = Plans(l, n) /\ StateAt(e, n) = StateAt(l, n)
        /\ \A m \in Plans(l, n) : e[m] = l[m]
    BY <1>1, PlansInPrefix
  <2> QED BY <2>1 DEF Revised
<1>4. /\ \A m \in Plans(l, p) : e[m] = l[m]
      /\ Plans(l, p) \subseteq Plans(e, i)
      /\ body.kind # "plan_artifact" => Plans(e, i) = Plans(l, p)
      /\ body.kind = "plan_artifact" => Plans(e, i) = Plans(l, p) \cup {i}
  BY <1>1, <1>2 DEF Plans
<1>5. /\ before \in Nat
      /\ body.kind # "plan_artifact" => after = before
      /\ body.kind = "plan_artifact" => after = body.data.revision /\ before < after
  <2>1. i \in Nat
    BY <1>1
  <2>2. before \in Nat
    BY <1>2 DEF States
  <2> QED BY <1>2, <2>1, <2>2, ApplyKeepsRevision DEF NewRevision
<1>6. body.kind = "plan_artifact" => body.data.revision \in Nat
  BY DEF Bodies, PlanData
<1>7. ASSUME NEW m \in Plans(l, p)
      PROVE  l[m].data.revision \in Nat /\ l[m].data.revision <= before
  <2>1. m \in DOMAIN l /\ l[m].kind = "plan_artifact"
    BY <1>2 DEF Plans, WellFormed
  <2>2. [kind |-> l[m].kind, data |-> l[m].data] \in Bodies
    BY <2>1 DEF WellFormed
  <2>3. l[m].data \in PlanData
    BY <2>1, <2>2 DEF Bodies
  <2> QED BY <2>3 DEF Revised, PlanData
<1> HIDE DEF before, after
<1>8. ASSUME NEW m \in Plans(e, i)
      PROVE  e[m].data.revision <= after
  <2>1. CASE m \in Plans(l, p)
    BY <1>4, <1>5, <1>6, <1>7, <2>1, SMTT(30)
  <2>2. CASE body.kind = "plan_artifact" /\ m = i
    BY <1>1, <1>5, <1>6, <2>2
  <2> QED BY <1>4, <2>1, <2>2
<1>9. ASSUME NEW m \in Plans(e, i), NEW j \in Plans(e, i),
             e[m].data.revision = e[j].data.revision
      PROVE  e[m].data.text = e[j].data.text
  <2>1. CASE m \in Plans(l, p) /\ j \in Plans(l, p)
    BY <1>4, <1>9, <2>1 DEF Revised
  <2>2. ASSUME body.kind = "plan_artifact", NEW k \in Plans(l, p)
        PROVE  e[k].data.revision # e[i].data.revision
    BY <1>1, <1>4, <1>5, <1>6, <1>7, <2>2
  <2> QED BY <1>4, <1>9, <2>1, <2>2
<1>10. 0..Len(e) = 0..Len(l) \cup {i}
  BY <1>1
<1> QED BY <1>3, <1>8, <1>9, <1>10 DEF Revised, e, after

LEMMA ApplyRemembers ==
  ASSUME NEW s \in States, NEW body \in Bodies, NEW i \in Nat, Remembers(s)
  PROVE  Remembers(ApplyEntry(s, body, i))
<1>1. CASE body.kind = "permission_mode_change"
  <2>1. body.data.mode \in Modes /\ s.mode \in Modes /\ None \notin Modes
    BY <1>1, SessionTreeAssumption DEF Bodies, ModeData, States
  <2>2. ApplyEntry(s, body, i) = ApplyMode(s, body.data)
    BY <1>1 DEF ApplyEntry
  <2>3. /\ ApplyMode(s, body.data).mode = body.data.mode
        /\ ApplyMode(s, body.data).pre =
             IF body.data.mode = "plan" /\ s.mode # "plan"
             THEN IF body.data.pre = None THEN s.mode ELSE body.data.pre
             ELSE IF body.data.mode # "plan" /\ s.mode = "plan" THEN None ELSE s.pre
    BY DEF ApplyMode, States
  <2> QED BY <2>1, <2>2, <2>3 DEF Remembers
<1>2. CASE body.kind # "permission_mode_change"
  <2>1. ApplyEntry(s, body, i).mode = s.mode /\ ApplyEntry(s, body, i).pre = s.pre
    BY <1>2 DEF ApplyEntry, ApplyInfo, States
  <2> QED BY <2>1 DEF Remembers
<1> QED BY <1>1, <1>2

LEMMA PrefixRemembered ==
  ASSUME NEW l, WellFormed(l), NEW e, WellFormed(e), Len(l) <= Len(e),
         \A j \in 1..Len(l) : e[j] = l[j], Remembered(e)
  PROVE  Remembered(l)
<1>1. Len(l) \in Nat /\ Len(e) \in Nat
  BY DEF WellFormed
<1>2. ASSUME NEW n \in 0..Len(l)
      PROVE  Remembers(StateAt(l, n))
  <2>1. n \in 0..Len(e) /\ StateAt(e, n) = StateAt(l, n)
    BY <1>1 DEF StateAt
  <2> QED BY <2>1 DEF Remembered
<1> QED BY <1>2 DEF Remembered

LEMMA AddKeepsRemembered ==
  ASSUME NEW l, WellFormed(l), NEW p \in 0..Len(l), NEW body \in Bodies, Remembered(l)
  PROVE  Remembered(Add(l, p, body))
<1> DEFINE e == Add(l, p, body)
<1>1. /\ Len(l) \in Nat /\ Len(e) = Len(l) + 1
      /\ \A j \in 1..Len(l) : e[j] = l[j]
      /\ e[Len(l) + 1].state = ApplyEntry(StateAt(l, p), body, Len(l) + 1)
  <2>1. Len(l) \in Nat
    BY DEF WellFormed
  <2> QED BY <2>1, AddWellFormed
<1> HIDE DEF e
<1>2. Remembers(StateAt(e, Len(l) + 1))
  <2>1. Remembers(ApplyEntry(StateAt(l, p), body, Len(l) + 1))
    BY <1>1, StateAtType, ApplyRemembers DEF Remembered
  <2> QED BY <1>1, <2>1 DEF StateAt
<1>3. ASSUME NEW n \in 0..Len(l)
      PROVE  Remembers(StateAt(e, n))
  BY <1>1 DEF Remembered, StateAt
<1>4. 0..Len(e) = 0..Len(l) \cup {Len(l) + 1}
  BY <1>1
<1> QED BY <1>2, <1>3, <1>4 DEF Remembered, e

LEMMA PrefixKeepsMessages ==
  ASSUME NEW l, WellFormed(l), NEW e, WellFormed(e), Len(l) <= Len(e),
         \A j \in 1..Len(l) : e[j] = l[j], KeepsMessages(e)
  PROVE  KeepsMessages(l)
<1>1. Len(l) \in Nat /\ Len(e) \in Nat /\ DOMAIN l = 1..Len(l) /\ DOMAIN e = 1..Len(e)
  BY DEF WellFormed
<1>2. ASSUME NEW c \in DOMAIN l, l[c].kind = "compaction"
      PROVE  l[c].data.kept \in 1..(c - 1) /\ l[l[c].data.kept].kind \in {"message", "tool_exchange"}
  <2>1. c \in DOMAIN e /\ e[c] = l[c]
    BY <1>1
  <2>2. l[c].data.kept \in 1..(c - 1) /\ e[l[c].data.kept].kind \in {"message", "tool_exchange"}
    BY <1>2, <2>1 DEF KeepsMessages
  <2>3. l[c].data.kept \in 1..Len(l)
    BY <1>1, <2>2
  <2> QED BY <2>2, <2>3
<1> QED BY <1>2 DEF KeepsMessages

LEMMA AddKeepsMessages ==
  ASSUME NEW l, WellFormed(l), NEW p \in 0..Len(l), NEW body \in Bodies,
         body.kind = "compaction" => FromPlan(l, p, body), KeepsMessages(l)
  PROVE  KeepsMessages(Add(l, p, body))
<1> DEFINE e == Add(l, p, body)
           i == Len(l) + 1
<1>1. /\ Len(l) \in Nat /\ Len(e) = i /\ DOMAIN l = 1..Len(l) /\ DOMAIN e = 1..i
      /\ \A j \in 1..Len(l) : e[j] = l[j]
      /\ e[i].kind = body.kind /\ e[i].data = body.data
  <2>1. Len(l) \in Nat /\ DOMAIN l = 1..Len(l)
    BY DEF WellFormed
  <2>2. /\ WellFormed(e) /\ Len(e) = i
        /\ \A j \in 1..Len(l) : e[j] = l[j]
        /\ e[i].kind = body.kind /\ e[i].data = body.data
    BY AddWellFormed
  <2>3. DOMAIN e = 1..i
    BY <2>2 DEF WellFormed
  <2> QED BY <2>1, <2>2, <2>3
<1> HIDE DEF e
<1>2. ASSUME body.kind = "compaction"
      PROVE  body.data.kept \in 1..Len(l) /\ l[body.data.kept].kind \in {"message", "tool_exchange"}
  <2>1. PICK k \in Shown(l, p) : body = CompactionPlan(l, p, k)
    BY <1>2 DEF FromPlan
  <2>2. body.data.kept = k
    BY <2>1 DEF CompactionPlan, Compaction
  <2>3. k \in PathTo(l, p) /\ l[k].kind \in {"message", "tool_exchange"}
    BY DEF Shown, MessagesOn
  <2>4. PathTo(l, p) \subseteq 1..p
    BY StateAtType
  <2> QED BY <1>1, <2>2, <2>3, <2>4
<1>3. ASSUME NEW c \in DOMAIN e, e[c].kind = "compaction"
      PROVE  e[c].data.kept \in 1..(c - 1) /\ e[e[c].data.kept].kind \in {"message", "tool_exchange"}
  <2>1. CASE c = i
    <3>1. body.data.kept \in 1..Len(l) /\ l[body.data.kept].kind \in {"message", "tool_exchange"}
      BY <1>1, <1>2, <1>3, <2>1
    <3>2. body.data.kept \in 1..(i - 1) /\ e[body.data.kept] = l[body.data.kept]
      BY <1>1, <3>1
    <3> QED BY <1>1, <2>1, <3>1, <3>2
  <2>2. CASE c # i
    <3>1. c \in 1..Len(l) /\ e[c] = l[c]
      BY <1>1, <2>2
    <3>2. l[c].data.kept \in 1..(c - 1) /\ l[l[c].data.kept].kind \in {"message", "tool_exchange"}
      BY <1>1, <1>3, <3>1 DEF KeepsMessages
    <3>3. e[l[c].data.kept] = l[l[c].data.kept]
      BY <1>1, <3>1, <3>2
    <3> QED BY <1>1, <3>1, <3>2, <3>3
  <2> QED BY <2>1, <2>2
<1> QED BY <1>3 DEF KeepsMessages, e

LEMMA AddPlanned ==
  ASSUME NEW l, WellFormed(l), NEW p \in 0..Len(l), NEW body \in Bodies,
         body.kind = "compaction" => FromPlan(l, p, body),
         body.kind = "branch_summary" => FromBranch(l, body),
         body.kind = "plan_artifact" => NewRevision(l, p, body)
  PROVE  /\ Extension(l, Add(l, p, body))
         /\ Len(Add(l, p, body)) = Len(l) + 1
<1>1. Len(l) \in Nat
  BY DEF WellFormed
<1> QED BY <1>1, AddWellFormed, AddKeepsIntact, AddKeepsTold, AddKeepsRevised,
       AddKeepsRemembered, AddKeepsMessages DEF Extension

LEMMA AddExtends ==
  ASSUME NEW l, WellFormed(l), NEW p \in 0..Len(l), NEW body \in PlainBodies
  PROVE  /\ Extension(l, Add(l, p, body))
         /\ Len(Add(l, p, body)) = Len(l) + 1
  BY AddPlanned DEF PlainBodies

LEMMA ExtensionReflexive ==
  ASSUME NEW l, WellFormed(l)
  PROVE  Extension(l, l) /\ Len(l) \in Nat
  BY DEF Extension, WellFormed

LEMMA ExtensionTransitive ==
  ASSUME NEW l1, NEW l2, NEW l3, WellFormed(l1),
         Extension(l1, l2), Extension(l2, l3)
  PROVE  Extension(l1, l3)
<1>1. Len(l1) \in Nat /\ Len(l2) \in Nat /\ Len(l3) \in Nat
  BY ExtensionReflexive DEF Extension
<1> QED BY <1>1 DEF Extension

\* What a process that died leaves of an extension is an extension.
LEMMA ExtensionPrefix ==
  ASSUME NEW l, NEW e, WellFormed(l), Extension(l, e), NEW n \in Len(l)..Len(e)
  PROVE  Extension(l, SubSeq(e, 1, n)) /\ Len(SubSeq(e, 1, n)) = n
<1> DEFINE f == SubSeq(e, 1, n)
<1>1. /\ WellFormed(e) /\ e \in Seq(Entries)
      /\ Len(l) \in Nat /\ Len(e) \in Nat /\ n \in Nat
  BY DEF Extension, WellFormed
<1>2. /\ f \in Seq(Entries) /\ Len(f) = n
      /\ DOMAIN f = 1..n /\ DOMAIN e = 1..Len(e)
      /\ \A j \in 1..n : f[j] = e[j]
  BY <1>1
<1> HIDE DEF f
<1>3. ASSUME NEW m \in 0..n
      PROVE  PathTo(f, m) = PathTo(e, m)
  BY <1>1, <1>2 DEF PathTo
<1>4. ASSUME NEW j \in DOMAIN f
      PROVE  /\ [kind |-> f[j].kind, data |-> f[j].data] \in Bodies
             /\ f[j].parent < j
             /\ f[j].path = PathTo(f, f[j].parent) \cup {j}
             /\ f[j].path \subseteq 1..j
  <2>1. j \in 1..n /\ j \in DOMAIN e /\ f[j] = e[j]
    BY <1>1, <1>2
  <2>2. e[j] \in Entries
    BY <1>1, <2>1
  <2>3. /\ [kind |-> e[j].kind, data |-> e[j].data] \in Bodies
        /\ e[j].parent < j
        /\ e[j].path = PathTo(e, e[j].parent) \cup {j}
        /\ e[j].path \subseteq 1..j
    BY <1>1, <2>1 DEF WellFormed
  <2>4. e[j].parent \in 0..n
    BY <1>1, <2>1, <2>2, <2>3 DEF Entries
  <2> QED BY <1>3, <2>1, <2>3, <2>4
<1>5. WellFormed(f)
  BY <1>2, <1>4 DEF WellFormed
<1>6. \A i \in 1..Len(l) : f[i] = l[i]
  BY <1>1, <1>2 DEF Extension
<1>7. Intact(l) => Intact(f)
  BY <1>1, <1>2, <1>5, PrefixIntact DEF Extension
<1>8. Told(l) => Told(f)
  BY <1>1, <1>2, <1>5, PrefixTold DEF Extension
<1>9. Revised(l) => Revised(f)
  BY <1>1, <1>2, <1>5, PrefixRevised DEF Extension
<1>10. Remembered(l) => Remembered(f)
  BY <1>1, <1>2, <1>5, PrefixRemembered DEF Extension
<1>11. KeepsMessages(l) => KeepsMessages(f)
  BY <1>1, <1>2, <1>5, PrefixKeepsMessages DEF Extension
<1> QED BY <1>1, <1>2, <1>5, <1>6, <1>7, <1>8, <1>9, <1>10, <1>11 DEF Extension, f

LEMMA ProjectionType ==
  ASSUME NEW l, WellFormed(l)
  PROVE  /\ Projection(l) \in States
         /\ Leaf(l) \in 0..Len(l)
         /\ Leaf(l) = Len(l)
         /\ Len(l) \in Nat
<1>1. Len(l) \in Nat
  BY DEF WellFormed
<1> QED BY <1>1, StateAtType DEF Projection, Leaf

LEMMA AddAtLeaf ==
  ASSUME NEW l, WellFormed(l), NEW body \in PlainBodies
  PROVE  /\ Extension(l, Add(l, Leaf(l), body))
         /\ Len(Add(l, Leaf(l), body)) = Len(l) + 1
  BY AddExtends, ProjectionType

\* A new revision is one beyond the revision in force.
LEMMA PlanExtends ==
  ASSUME NEW l, WellFormed(l), NEW text \in Texts, NEW revision \in Nat,
         Projection(l).revision < revision
  PROVE  Extension(l, Add(l, Leaf(l), PlanArtifact(text, revision)))
<1> DEFINE body == PlanArtifact(text, revision)
<1>1. revision \in Nat \ {0}
  BY ProjectionType DEF States
<1>2. body \in Bodies /\ body.kind = "plan_artifact" /\ body.data.revision = revision
  BY <1>1 DEF PlanArtifact, Bodies, PlanData
<1>3. NewRevision(l, Leaf(l), body)
  BY <1>2 DEF NewRevision, Projection
<1> HIDE DEF body
<1>4. Extension(l, Add(l, Leaf(l), body))
  BY <1>2, <1>3, AddPlanned, ProjectionType
<1> QED BY <1>4 DEF body

LEMMA AddIfExtends ==
  ASSUME NEW l, WellFormed(l), NEW body, NEW condition \in BOOLEAN,
         condition => body \in PlainBodies
  PROVE  Extension(l, AddIf(condition, l, body))
  BY AddAtLeaf, ExtensionReflexive DEF AddIf

-----------------------------------------------------------------------------
(* The files the writers leave *)

LEMMA BodyConstructors ==
  /\ \A role \in {"user", "assistant"} : Message(role) \in PlainBodies
  /\ ToolExchange \in PlainBodies /\ Label \in PlainBodies
  /\ ContextRecovery \in PlainBodies
  /\ \A model \in Models \cup {None}, identity \in Writers \cup {None},
       rules \in Rules \cup {None} : Info(model, identity, rules) \in PlainBodies
  /\ \A mode \in Modes, pre \in Modes \cup {None} : ModeChange(mode, pre) \in PlainBodies
  /\ \A kept \in Nat, summary \in SUBSET Nat : Compaction(kept, summary) \in Bodies
  /\ \A target \in Nat, summary \in SUBSET Nat :
        BranchSummary(target, summary) \in Bodies
  /\ \A target \in Nat, reason \in {"rewind", "rewrite"} :
        RewindTo(target, reason) \in PlainBodies
  /\ \A identity \in Writers : TaskCheckpoint(identity) \in PlainBodies
<1>1. \A role \in {"user", "assistant"} : Message(role) \in PlainBodies
  BY DEF Message, PlainBodies, Bodies, RoleData
<1>2. /\ ToolExchange \in PlainBodies /\ Label \in PlainBodies
      /\ ContextRecovery \in PlainBodies
  BY DEF ToolExchange, Label, ContextRecovery, PlainBodies, Bodies, RoleData
<1>3. ASSUME NEW model \in Models \cup {None}, NEW identity \in Writers \cup {None},
             NEW rules \in Rules \cup {None}
      PROVE  Info(model, identity, rules) \in PlainBodies
  BY DEF Info, PlainBodies, Bodies, InfoData
<1>4. ASSUME NEW mode \in Modes, NEW pre \in Modes \cup {None}
      PROVE  ModeChange(mode, pre) \in PlainBodies
  BY DEF ModeChange, PlainBodies, Bodies, ModeData
<1>6. ASSUME NEW kept \in Nat, NEW summary \in SUBSET Nat
      PROVE  Compaction(kept, summary) \in Bodies
  BY DEF Compaction, PlainBodies, Bodies, CompactionData
<1>7. ASSUME NEW target \in Nat, NEW summary \in SUBSET Nat
      PROVE  BranchSummary(target, summary) \in Bodies
  BY DEF BranchSummary, PlainBodies, Bodies, BranchData
<1>8. ASSUME NEW target \in Nat, NEW reason \in {"rewind", "rewrite"}
      PROVE  RewindTo(target, reason) \in PlainBodies
  BY DEF RewindTo, PlainBodies, Bodies, RewindData
<1>9. ASSUME NEW identity \in Writers
      PROVE  TaskCheckpoint(identity) \in PlainBodies
  BY DEF TaskCheckpoint, PlainBodies, Bodies, CheckpointData
<1> QED BY <1>1, <1>2, <1>3, <1>4, <1>6, <1>7, <1>8, <1>9

LEMMA CarryBindingExtends ==
  ASSUME NEW l, WellFormed(l), NEW branched, WellFormed(branched)
  PROVE  Extension(branched, CarryBinding(l, branched))
<1>1. Projection(l).model \in Models \cup {None}
  BY ProjectionType DEF States
<1>2. Info(Projection(l).model, None, None) \in PlainBodies
  BY <1>1, BodyConstructors
<1> QED BY <1>2, AddIfExtends DEF CarryBinding

LEMMA RewindLogExtends ==
  ASSUME NEW l, WellFormed(l), NEW target \in 0..Len(l)
  PROVE  Extension(l, RewindLog(l, target))
<1> DEFINE rewound == Add(l, target, RewindTo(target, "rewind"))
<1>1. Extension(l, rewound)
  <2>1. target \in Nat
    BY ProjectionType
  <2> QED BY <2>1, AddExtends, BodyConstructors
<1>2. Extension(rewound, CarryBinding(l, rewound))
  BY <1>1, CarryBindingExtends DEF Extension
<1> QED BY <1>1, <1>2, ExtensionTransitive DEF RewindLog

\* The summary was generated from the branch of the leaf the rewind follows,
\* which is where rewind_with_summary compares the leaf.
LEMMA RewindWithSummaryLogExtends ==
  ASSUME NEW l, WellFormed(l), NEW target \in PathTo(l, Len(l))
  PROVE  Extension(l, RewindWithSummaryLog(l, target, Abandoned(l, Len(l), target)))
<1> DEFINE n == Len(l)
           summary == Abandoned(l, n, target)
           rewound == Add(l, target, RewindTo(target, "rewind"))
           body == BranchSummary(target, summary)
           told == Add(rewound, Leaf(rewound), body)
<1>1. /\ n \in Nat /\ PathTo(l, n) \in SUBSET (1..n) /\ n \in 0..n
      /\ target \in 1..n
  BY ProjectionType, StateAtType
<1>2. Extension(l, rewound) /\ Len(rewound) = n + 1
  BY <1>1, AddExtends, BodyConstructors
<1>3. body \in Bodies /\ body.data.target = target /\ body.data.summary = summary
      /\ body.kind = "branch_summary"
  <2>1. summary \in SUBSET Nat
    BY <1>1 DEF Abandoned, MessagesOn
  <2>2. target \in Nat
    BY <1>1
  <2>3. body \in Bodies
    BY <2>1, <2>2, BodyConstructors
  <2> QED BY <2>3 DEF BranchSummary
<1>4. WellFormed(rewound) /\ Leaf(rewound) \in 0..Len(rewound)
  BY <1>2, ProjectionType DEF Extension
<1>5. ASSUME Told(rewound)
      PROVE  TellsAbandoned(rewound, n + 2, target, summary)
  <2> HIDE DEF rewound
  <2>1. n \in 0..n /\ target \in 0..n
    BY <1>1
  <2>2. /\ MessagesOn(rewound, PathTo(rewound, n)) = MessagesOn(l, PathTo(l, n))
        /\ PathTo(rewound, target) = PathTo(l, target)
        /\ PathTo(rewound, n) = PathTo(l, n)
    BY <1>2, <1>4, <2>1, ViewOfPrefix DEF Extension
  <2>3. PathTo(l, target) = {k \in PathTo(l, n) : k <= target}
    <3>1. /\ PathTo(rewound, n) = rewound[n].path
          /\ PathTo(rewound, target) = rewound[target].path
      BY <1>1 DEF PathTo
    <3>2. n \in DOMAIN rewound /\ target \in rewound[n].path
      BY <1>1, <1>2, <1>4, <2>2, <3>1 DEF WellFormed
    <3>3. rewound[target].path = {k \in rewound[n].path : k <= target}
      BY <1>5, <3>2 DEF Told, Nested
    <3> QED BY <2>2, <3>1, <3>3
  <2>4. summary = MessagesOn(l, PathTo(l, n)) \ PathTo(l, target)
    <3>1. \A k \in PathTo(l, n) : target < k <=> ~(k <= target)
      BY <1>1
    <3> HIDE DEF n
    <3> QED BY <2>3, <3>1 DEF Abandoned, MessagesOn
  <2>5. 2 < n + 2 /\ (n + 2) - 2 = n
    BY <1>1
  <2> HIDE DEF summary
  <2> QED BY <1>1, <2>2, <2>4, <2>5 DEF TellsAbandoned
<1>6. FromBranch(rewound, body)
  <2>1. Len(rewound) + 1 = n + 2
    BY <1>1, <1>2
  <2> HIDE DEF rewound, body, summary
  <2> QED BY <1>3, <1>5, <2>1 DEF FromBranch
<1> HIDE DEF rewound, body
<1>7. Extension(rewound, told)
  BY <1>3, <1>4, <1>6, AddPlanned
<1>8. Extension(told, CarryBinding(l, told))
  BY <1>7, CarryBindingExtends DEF Extension
<1>9. Extension(l, told)
  BY <1>2, <1>7, ExtensionTransitive
<1> HIDE DEF told
<1>10. Extension(l, CarryBinding(l, told))
  BY <1>8, <1>9, ExtensionTransitive
<1> QED BY <1>10 DEF RewindWithSummaryLog, told, body, rewound, summary, n

LEMMA MessagesLogExtends ==
  ASSUME NEW l, WellFormed(l), NEW body \in PlainBodies, NEW identity \in Writers
  PROVE  Extension(l, MessagesLog(l, body, identity))
<1> DEFINE said == Add(l, Leaf(l), body)
           condition == Projection(l).identity # identity
<1>1. Extension(l, said)
  BY AddAtLeaf
<1>2. Extension(said, AddIf(condition, said, Info(None, identity, None)))
  BY <1>1, AddIfExtends, BodyConstructors DEF Extension
<1> QED BY <1>1, <1>2, ExtensionTransitive DEF MessagesLog

LEMMA RestatePermissionsExtends ==
  ASSUME NEW l, WellFormed(l), NEW state \in States
  PROVE  Extension(l, RestatePermissions(l, state))
<1>1. ModeChange(state.mode, IF state.mode = "plan" THEN state.pre ELSE None) \in PlainBodies
  BY BodyConstructors DEF States
<1> QED BY <1>1, AddIfExtends DEF RestatePermissions

\* A plan is restated on a branch that has none.
LEMMA RestatePlanExtends ==
  ASSUME NEW l, WellFormed(l), NEW state \in States, Projection(l).revision = 0
  PROVE  Extension(l, RestatePlan(l, state))
<1>1. CASE state.revision > 0
  <2>1. state.text \in Texts /\ state.revision \in Nat
    BY <1>1 DEF States
  <2>2. Extension(l, Add(l, Leaf(l), PlanArtifact(state.text, state.revision)))
    BY <1>1, <2>1, PlanExtends
  <2> QED BY <1>1, <2>2 DEF RestatePlan, AddIf
<1>2. CASE ~(state.revision > 0)
  BY <1>2, ExtensionReflexive DEF RestatePlan, AddIf
<1> QED BY <1>1, <1>2

LEMMA PlainKeepsRevision ==
  ASSUME NEW l, WellFormed(l), NEW p \in 0..Len(l), NEW body \in PlainBodies
  PROVE  Projection(Add(l, p, body)).revision = StateAt(l, p).revision
<1> DEFINE e == Add(l, p, body)
<1>1. body \in Bodies /\ body.kind # "plan_artifact"
  BY DEF PlainBodies
<1>2. Len(l) + 1 \in Nat /\ Len(l) + 1 # 0
  BY ProjectionType
<1>3. /\ WellFormed(e) /\ Len(e) = Len(l) + 1
      /\ e[Len(l) + 1].state = ApplyEntry(StateAt(l, p), body, Len(l) + 1)
  BY <1>1, AddWellFormed
<1> HIDE DEF e
<1>4. Projection(e) = ApplyEntry(StateAt(l, p), body, Len(l) + 1)
  BY <1>2, <1>3 DEF Projection, StateAt, Leaf
<1> QED BY <1>1, <1>2, <1>4, StateAtType, ApplyKeepsRevision DEF e

LEMMA RewriteLogExtends ==
  ASSUME NEW l, WellFormed(l)
  PROVE  Extension(l, RewriteLog(l))
<1> DEFINE state == Projection(l)
           rewound == Add(l, 0, RewindTo(0, "rewrite"))
           info == Add(rewound, Leaf(rewound),
                       Info(state.model, state.identity, state.rules))
           change == ModeChange(state.mode, IF state.mode = "plan" THEN state.pre ELSE None)
           controls == RestatePermissions(info, state)
           planned == RestatePlan(controls, state)
<1>1. state \in States
  BY ProjectionType
<1>2. Extension(l, rewound) /\ Projection(rewound).revision = 0
  <2>1. RewindTo(0, "rewrite") \in PlainBodies /\ 0 \in 0..Len(l)
    BY BodyConstructors, ProjectionType
  <2>2. StateAt(l, 0).revision = 0
    BY DEF StateAt, Base
  <2> QED BY <2>1, <2>2, AddExtends, PlainKeepsRevision
<1> HIDE DEF rewound
<1>3. Extension(rewound, info) /\ Projection(info).revision = 0
  <2>1. Info(state.model, state.identity, state.rules) \in PlainBodies
    BY <1>1, BodyConstructors DEF States
  <2>2. WellFormed(rewound) /\ Leaf(rewound) \in 0..Len(rewound)
    BY <1>2, ProjectionType DEF Extension
  <2>3. StateAt(rewound, Leaf(rewound)).revision = 0
    BY <1>2 DEF Projection
  <2> HIDE DEF state
  <2> QED BY <2>1, <2>2, <2>3, AddAtLeaf, PlainKeepsRevision
<1> HIDE DEF info
<1>4. Extension(info, controls) /\ Projection(controls).revision = 0
  <2>1. WellFormed(info) /\ Leaf(info) \in 0..Len(info)
    BY <1>3, ProjectionType DEF Extension
  <2>2. change \in PlainBodies
    BY <1>1, BodyConstructors DEF States
  <2>3. StateAt(info, Leaf(info)).revision = 0
    BY <1>3 DEF Projection
  <2>4. Extension(info, controls)
    BY <1>1, <2>1, RestatePermissionsExtends
  <2>5. controls = info \/ controls = Add(info, Leaf(info), change)
    BY DEF RestatePermissions, AddIf
  <2> HIDE DEF change, controls
  <2> QED BY <1>3, <2>1, <2>2, <2>3, <2>4, <2>5, PlainKeepsRevision
<1> HIDE DEF controls
<1>5. Extension(controls, planned)
  BY <1>1, <1>4, RestatePlanExtends DEF Extension
<1> HIDE DEF planned
<1>6. Extension(l, planned)
  <2>1. Extension(l, info)
    BY <1>2, <1>3, ExtensionTransitive
  <2>2. Extension(l, controls)
    BY <1>4, <2>1, ExtensionTransitive
  <2> QED BY <1>5, <2>2, ExtensionTransitive
<1> QED BY <1>6 DEF RewriteLog, planned, controls, info, rewound, state

LEMMA PermissionsLogExtends ==
  ASSUME NEW l, WellFormed(l), NEW mode \in Modes \cup {None},
         NEW pre \in Modes \cup {None}, NEW rules \in Rules
  PROVE  Extension(l, PermissionsLog(l, mode, pre, rules))
<1> DEFINE state == Projection(l)
           condition == mode \notin {None, state.mode}
           changed == AddIf(condition, l, ModeChange(mode, pre))
           restated == AddIf(rules # state.rules, changed, Info(None, None, rules))
<1>1. Extension(l, changed)
  <2>1. condition => ModeChange(mode, pre) \in PlainBodies
    BY BodyConstructors
  <2> QED BY <2>1, AddIfExtends
<1>2. Extension(changed, restated)
  <2>1. Info(None, None, rules) \in PlainBodies
    BY BodyConstructors
  <2>2. WellFormed(changed)
    BY <1>1 DEF Extension
  <2> HIDE DEF changed
  <2> QED BY <2>1, <2>2, AddIfExtends
<1>3. Extension(l, restated)
  BY <1>1, <1>2, ExtensionTransitive
<1> QED BY <1>3 DEF PermissionsLog

-----------------------------------------------------------------------------
(* Steps *)

LEMMA ViewType ==
  ASSUME NEW l, WellFormed(l), NEW n \in 0..Len(l)
  PROVE  Shown(l, n) \in SUBSET Nat /\ Summarised(l, n) \in SUBSET Nat
<1>1. PathTo(l, n) \in SUBSET Nat /\ PathTo(l, n) \subseteq DOMAIN l
  BY StateAtType DEF WellFormed
<1>2. Shown(l, n) \in SUBSET Nat
  BY <1>1 DEF Shown, MessagesOn
<1>3. ASSUME NEW c \in NewestCompaction(l, n)
      PROVE  l[c].data.summary \in SUBSET Nat
  <2>1. c \in DOMAIN l /\ l[c].kind = "compaction"
    BY <1>1 DEF NewestCompaction
  <2>2. [kind |-> l[c].kind, data |-> l[c].data] \in Bodies
    BY <2>1 DEF WellFormed
  <2>3. l[c].data \in CompactionData
    BY <2>1, <2>2 DEF Bodies
  <2> QED BY <2>3 DEF CompactionData
<1>4. Summarised(l, n) \in SUBSET Nat
  BY <1>3 DEF Summarised
<1> QED BY <1>2, <1>4

LEMMA PlanType ==
  ASSUME NEW l, WellFormed(l), NEW n \in 0..Len(l), NEW kept \in Nat
  PROVE  CompactionPlan(l, n, kept) \in Bodies
  BY ViewType, BodyConstructors DEF CompactionPlan

LEMMA WriteKeepsType ==
  ASSUME TypeOK, NEW w \in Writers, NEW e, Extension(log, e),
         NEW after \in -1..Len(e), Write(w, e, after)
  PROVE  TypeOK' /\ Extension(log, log') /\ ~torn
<1>1. Len(log) \in Nat /\ Len(e) \in Nat /\ Len(log) <= Len(e)
  BY ProjectionType DEF TypeOK, Extension
<1>2. CASE Complete(w, e, after)
  <2>1. log' = e /\ torn' = torn /\ seen' = [seen EXCEPT ![w] = after]
    BY <1>2 DEF Complete
  <2>2. seen' \in [Writers -> -1..Len(e)]
    BY <1>1, <2>1 DEF TypeOK
  <2>3. WellFormed(log') /\ Extension(log, log')
    BY <2>1 DEF Extension
  <2>4. torn' \in BOOLEAN /\ ~torn
    BY <2>1 DEF TypeOK, Write
  <2>5. seen' \in [Writers -> -1..Len(log')]
    BY <2>1, <2>2
  <2> QED BY <2>3, <2>4, <2>5 DEF TypeOK
<1>3. CASE Die(w, e)
  <2>1. PICK n \in Len(log)..Len(e) :
          log' = SubSeq(e, 1, n) /\ torn' \in BOOLEAN
    BY <1>3 DEF Die
  <2>2. Extension(log, log') /\ Len(log') = n
    BY <2>1, ExtensionPrefix DEF TypeOK
  <2>3. seen' = [seen EXCEPT ![w] = Nothing]
    BY <1>3 DEF Die
  <2>4. torn' \in BOOLEAN /\ ~torn
    BY <1>1, <2>1 DEF Write
  <2>5. seen' \in [Writers -> -1..Len(log')]
    BY <1>1, <2>1, <2>2, <2>3 DEF TypeOK, Nothing
  <2> QED BY <2>2, <2>4, <2>5 DEF TypeOK, Extension
<1> QED BY <1>2, <1>3 DEF Write

\* What an operation writes extends the file, so its step is a Write of an
\* extension or touches only what a writer has seen.
LEMMA StepExtends ==
  ASSUME TypeOK, NEW w \in Writers, WriterStep(w)
  PROVE  TypeOK' /\ Extension(log, log') /\ (torn => log' = log)
<1> DEFINE state == Projection(log)
<1>1. /\ WellFormed(log) /\ Len(log) \in Nat
      /\ state \in States /\ Leaf(log) = Len(log)
      /\ Extension(log, log)
      /\ seen \in [Writers -> -1..Len(log)]
  BY ProjectionType, ExtensionReflexive DEF TypeOK
<1>2. ASSUME Holds(w)
      PROVE  seen[w] \in 0..Len(log) /\ SeenState(w) \in States
  <2>1. seen[w] \in 0..Len(log)
    BY <1>1, <1>2 DEF Holds, Nothing
  <2> QED BY <1>1, <2>1, StateAtType DEF SeenState
<1>3. \A e : Extension(log, e) => -1 \in -1..Len(e) /\ Len(log) \in -1..Len(e)
  BY <1>1, ExtensionReflexive DEF Extension
<1>4. ASSUME NEW e, Extension(log, e), NEW after \in -1..Len(e), Write(w, e, after)
      PROVE  TypeOK' /\ Extension(log, log') /\ (torn => log' = log)
  BY <1>4, WriteKeepsType
<1>5. CASE Observe(w)
  BY <1>1, <1>5 DEF Observe, TypeOK
<1>6. CASE Refuse(w)
  BY <1>1, <1>6 DEF Refuse, TypeOK, Nothing
<1> HIDE DEF state
<1>7. ASSUME NEW body \in TurnBodies, AppendMessages(w, body)
      PROVE  TypeOK' /\ Extension(log, log') /\ (torn => log' = log)
  <2> DEFINE e == MessagesLog(log, body, w)
  <2>1. Extension(log, e)
    BY <1>1, MessagesLogExtends, BodyConstructors DEF TurnBodies
  <2>2. Leaf(e) \in -1..Len(e)
    BY <2>1, ProjectionType DEF Extension
  <2>3. Write(w, e, Leaf(e))
    BY <1>7 DEF AppendMessages
  <2> QED BY <1>4, <2>1, <2>2, <2>3
<1>8. CASE AppendTerminal(w)
  <2> DEFINE e == MessagesLog(log, Message("assistant"), w)
  <2>1. Extension(log, e)
    BY <1>1, MessagesLogExtends, BodyConstructors
  <2>2. Write(w, e, Nothing)
    BY <1>8 DEF AppendTerminal
  <2> QED BY <1>3, <1>4, <2>1, <2>2 DEF Nothing
<1>9. CASE PersistResumed(w)
  <2> DEFINE e == Add(log, Leaf(log), Info(None, w, None))
  <2>1. Extension(log, e)
    BY <1>1, AddAtLeaf, BodyConstructors
  <2>2. seen[w] \in -1..Len(e)
    BY <1>1, <2>1, ExtensionReflexive DEF Extension
  <2>3. Write(w, e, seen[w])
    BY <1>9 DEF PersistResumed
  <2> QED BY <1>4, <2>1, <2>2, <2>3
<1>10. ASSUME NEW model \in Models, SetProviderModel(w, model)
       PROVE  TypeOK' /\ Extension(log, log') /\ (torn => log' = log)
  <2> DEFINE e == Add(log, Leaf(log), Info(model, None, None))
  <2>1. Extension(log, e)
    BY <1>1, AddAtLeaf, BodyConstructors
  <2>2. Write(w, e, Nothing)
    BY <1>10 DEF SetProviderModel
  <2> QED BY <1>3, <1>4, <2>1, <2>2 DEF Nothing
<1>11. ASSUME NEW mode \in Modes \cup {None}, NEW tool \in Tools \cup {None},
              NEW behavior \in {"allow", "ask", "deny", "none"},
              UpdatePermissions(w, mode, tool, behavior)
       PROVE  TypeOK' /\ Extension(log, log') /\ (torn => log' = log)
  <2> DEFINE rules == IF tool = None THEN state.rules
                      ELSE [state.rules EXCEPT ![tool] = behavior]
             e == PermissionsLog(log, mode, None, rules)
  <2>1. rules \in Rules
    BY <1>1 DEF States, Rules
  <2>2. Extension(log, e)
    BY <1>1, <2>1, PermissionsLogExtends
  <2>3. Write(w, e, Nothing)
    BY <1>11 DEF UpdatePermissions, state
  <2> QED BY <1>3, <1>4, <2>2, <2>3 DEF Nothing
<1>12. CASE ResumeInPlanMode(w)
  <2> DEFINE e == PermissionsLog(log, "plan", SeenState(w).mode, state.rules)
  <2>1. "plan" \in Modes /\ state.rules \in Rules /\ SeenState(w).mode \in Modes
    BY <1>1, <1>2, <1>12, SessionTreeAssumption DEF States, ResumeInPlanMode
  <2>2. Extension(log, e)
    BY <1>1, <2>1, PermissionsLogExtends
  <2>3. Write(w, e, Nothing)
    BY <1>12 DEF ResumeInPlanMode, state
  <2> QED BY <1>3, <1>4, <2>2, <2>3 DEF Nothing
<1>13. ASSUME NEW text \in Texts
       PROVE  Extension(log, PlanLog(text))
  <2>1. state.revision + 1 \in Nat /\ state.revision < state.revision + 1
    BY <1>1 DEF States
  <2> QED BY <1>1, <2>1, PlanExtends DEF PlanLog, state
<1>14. ASSUME NEW text \in Texts, WritePlan(w, text)
       PROVE  TypeOK' /\ Extension(log, log') /\ (torn => log' = log)
  <2>1. Write(w, PlanLog(text), seen[w])
    BY <1>14 DEF WritePlan
  <2>2. seen[w] \in -1..Len(PlanLog(text))
    BY <1>1, <1>13, ExtensionReflexive DEF Extension
  <2> QED BY <1>4, <1>13, <2>1, <2>2
<1>15. ASSUME NEW text \in Texts, EditPlan(w, text)
       PROVE  TypeOK' /\ Extension(log, log') /\ (torn => log' = log)
  <2>1. Write(w, PlanLog(text), Nothing)
    BY <1>15 DEF EditPlan
  <2> QED BY <1>3, <1>4, <1>13, <2>1 DEF Nothing
<1>16. CASE ExitPlanMode(w)
  <2> DEFINE target == IF state.pre = None THEN "auto" ELSE state.pre
             e == Add(log, Leaf(log), ModeChange(target, None))
  <2>1. target \in Modes
    BY <1>1, SessionTreeAssumption DEF States
  <2>2. Extension(log, e)
    BY <1>1, <2>1, AddAtLeaf, BodyConstructors
  <2>3. Write(w, e, Nothing)
    BY <1>16 DEF ExitPlanMode, state
  <2> QED BY <1>3, <1>4, <2>2, <2>3 DEF Nothing
<1>17. ASSUME NEW kept \in 1..Leaf(log), Compact(w, kept)
       PROVE  TypeOK' /\ Extension(log, log') /\ (torn => log' = log)
  <2> DEFINE body == CompactionPlan(log, seen[w], kept)
             e == Add(log, Leaf(log), body)
  <2>1. body \in Bodies
    <3>1. seen[w] \in 0..Len(log)
      BY <1>2, <1>17 DEF Compact
    <3>2. kept \in Nat
      BY <1>1
    <3> QED BY <1>1, <3>1, <3>2, PlanType
  <2>5. FromPlan(log, Leaf(log), body)
    <3>1. seen[w] = Leaf(log) /\ kept \in Shown(log, seen[w])
      BY <1>17 DEF Compact, Expected, KeepStarts
    <3> QED BY <3>1 DEF FromPlan
  <2>6. body.kind = "compaction"
    BY DEF CompactionPlan, Compaction
  <2>2. Extension(log, e) /\ Len(e) = Len(log) + 1
    <3>1. Leaf(log) \in 0..Len(log)
      BY <1>1
    <3> HIDE DEF body
    <3> QED BY <1>1, <2>1, <2>5, <2>6, <3>1, AddPlanned
  <2>3. Write(w, e, Leaf(log) + 1)
    BY <1>17 DEF Compact
  <2>4. Leaf(log) + 1 \in -1..Len(e)
    BY <1>1, <2>2
  <2> QED BY <1>4, <2>2, <2>3, <2>4
<1>18. ASSUME NEW target \in 0..Leaf(log), Rewind(w, target)
       PROVE  TypeOK' /\ Extension(log, log') /\ (torn => log' = log)
  <2>1. Extension(log, RewindLog(log, target))
    BY <1>1, RewindLogExtends
  <2>2. Write(w, RewindLog(log, target), Nothing)
    BY <1>18 DEF Rewind
  <2> QED BY <1>3, <1>4, <2>1, <2>2 DEF Nothing
<1>19. ASSUME NEW target \in 1..Leaf(log), RewindWithSummary(w, target)
       PROVE  TypeOK' /\ Extension(log, log') /\ (torn => log' = log)
  <2> DEFINE e == RewindWithSummaryLog(log, target, Abandoned(log, Len(log), target))
  <2>1. seen[w] = Len(log) /\ target \in PathTo(log, Len(log))
    BY <1>1, <1>19 DEF RewindWithSummary, Expected
  <2>2. Extension(log, e)
    BY <1>1, <2>1, RewindWithSummaryLogExtends
  <2>3. Write(w, e, Nothing)
    BY <1>19, <2>1 DEF RewindWithSummary
  <2> QED BY <1>3, <1>4, <2>2, <2>3 DEF Nothing
<1>20. ASSUME NEW entry \in 1..Leaf(log), LabelEntry(w, entry)
       PROVE  TypeOK' /\ Extension(log, log') /\ (torn => log' = log)
  <2>1. Extension(log, Add(log, entry, Label))
    BY <1>1, AddExtends, BodyConstructors
  <2>2. Write(w, Add(log, entry, Label), Nothing)
    BY <1>20 DEF LabelEntry
  <2> QED BY <1>3, <1>4, <2>1, <2>2 DEF Nothing
<1>21. CASE AppendTaskCheckpoint(w)
  <2>1. Extension(log, Add(log, Leaf(log), TaskCheckpoint(w)))
    BY <1>1, AddAtLeaf, BodyConstructors
  <2>2. Write(w, Add(log, Leaf(log), TaskCheckpoint(w)), Nothing)
    BY <1>21 DEF AppendTaskCheckpoint
  <2> QED BY <1>3, <1>4, <2>1, <2>2 DEF Nothing
<1>22. CASE Reset(w)
  <2>1. Extension(log, RewriteLog(log))
    BY <1>1, RewriteLogExtends
  <2>2. Write(w, RewriteLog(log), Nothing)
    BY <1>22 DEF Reset
  <2> QED BY <1>3, <1>4, <2>1, <2>2 DEF Nothing
<1>23. CASE AppendState(w)
  <2> DEFINE e == Add(log, Leaf(log), Info(None, w, None))
  <2>1. Extension(log, e) /\ Len(e) = Len(log) + 1
    BY <1>1, AddAtLeaf, BodyConstructors
  <2>2. Leaf(log) + 1 \in -1..Len(e)
    BY <1>1, <2>1
  <2>3. Write(w, e, Leaf(log) + 1)
    BY <1>23 DEF AppendState
  <2> QED BY <1>4, <2>1, <2>2, <2>3
<1>24. CASE MarkRecovery(w)
  <2> DEFINE e == Add(log, Leaf(log), ContextRecovery)
  <2>1. Extension(log, e) /\ Len(e) = Len(log) + 1
    BY <1>1, AddAtLeaf, BodyConstructors
  <2>2. Leaf(log) + 1 \in -1..Len(e)
    BY <1>1, <2>1
  <2>3. Write(w, e, Leaf(log) + 1)
    BY <1>24 DEF MarkRecovery
  <2> QED BY <1>4, <2>1, <2>2, <2>3
<1> QED
  BY <1>5, <1>6, <1>7, <1>8, <1>9, <1>10, <1>11, <1>12, <1>14, <1>15, <1>16,
     <1>17, <1>18, <1>19, <1>20, <1>21, <1>22, <1>23, <1>24 DEF WriterStep

-----------------------------------------------------------------------------
(* The controls: what a step does to the state in force *)

\* The entries that name no model.
KeepsModel(body) == body.kind = "session_info" => body.data.model = None

\* The step begins with the rewind of a reset.
Rewritten(l1, l2) ==
    /\ Len(l2) > Len(l1)
    /\ l2[Len(l1) + 1].kind = "rewind"
    /\ l2[Len(l1) + 1].data.reason = "rewrite"

\* The step is no reset and leaves the model alone.
Ordinary(l1, l2) == ~Rewritten(l1, l2) /\ Projection(l2).model = Projection(l1).model

LEMMA AddProjects ==
  ASSUME NEW l, WellFormed(l), NEW p \in 0..Len(l), NEW body \in Bodies
  PROVE  /\ WellFormed(Add(l, p, body))
         /\ Projection(Add(l, p, body)) = ApplyEntry(StateAt(l, p), body, Len(l) + 1)
         /\ StateAt(l, p) \in States
<1> DEFINE e == Add(l, p, body)
<1>1. Len(l) \in Nat
  BY DEF WellFormed
<1>2. /\ WellFormed(e) /\ Len(e) = Len(l) + 1
      /\ e[Len(l) + 1].state = ApplyEntry(StateAt(l, p), body, Len(l) + 1)
  BY AddWellFormed
<1> HIDE DEF e
<1>3. Projection(e) = ApplyEntry(StateAt(l, p), body, Len(l) + 1)
  BY <1>1, <1>2 DEF Projection, StateAt, Leaf
<1> QED BY <1>2, <1>3, StateAtType DEF e

LEMMA ModelKept ==
  ASSUME NEW s \in States, NEW body \in Bodies, KeepsModel(body), NEW i
  PROVE  ApplyEntry(s, body, i).model = s.model
  BY DEF KeepsModel, ApplyEntry, ApplyMode, ApplyInfo, States

\* A line under the leaf that names no model.
LEMMA AddKeepsModel ==
  ASSUME NEW l, WellFormed(l), NEW body \in Bodies, KeepsModel(body)
  PROVE  /\ WellFormed(Add(l, Leaf(l), body))
         /\ Projection(Add(l, Leaf(l), body)).model = Projection(l).model
<1>1. Leaf(l) \in 0..Len(l)
  BY ProjectionType
<1> QED BY <1>1, AddProjects, ModelKept DEF Projection

\* The first line of a file that extends one with a line.
LEMMA FirstLine ==
  ASSUME NEW l, WellFormed(l), NEW p \in 0..Len(l), NEW body \in Bodies,
         NEW e, Extension(Add(l, p, body), e)
  PROVE  Len(e) > Len(l) /\ e[Len(l) + 1].kind = body.kind /\ e[Len(l) + 1].data = body.data
<1> DEFINE f == Add(l, p, body)
<1>1. Len(l) \in Nat /\ Len(e) \in Nat
  BY DEF WellFormed, Extension
<1>2. Len(f) = Len(l) + 1 /\ f[Len(l) + 1].kind = body.kind /\ f[Len(l) + 1].data = body.data
  BY AddWellFormed
<1>3. Len(f) <= Len(e) /\ \A i \in 1..Len(f) : e[i] = f[i]
  BY DEF Extension
<1> HIDE DEF f
<1>4. Len(l) + 1 \in 1..Len(f)
  BY <1>1, <1>2
<1>5. e[Len(l) + 1] = f[Len(l) + 1]
  BY <1>3, <1>4
<1> QED BY <1>1, <1>2, <1>3, <1>5

LEMMA BeginsOrdinary ==
  ASSUME NEW l, WellFormed(l), NEW p \in 0..Len(l), NEW body \in Bodies,
         body.kind # "rewind" \/ body.data.reason # "rewrite",
         NEW e, Extension(Add(l, p, body), e)
  PROVE  ~Rewritten(l, e)
  BY FirstLine DEF Rewritten

\* One line under the leaf that names no model and is no rewind.
LEMMA AddIsOrdinary ==
  ASSUME NEW l, WellFormed(l), NEW body \in Bodies, KeepsModel(body), body.kind # "rewind"
  PROVE  Ordinary(l, Add(l, Leaf(l), body))
<1>1. Leaf(l) \in 0..Len(l)
  BY ProjectionType
<1>2. Extension(Add(l, Leaf(l), body), Add(l, Leaf(l), body))
  BY AddKeepsModel, ExtensionReflexive
<1>3. ~Rewritten(l, Add(l, Leaf(l), body))
  BY <1>1, <1>2, BeginsOrdinary
<1> QED BY <1>3, AddKeepsModel DEF Ordinary

LEMMA AddIfKeepsModel ==
  ASSUME NEW l, WellFormed(l), NEW body, NEW condition \in BOOLEAN,
         condition => body \in Bodies /\ KeepsModel(body)
  PROVE  /\ WellFormed(AddIf(condition, l, body))
         /\ Projection(AddIf(condition, l, body)).model = Projection(l).model
  BY AddKeepsModel DEF AddIf

\* A branch has the binding that was in force before it.
LEMMA BindingCarried ==
  ASSUME NEW l, WellFormed(l), Projection(l).model \in Models, NEW branched, WellFormed(branched)
  PROVE  Projection(CarryBinding(l, branched)).model = Projection(l).model
<1> DEFINE current == Projection(l).model
           body == Info(current, None, None)
<1>1. body \in Bodies /\ body.kind = "session_info" /\ body.data.model = current
  BY BodyConstructors DEF PlainBodies, Info
<1>2. current # None
  BY SessionTreeAssumption
<1>3. CASE Projection(branched).model = current
  BY <1>3 DEF CarryBinding, AddIf
<1>4. CASE Projection(branched).model # current
  <2>1. CarryBinding(l, branched) = Add(branched, Leaf(branched), body)
    BY <1>2, <1>4 DEF CarryBinding, AddIf
  <2>2. /\ Leaf(branched) \in 0..Len(branched)
        /\ StateAt(branched, Leaf(branched)) \in States
    BY ProjectionType, StateAtType
  <2> HIDE DEF body, current
  <2>3. ApplyEntry(StateAt(branched, Leaf(branched)), body, Len(branched) + 1).model = current
    BY <1>1, <1>2, <2>2 DEF ApplyEntry, ApplyInfo, States
  <2> QED BY <1>1, <2>1, <2>2, <2>3, AddProjects DEF current
<1> QED BY <1>3, <1>4

LEMMA RewindIsOrdinary ==
  ASSUME NEW l, WellFormed(l), NEW target \in 0..Len(l)
  PROVE  /\ ~Rewritten(l, RewindLog(l, target))
         /\ Projection(l).model \in Models =>
              Projection(RewindLog(l, target)).model = Projection(l).model
<1> DEFINE body == RewindTo(target, "rewind")
           rewound == Add(l, target, body)
<1>1. body \in Bodies /\ body.data.reason = "rewind"
  <2>1. target \in Nat
    BY ProjectionType
  <2> QED BY <2>1, BodyConstructors DEF PlainBodies, RewindTo
<1> HIDE DEF body
<1>2. WellFormed(rewound)
  BY <1>1, AddProjects
<1>3. Extension(rewound, CarryBinding(l, rewound))
  BY <1>2, CarryBindingExtends
<1>4. ~Rewritten(l, CarryBinding(l, rewound))
  BY <1>1, <1>3, BeginsOrdinary
<1> QED BY <1>2, <1>4, BindingCarried DEF RewindLog, rewound, body

LEMMA RewindWithSummaryIsOrdinary ==
  ASSUME NEW l, WellFormed(l), NEW target \in 1..Len(l), NEW summary \in SUBSET Nat
  PROVE  /\ ~Rewritten(l, RewindWithSummaryLog(l, target, summary))
         /\ Projection(l).model \in Models =>
              Projection(RewindWithSummaryLog(l, target, summary)).model = Projection(l).model
<1> DEFINE body == RewindTo(target, "rewind")
           rewound == Add(l, target, body)
           told == Add(rewound, Leaf(rewound), BranchSummary(target, summary))
           e == CarryBinding(l, told)
<1>1. target \in Nat /\ target \in 0..Len(l)
  BY ProjectionType
<1>2. body \in Bodies /\ body.data.reason = "rewind"
  BY <1>1, BodyConstructors DEF PlainBodies, RewindTo
<1>3. BranchSummary(target, summary) \in Bodies
  BY <1>1, BodyConstructors
<1> HIDE DEF body
<1>4. WellFormed(rewound) /\ Len(rewound) = Len(l) + 1
      /\ rewound[Len(l) + 1].kind = body.kind /\ rewound[Len(l) + 1].data = body.data
  BY <1>1, <1>2, AddWellFormed
<1> HIDE DEF rewound
<1>11. Leaf(rewound) \in 0..Len(rewound)
  BY <1>4, ProjectionType
<1>5. /\ WellFormed(told) /\ Len(told) = Len(rewound) + 1
      /\ \A i \in 1..Len(rewound) : told[i] = rewound[i]
  BY <1>3, <1>4, <1>11, AddWellFormed
<1> HIDE DEF told
<1>6. Extension(told, e)
  BY <1>5, CarryBindingExtends
<1>7. /\ Len(told) <= Len(e) /\ \A i \in 1..Len(told) : e[i] = told[i]
  BY <1>6 DEF Extension
<1>8. Len(l) + 1 \in 1..Len(rewound) /\ Len(l) + 1 \in 1..Len(told)
  <2>1. Len(l) \in Nat
    BY ProjectionType
  <2> QED BY <2>1, <1>4, <1>5
<1>9. e[Len(l) + 1].data = body.data
  BY <1>4, <1>5, <1>7, <1>8
<1>10. ~Rewritten(l, e)
  BY <1>2, <1>9 DEF Rewritten
<1> QED BY <1>5, <1>10, BindingCarried DEF RewindWithSummaryLog, e, told, rewound, body

LEMMA MessagesAreOrdinary ==
  ASSUME NEW l, WellFormed(l), NEW body \in PlainBodies,
         body.kind \in {"message", "tool_exchange"}, NEW identity \in Writers
  PROVE  Ordinary(l, MessagesLog(l, body, identity))
<1> DEFINE said == Add(l, Leaf(l), body)
           info == Info(None, identity, None)
           condition == Projection(l).identity # identity
<1>1. body \in Bodies /\ KeepsModel(body) /\ Leaf(l) \in 0..Len(l)
  BY ProjectionType DEF PlainBodies, KeepsModel
<1>2. info \in PlainBodies /\ info \in Bodies /\ KeepsModel(info)
  BY BodyConstructors DEF PlainBodies, KeepsModel, Info
<1> HIDE DEF info, condition
<1>3. WellFormed(said) /\ Projection(said).model = Projection(l).model
  BY <1>1, AddKeepsModel
<1>4. Extension(said, AddIf(condition, said, info))
  BY <1>2, <1>3, AddIfExtends DEF condition
<1>5. ~Rewritten(l, AddIf(condition, said, info))
  BY <1>1, <1>4, BeginsOrdinary
<1>6. Projection(AddIf(condition, said, info)).model = Projection(said).model
  BY <1>2, <1>3, AddIfKeepsModel DEF condition
<1> QED BY <1>3, <1>5, <1>6 DEF MessagesLog, Ordinary, said, info, condition

LEMMA PermissionsAreOrdinary ==
  ASSUME NEW l, WellFormed(l), NEW mode \in Modes \cup {None},
         NEW pre \in Modes \cup {None}, NEW rules \in Rules
  PROVE  Ordinary(l, PermissionsLog(l, mode, pre, rules))
<1> DEFINE condition == mode \notin {None, Projection(l).mode}
           change == ModeChange(mode, pre)
           changed == AddIf(condition, l, change)
           info == Info(None, None, rules)
           other == rules # Projection(l).rules
           e == AddIf(other, changed, info)
<1>1. condition => change \in PlainBodies /\ change \in Bodies /\ KeepsModel(change) /\ change.kind # "rewind"
  BY BodyConstructors DEF PlainBodies, KeepsModel, ModeChange
<1>2. info \in PlainBodies /\ info \in Bodies /\ KeepsModel(info) /\ info.kind # "rewind"
  BY BodyConstructors DEF PlainBodies, KeepsModel, Info
<1>3. condition \in BOOLEAN /\ other \in BOOLEAN /\ Leaf(l) \in 0..Len(l)
  BY ProjectionType
<1> HIDE DEF condition, change, info, other
<1>4. WellFormed(changed) /\ Projection(changed).model = Projection(l).model
  BY <1>1, <1>3, AddIfKeepsModel
<1>5. Projection(e).model = Projection(changed).model
  BY <1>2, <1>3, <1>4, AddIfKeepsModel
<1>6. Extension(changed, e)
  BY <1>2, <1>3, <1>4, AddIfExtends
<1>7. /\ condition => changed = Add(l, Leaf(l), change)
      /\ ~condition => changed = l
      /\ other => e = Add(changed, Leaf(changed), info)
      /\ ~other => e = changed
  BY DEF AddIf
<1> HIDE DEF changed, e
<1>8. ASSUME condition PROVE Ordinary(l, e)
  <2>1. Extension(Add(l, Leaf(l), change), e)
    BY <1>6, <1>7, <1>8
  <2>2. ~Rewritten(l, e)
    BY <1>1, <1>3, <1>8, <2>1, BeginsOrdinary
  <2> QED BY <1>4, <1>5, <2>2 DEF Ordinary
<1>9. ASSUME ~condition, other PROVE Ordinary(l, e)
  <2>1. e = Add(l, Leaf(l), info)
    BY <1>7, <1>9
  <2> QED BY <1>2, <2>1, AddIsOrdinary
<1>10. ASSUME ~condition, ~other PROVE Ordinary(l, e)
  <2>1. e = l
    BY <1>7, <1>10
  <2>2. ~Rewritten(l, l)
    BY ProjectionType DEF Rewritten
  <2> QED BY <2>1, <2>2 DEF Ordinary
<1>11. Ordinary(l, e)
  BY <1>3, <1>8, <1>9, <1>10
<1> QED BY <1>11 DEF PermissionsLog, e, other, info, changed, change, condition

\* The fields that session_info and a change of mode set.
LEMMA InfoFields ==
  ASSUME NEW s \in States, NEW data
  PROVE  LET t == ApplyInfo(s, data)
         IN  /\ t.mode = s.mode /\ t.pre = s.pre /\ t.text = s.text /\ t.revision = s.revision
             /\ t.rules = IF data.rules = None THEN s.rules ELSE data.rules
             /\ t.model = IF data.model = None THEN s.model ELSE data.model
             /\ t.identity = IF data.identity = None THEN s.identity ELSE data.identity
  BY DEF ApplyInfo, States

LEMMA ModeFields ==
  ASSUME NEW s \in States, NEW data
  PROVE  LET t == ApplyMode(s, data)
         IN  /\ t.mode = data.mode /\ t.text = s.text /\ t.revision = s.revision
             /\ t.rules = s.rules /\ t.model = s.model /\ t.identity = s.identity
             /\ s.mode # "plan" /\ data.mode = "plan" =>
                  t.pre = IF data.pre = None THEN s.mode ELSE data.pre
             /\ s.mode # "plan" /\ data.mode # "plan" => t.pre = s.pre
  BY DEF ApplyMode, States

\* What a reset and a clone begin with: a state is stated again from the
\* beginning on.
Restated(rewound, state) ==
    RestatePlan(RestatePermissions(
        Add(rewound, Leaf(rewound), Info(state.model, state.identity, state.rules)),
        state), state)

LEMMA StateRestated ==
  ASSUME NEW rewound, WellFormed(rewound), Projection(rewound) = Base,
         NEW state \in States, Remembers(state)
  PROVE  /\ WellFormed(Restated(rewound, state))
         /\ Controls(Projection(Restated(rewound, state))) = Controls(state)
         /\ Projection(Restated(rewound, state)).identity = state.identity
<1> DEFINE body == Info(state.model, state.identity, state.rules)
           info == Add(rewound, Leaf(rewound), body)
           change == ModeChange(state.mode, IF state.mode = "plan" THEN state.pre ELSE None)
           controls == RestatePermissions(info, state)
           plan == PlanArtifact(state.text, state.revision)
           planned == RestatePlan(controls, state)
<1>1. state \in States
  OBVIOUS
<1>2. /\ body \in Bodies /\ body.kind = "session_info"
      /\ body.data.model = state.model /\ body.data.rules = state.rules
      /\ body.data.identity = state.identity /\ state.rules # None
  <2>1. /\ state.model \in Models \cup {None} /\ state.identity \in Writers \cup {None}
        /\ state.rules \in Rules
    BY <1>1 DEF States
  <2>2. body \in Bodies
    BY <2>1, BodyConstructors DEF PlainBodies
  <2>3. state.rules # None
    BY <2>1, RulesAssumption
  <2> QED BY <2>2, <2>3 DEF Info
<1>3. /\ change \in Bodies /\ change.kind = "permission_mode_change"
      /\ change.data.mode = state.mode
      /\ change.data.pre = IF state.mode = "plan" THEN state.pre ELSE None
  <2>1. state.mode \in Modes /\ state.pre \in Modes \cup {None}
    BY <1>1 DEF States
  <2> QED BY <2>1, BodyConstructors DEF PlainBodies, ModeChange
<1>4. state.revision > 0 =>
        /\ plan \in Bodies /\ plan.kind = "plan_artifact"
        /\ plan.data.text = state.text /\ plan.data.revision = state.revision
  BY <1>1 DEF States, PlanArtifact, Bodies, PlanData
<1>5. /\ state.revision \in Nat /\ (state.revision = 0) = (state.text = None)
      /\ state.mode # "plan" => state.pre = None
      /\ state.mode = "plan" => state.pre # None
  BY <1>1 DEF States, Remembers
<1> HIDE DEF body, change, plan
<1>7. /\ WellFormed(info)
      /\ Projection(info).mode = "default" /\ Projection(info).pre = None
      /\ Projection(info).text = None /\ Projection(info).revision = 0
      /\ Projection(info).rules = state.rules /\ Projection(info).model = state.model
      /\ Projection(info).identity = state.identity
  <2>1. Leaf(rewound) \in 0..Len(rewound) /\ StateAt(rewound, Leaf(rewound)) = Base
    BY ProjectionType DEF Projection
  <2>2. WellFormed(info) /\ Projection(info) = ApplyEntry(Base, body, Len(rewound) + 1)
    BY <1>2, <2>1, AddProjects
  <2>3. ApplyEntry(Base, body, Len(rewound) + 1) = ApplyInfo(Base, body.data)
    BY <1>2 DEF ApplyEntry
  <2>4. /\ Base.mode = "default" /\ Base.pre = None /\ Base.text = None /\ Base.revision = 0
        /\ Base.model = None /\ Base.identity = None
    BY DEF Base
  <2> QED BY <1>2, <2>2, <2>3, <2>4, BaseType, InfoFields
<1> HIDE DEF info
<1>8. /\ WellFormed(controls)
      /\ Projection(controls).mode = state.mode /\ Projection(controls).pre = state.pre
      /\ Projection(controls).text = None /\ Projection(controls).revision = 0
      /\ Projection(controls).rules = state.rules /\ Projection(controls).model = state.model
      /\ Projection(controls).identity = state.identity
  <2>1. CASE state.mode = "default"
    <3>1. controls = info
      BY <2>1 DEF RestatePermissions, AddIf
    <3> QED BY <1>5, <1>7, <2>1, <3>1
  <2>2. CASE state.mode # "default"
    <3>1. controls = Add(info, Leaf(info), change)
      BY <2>2 DEF RestatePermissions, AddIf, change
    <3>2. Leaf(info) \in 0..Len(info) /\ Projection(info) \in States
      BY <1>7, ProjectionType
    <3>3. WellFormed(controls)
          /\ Projection(controls) = ApplyEntry(Projection(info), change, Len(info) + 1)
      BY <1>3, <1>7, <3>1, <3>2, AddProjects DEF Projection
    <3>4. ApplyEntry(Projection(info), change, Len(info) + 1) = ApplyMode(Projection(info), change.data)
      BY <1>3 DEF ApplyEntry
    <3> HIDE DEF controls
    <3>5. Projection(controls) = ApplyMode(Projection(info), change.data)
      BY <3>3, <3>4
    <3>6. Projection(info).mode # "plan"
      BY <1>7
    <3> QED BY <1>3, <1>5, <1>7, <3>2, <3>3, <3>5, <3>6, ModeFields
  <2> QED BY <2>1, <2>2
<1> HIDE DEF controls
<1>9. /\ WellFormed(planned)
      /\ Projection(planned).mode = state.mode /\ Projection(planned).pre = state.pre
      /\ Projection(planned).text = state.text /\ Projection(planned).revision = state.revision
      /\ Projection(planned).rules = state.rules /\ Projection(planned).model = state.model
      /\ Projection(planned).identity = state.identity
  <2>1. CASE state.revision > 0
    <3>1. planned = Add(controls, Leaf(controls), plan)
      BY <2>1 DEF RestatePlan, AddIf, plan
    <3>2. Leaf(controls) \in 0..Len(controls) /\ Projection(controls) \in States
      BY <1>8, ProjectionType
    <3>3. WellFormed(planned)
          /\ Projection(planned) = ApplyEntry(Projection(controls), plan, Len(controls) + 1)
      BY <1>4, <1>8, <2>1, <3>1, <3>2, AddProjects DEF Projection
    <3> HIDE DEF planned
    <3> QED BY <1>4, <1>8, <2>1, <3>2, <3>3 DEF ApplyEntry, States
  <2>2. CASE ~(state.revision > 0)
    <3>1. planned = controls
      BY <2>2 DEF RestatePlan, AddIf
    <3> QED BY <1>5, <1>8, <2>2, <3>1
  <2> QED BY <2>1, <2>2
<1> HIDE DEF planned
<1>10. Controls(Projection(planned)) = Controls(state)
  BY <1>9 DEF Controls
<1> QED BY <1>9, <1>10 DEF Restated, planned, plan, controls, change, info, body

LEMMA ResetRestates ==
  ASSUME NEW l, WellFormed(l), Remembers(Projection(l))
  PROVE  Controls(Projection(RewriteLog(l))) = Controls(Projection(l))
<1> DEFINE rewound == Add(l, 0, RewindTo(0, "rewrite"))
<1>1. Projection(l) \in States /\ 0 \in 0..Len(l)
  BY ProjectionType
<1>2. WellFormed(rewound) /\ Projection(rewound) = Base
  <2>1. RewindTo(0, "rewrite") \in Bodies /\ RewindTo(0, "rewrite").kind = "rewind"
    BY BodyConstructors DEF PlainBodies, RewindTo
  <2>2. ApplyEntry(Base, RewindTo(0, "rewrite"), Len(l) + 1) = Base
    BY <2>1 DEF ApplyEntry
  <2> QED BY <1>1, <2>1, <2>2, AddProjects DEF StateAt
<1>3. RewriteLog(l) = Restated(rewound, Projection(l))
  BY DEF RewriteLog, Restated
<1> HIDE DEF rewound
<1> QED BY <1>1, <1>2, <1>3, StateRestated

\* What a step of the writer w may do to the controls.
ControlsGoverned(w) ==
    /\ Rewritten(log, log') => Controls(Projection(log')) = Controls(Projection(log))
    /\ ~LabelOlder /\ Projection(log).model \in Models =>
         \/ Projection(log').model = Projection(log).model
         \/ \E model \in Models : SetProviderModel(w, model)

LEMMA StepGoverned ==
  ASSUME TypeOK, Remembers(Projection(log)), ~CanCrash, NEW w \in Writers, WriterStep(w)
  PROVE  ControlsGoverned(w)
<1> DEFINE state == Projection(log)
<1>1. /\ WellFormed(log) /\ Len(log) \in Nat
      /\ state \in States /\ Leaf(log) = Len(log) /\ Leaf(log) \in 0..Len(log)
      /\ seen \in [Writers -> -1..Len(log)]
  BY ProjectionType DEF TypeOK
<1>2. ASSUME Holds(w)
      PROVE  seen[w] \in 0..Len(log) /\ SeenState(w) \in States
  <2>1. seen[w] \in 0..Len(log)
    BY <1>1, <1>2 DEF Holds, Nothing
  <2> QED BY <1>1, <2>1, StateAtType DEF SeenState
<1>3. ASSUME NEW e, NEW after, Write(w, e, after)
      PROVE  log' = e
  BY <1>3 DEF Write, Complete, Die
<1>4. ASSUME NEW e, Ordinary(log, e), NEW after, Write(w, e, after)
      PROVE  ControlsGoverned(w)
  <2>1. log' = e
    BY <1>3, <1>4
  <2> QED BY <1>4, <2>1 DEF Ordinary, ControlsGoverned
<1>5. ASSUME log' = log
      PROVE  ControlsGoverned(w)
  BY <1>1, <1>5 DEF Rewritten, ControlsGoverned
<1> HIDE DEF state
<1>6. CASE Observe(w) \/ Refuse(w)
  BY <1>5, <1>6 DEF Observe, Refuse
<1>7. ASSUME NEW body \in TurnBodies, AppendMessages(w, body)
      PROVE  ControlsGoverned(w)
  <2>1. body \in PlainBodies /\ body.kind \in {"message", "tool_exchange"}
    BY BodyConstructors DEF TurnBodies, Message, ToolExchange
  <2>2. Ordinary(log, MessagesLog(log, body, w))
    BY <1>1, <2>1, MessagesAreOrdinary
  <2> QED BY <1>4, <1>7, <2>2 DEF AppendMessages
<1>8. CASE AppendTerminal(w)
  <2>1. Message("assistant") \in PlainBodies /\ Message("assistant").kind = "message"
    BY BodyConstructors DEF Message
  <2>2. Ordinary(log, MessagesLog(log, Message("assistant"), w))
    BY <1>1, <2>1, MessagesAreOrdinary
  <2> QED BY <1>4, <1>8, <2>2 DEF AppendTerminal
<1>9. ASSUME NEW body \in Bodies, KeepsModel(body), body.kind # "rewind"
      PROVE  Ordinary(log, Add(log, Leaf(log), body))
  BY <1>1, <1>9, AddIsOrdinary
<1>10. /\ \A x \in {ContextRecovery, TaskCheckpoint(w), Info(None, w, None)} :
            x \in Bodies /\ KeepsModel(x) /\ x.kind # "rewind"
       /\ \A mode \in Modes : ModeChange(mode, None) \in Bodies /\ KeepsModel(ModeChange(mode, None))
            /\ ModeChange(mode, None).kind # "rewind"
  BY BodyConstructors DEF PlainBodies, KeepsModel, ContextRecovery, TaskCheckpoint, Info, ModeChange
<1>11. CASE PersistResumed(w)
  <2>1. Ordinary(log, Add(log, Leaf(log), Info(None, w, None)))
    BY <1>9, <1>10
  <2> QED BY <1>4, <1>11, <2>1 DEF PersistResumed
<1>12. CASE AppendState(w)
  <2>1. Ordinary(log, Add(log, Leaf(log), Info(None, w, None)))
    BY <1>9, <1>10
  <2> QED BY <1>4, <1>12, <2>1 DEF AppendState
<1>13. CASE MarkRecovery(w)
  <2>1. Ordinary(log, Add(log, Leaf(log), ContextRecovery))
    BY <1>9, <1>10
  <2> QED BY <1>4, <1>13, <2>1 DEF MarkRecovery
<1>14. CASE AppendTaskCheckpoint(w)
  <2>1. Ordinary(log, Add(log, Leaf(log), TaskCheckpoint(w)))
    BY <1>9, <1>10
  <2> QED BY <1>4, <1>14, <2>1 DEF AppendTaskCheckpoint
<1>15. CASE ExitPlanMode(w)
  <2> DEFINE target == IF state.pre = None THEN "auto" ELSE state.pre
             body == ModeChange(target, None)
  <2>1. target \in Modes
    BY <1>1, SessionTreeAssumption DEF States
  <2>2. Write(w, Add(log, Leaf(log), body), Nothing)
    BY <1>15 DEF ExitPlanMode, state
  <2>3. Ordinary(log, Add(log, Leaf(log), body))
    BY <1>9, <1>10, <2>1
  <2> QED BY <1>4, <2>2, <2>3
<1>16. ASSUME NEW model \in Models, SetProviderModel(w, model)
       PROVE  ControlsGoverned(w)
  <2> DEFINE body == Info(model, None, None)
  <2>1. body \in Bodies /\ body.kind # "rewind"
    BY BodyConstructors DEF PlainBodies, Info
  <2>2. Write(w, Add(log, Leaf(log), body), Nothing)
    BY <1>16 DEF SetProviderModel
  <2> HIDE DEF body
  <2>3. log' = Add(log, Leaf(log), body)
    BY <1>3, <2>2
  <2>4. Extension(Add(log, Leaf(log), body), Add(log, Leaf(log), body))
    BY <1>1, <2>1, AddProjects, ExtensionReflexive
  <2>5. ~Rewritten(log, log')
    BY <1>1, <2>1, <2>3, <2>4, BeginsOrdinary
  <2> QED BY <1>16, <2>5 DEF ControlsGoverned
<1>17. ASSUME NEW mode \in Modes \cup {None}, NEW tool \in Tools \cup {None},
              NEW behavior \in {"allow", "ask", "deny", "none"},
              UpdatePermissions(w, mode, tool, behavior)
       PROVE  ControlsGoverned(w)
  <2> DEFINE rules == IF tool = None THEN state.rules
                      ELSE [state.rules EXCEPT ![tool] = behavior]
             e == PermissionsLog(log, mode, None, rules)
  <2>1. rules \in Rules
    BY <1>1 DEF States, Rules
  <2>2. Write(w, e, Nothing)
    BY <1>17 DEF UpdatePermissions, state
  <2> HIDE DEF rules
  <2>3. Ordinary(log, e)
    BY <1>1, <2>1, PermissionsAreOrdinary
  <2> QED BY <1>4, <2>2, <2>3
<1>18. CASE ResumeInPlanMode(w)
  <2> DEFINE e == PermissionsLog(log, "plan", SeenState(w).mode, state.rules)
  <2>1. "plan" \in Modes /\ state.rules \in Rules /\ SeenState(w).mode \in Modes
    BY <1>1, <1>2, <1>18, SessionTreeAssumption DEF States, ResumeInPlanMode
  <2>2. Write(w, e, Nothing)
    BY <1>18 DEF ResumeInPlanMode, state
  <2>3. Ordinary(log, e)
    BY <1>1, <2>1, PermissionsAreOrdinary
  <2> QED BY <1>4, <2>2, <2>3
<1>19. ASSUME NEW text \in Texts
       PROVE  Ordinary(log, PlanLog(text))
  <2> DEFINE body == PlanArtifact(text, state.revision + 1)
  <2>1. state.revision + 1 \in Nat \ {0}
    BY <1>1 DEF States
  <2>2. body \in Bodies /\ KeepsModel(body) /\ body.kind # "rewind"
    BY <2>1 DEF PlanArtifact, Bodies, PlanData, KeepsModel
  <2> HIDE DEF body
  <2>3. Ordinary(log, Add(log, Leaf(log), body))
    BY <1>9, <2>2
  <2> QED BY <2>3 DEF PlanLog, body, state
<1>20. ASSUME NEW text \in Texts, WritePlan(w, text)
       PROVE  ControlsGoverned(w)
  BY <1>4, <1>19, <1>20 DEF WritePlan
<1>21. ASSUME NEW text \in Texts, EditPlan(w, text)
       PROVE  ControlsGoverned(w)
  BY <1>4, <1>19, <1>21 DEF EditPlan
<1>22. ASSUME NEW kept \in 1..Leaf(log), Compact(w, kept)
       PROVE  ControlsGoverned(w)
  <2> DEFINE body == CompactionPlan(log, seen[w], kept)
  <2>1. seen[w] \in 0..Len(log) /\ kept \in Nat
    BY <1>1, <1>2, <1>22 DEF Compact
  <2>2. body \in Bodies
    BY <1>1, <2>1, PlanType
  <2>3. KeepsModel(body) /\ body.kind # "rewind"
    BY DEF CompactionPlan, Compaction, KeepsModel
  <2>4. Write(w, Add(log, Leaf(log), body), Leaf(log) + 1)
    BY <1>22 DEF Compact
  <2> HIDE DEF body
  <2> QED BY <1>4, <1>9, <2>2, <2>3, <2>4
<1>23. ASSUME NEW target \in 0..Leaf(log), Rewind(w, target)
       PROVE  ControlsGoverned(w)
  <2>1. log' = RewindLog(log, target)
    BY <1>3, <1>23 DEF Rewind
  <2>2. target \in 0..Len(log)
    BY <1>1
  <2> QED BY <1>1, <2>1, <2>2, RewindIsOrdinary DEF ControlsGoverned
<1>24. ASSUME NEW target \in 1..Leaf(log), RewindWithSummary(w, target)
       PROVE  ControlsGoverned(w)
  <2> DEFINE summary == Abandoned(log, seen[w], target)
  <2>1. log' = RewindWithSummaryLog(log, target, summary)
    BY <1>3, <1>24 DEF RewindWithSummary
  <2>2. target \in 1..Len(log)
    BY <1>1
  <2>3. summary \in SUBSET Nat
    <3>1. PathTo(log, seen[w]) \in SUBSET Nat
      BY <1>1, <1>2, <1>24, StateAtType DEF RewindWithSummary
    <3> QED BY <3>1 DEF Abandoned, MessagesOn
  <2> HIDE DEF summary
  <2> QED BY <1>1, <2>1, <2>2, <2>3, RewindWithSummaryIsOrdinary DEF ControlsGoverned
<1>25. ASSUME NEW entry \in 1..Leaf(log), LabelEntry(w, entry)
       PROVE  ControlsGoverned(w)
  <2>1. Label \in Bodies /\ KeepsModel(Label) /\ Label.kind # "rewind" /\ entry \in 0..Len(log)
    BY <1>1, BodyConstructors DEF PlainBodies, KeepsModel, Label
  <2>2. log' = Add(log, entry, Label)
    BY <1>3, <1>25 DEF LabelEntry
  <2>3. Extension(Add(log, entry, Label), Add(log, entry, Label))
    BY <1>1, <2>1, AddProjects, ExtensionReflexive
  <2>4. ~Rewritten(log, log')
    BY <1>1, <2>1, <2>2, <2>3, BeginsOrdinary
  <2>5. ~LabelOlder => Projection(log').model = Projection(log).model
    <3>1. ~LabelOlder => entry = Leaf(log)
      BY <1>25 DEF LabelEntry
    <3> QED BY <1>9, <2>1, <2>2, <3>1 DEF Ordinary
  <2> QED BY <2>4, <2>5 DEF ControlsGoverned
<1>26. CASE Reset(w)
  <2>1. log' = RewriteLog(log)
    BY <1>3, <1>26 DEF Reset
  <2>2. Controls(Projection(log')) = Controls(Projection(log))
    BY <1>1, <2>1, ResetRestates
  <2>3. Projection(log').model = Projection(log).model
    BY <2>2 DEF Controls
  <2> QED BY <2>2, <2>3 DEF ControlsGoverned
<1> QED
  BY <1>6, <1>7, <1>8, <1>11, <1>12, <1>13, <1>14, <1>15, <1>16, <1>17, <1>18, <1>20,
     <1>21, <1>22, <1>23, <1>24, <1>25, <1>26 DEF WriterStep

-----------------------------------------------------------------------------
(* Theorems *)

LEMMA NewLogExtends == Extension(<<>>, NewLog(FirstModel, Creator))
<1> DEFINE info == Add(<<>>, 0, Info(FirstModel, Creator, NoRules))
           state == [Base EXCEPT !.mode = "auto"]
<1>1. WellFormed(<<>>) /\ Len(<<>>) = 0
  BY DEF WellFormed
<1>2. Extension(<<>>, info)
  <2>1. Info(FirstModel, Creator, NoRules) \in PlainBodies
    BY BodyConstructors, SessionStoreAssumption DEF NoRules, Rules
  <2> QED BY <1>1, <2>1, AddExtends
<1>3. state \in States
  BY BaseType, SessionTreeAssumption DEF Base, States
<1> HIDE DEF info, state
<1>4. Extension(info, RestatePermissions(info, state))
  BY <1>2, <1>3, RestatePermissionsExtends DEF Extension
<1>5. Extension(<<>>, RestatePermissions(info, state))
  BY <1>1, <1>2, <1>4, ExtensionTransitive
<1> QED BY <1>5 DEF NewLog, info, state

LEMMA InitType == Init => TypeOK
<1>5. WellFormed(NewLog(FirstModel, Creator))
  BY NewLogExtends DEF Extension
<1>6. Len(NewLog(FirstModel, Creator)) \in Nat
  BY <1>5 DEF WellFormed
<1>7. [w \in Writers |-> -1] \in [Writers -> -1..Len(NewLog(FirstModel, Creator))]
  BY <1>6
<1> QED BY <1>5, <1>7 DEF Init, TypeOK, Nothing

LEMMA NextExtends ==
  ASSUME TypeOK, [Next]_vars
  PROVE  TypeOK' /\ Extension(log, log') /\ (torn => log' = log)
<1>1. Extension(log, log)
  BY ExtensionReflexive DEF TypeOK
<1>2. CASE RepairTail
  BY <1>1, <1>2 DEF RepairTail, TypeOK
<1>3. CASE UNCHANGED vars
  BY <1>1, <1>3 DEF vars, TypeOK
<1>4. ASSUME NEW w \in Writers, WriterStep(w)
      PROVE  TypeOK' /\ Extension(log, log') /\ (torn => log' = log)
  BY <1>4, StepExtends
<1> QED BY <1>2, <1>3, <1>4 DEF Next

\* The file stays well formed whatever the writers do and wherever they die:
\* every append of pony/state/session_store.py, batches of several lines
\* included, leaves entries a later reader accepts, and no writer holds an
\* expectation about a leaf the file never had.
THEOREM TypeCorrect == Spec => []TypeOK
<1>1. TypeOK /\ [Next]_vars => TypeOK'
  BY NextExtends
<1> QED BY InitType, <1>1, PTL DEF Spec

\* No step rewrites or drops a complete line or appends behind an incomplete
\* one: repair_tail and every append leave the complete lines as they were.
THEOREM Persistence == Spec => AppendOnly
<1>1. TypeOK /\ [Next]_vars
        => [/\ Len(log) <= Len(log')
            /\ SubSeq(log', 1, Len(log)) = log
            /\ torn => log' = log]_vars
  <2> SUFFICES ASSUME TypeOK, [Next]_vars
               PROVE  /\ Len(log) <= Len(log')
                      /\ SubSeq(log', 1, Len(log)) = log
                      /\ torn => log' = log
    OBVIOUS
  <2>1. Extension(log, log') /\ (torn => log' = log)
    BY NextExtends
  <2>2. log \in Seq(Entries) /\ log' \in Seq(Entries)
    BY <2>1 DEF TypeOK, Extension, WellFormed
  <2>3. /\ Len(log) \in Nat /\ Len(log') \in Nat /\ Len(log) <= Len(log')
        /\ \A i \in 1..Len(log) : log'[i] = log[i]
    BY <2>1, <2>2 DEF Extension
  <2>4. SubSeq(log', 1, Len(log)) = log
    BY <2>2, <2>3
  <2> QED BY <2>1, <2>3, <2>4
<1> QED BY TypeCorrect, <1>1, PTL DEF Spec, AppendOnly

\* The strengthening of NothingForgotten, KeptEntryOnPath,
\* BranchSummaryComplete, PlanRevisionNamesOneText and CloneKeepsConversation
\* that every step preserves: the same facts on every branch, paths that nest,
\* plan revisions that rise along each of them, modes with the mode to return
\* to, and compactions that keep from a message on.
ContextInv ==
    TypeOK /\ Intact(log) /\ Told(log) /\ Revised(log) /\ Remembered(log) /\ KeepsMessages(log)

LEMMA InitContext == Init => ContextInv
<1>1. WellFormed(<<>>) /\ Len(<<>>) = 0 /\ PathTo(<<>>, 0) = {}
  BY DEF WellFormed, PathTo
<1>2. Intact(<<>>)
  BY <1>1 DEF Intact, KeptEntryFound, NewestCompaction, MessagesOn
<1>3. Told(<<>>)
  BY DEF Told, Nested
<1>4. Revised(<<>>)
  BY <1>1 DEF Revised, Plans
<1>5. Remembered(<<>>)
  BY <1>1, SessionTreeAssumption DEF Remembered, Remembers, StateAt, Base
<1>6. KeepsMessages(<<>>)
  BY DEF KeepsMessages
<1>7. ASSUME Init
      PROVE  /\ Intact(log) /\ Told(log) /\ Revised(log) /\ Remembered(log)
             /\ KeepsMessages(log)
  BY <1>2, <1>3, <1>4, <1>5, <1>6, <1>7, NewLogExtends DEF Init, Extension
<1> QED BY <1>7, InitType DEF ContextInv

LEMMA NextContext == ContextInv /\ [Next]_vars => ContextInv'
<1> SUFFICES ASSUME ContextInv, [Next]_vars
             PROVE  /\ TypeOK' /\ Intact(log') /\ Told(log') /\ Revised(log') /\ Remembered(log')
                    /\ KeepsMessages(log')
  BY DEF ContextInv
<1>1. TypeOK' /\ Extension(log, log')
  BY NextExtends DEF ContextInv
<1> QED BY <1>1 DEF Extension, ContextInv

LEMMA TellsMeaning ==
  ASSUME WellFormed(log), Told(log)
  PROVE  BranchSummaryComplete
  BY DEF Told, TellsAbandoned, BranchSummaryComplete

LEMMA ContextMeaning ==
  ContextInv => /\ NothingForgotten /\ KeptEntryOnPath
                /\ BranchSummaryComplete /\ PlanRevisionNamesOneText
<1>1. ContextInv => NothingForgotten /\ KeptEntryOnPath
  BY ProjectionType DEF ContextInv, TypeOK, Intact, NothingForgotten, KeptEntryOnPath
<1>2. ContextInv => BranchSummaryComplete
  BY TellsMeaning DEF ContextInv, TypeOK
<1>3. ContextInv => PlanRevisionNamesOneText
  BY ProjectionType DEF ContextInv, TypeOK, Revised, Plans, PlanRevisionNamesOneText
<1> QED BY <1>1, <1>2, <1>3

\* Whatever is compacted, rewound, summarised or labelled, and by whom, and
\* wherever a writer dies: a message of the active branch is shown verbatim or
\* was an input of the newest summary (context_view_from_tree, compact_session).
THEOREM NoMessageForgotten == Spec => []NothingForgotten
  BY InitContext, NextContext, ContextMeaning, PTL DEF Spec

\* No history of the file makes the context unbuildable: the first entry the
\* newest compaction keeps is still on the active path.
THEOREM KeptEntrySurvives == Spec => []KeptEntryOnPath
  BY InitContext, NextContext, ContextMeaning, PTL DEF Spec

\* A branch summary tells exactly the messages its rewind abandoned, although
\* it was generated, by a model call, before the rewind was appended and others
\* may have moved the leaf meanwhile (prepare_branch_summary,
\* rewind_with_summary).
THEOREM SummaryTellsAbandoned == Spec => []BranchSummaryComplete
  BY InitContext, NextContext, ContextMeaning, PTL DEF Spec

\* On one branch a plan revision names one text, through rewinds that bring
\* older revisions back and resets that restate the plan: an approval that
\* compares revision and text approves what was shown (set_plan_text,
\* exit_plan_mode).
THEOREM RevisionsNamePlans == Spec => []PlanRevisionNamesOneText
  BY InitContext, NextContext, ContextMeaning, PTL DEF Spec

\* A reset drops the conversation and keeps mode, mode to return to, rules, plan
\* and model, whatever they are, whoever set them on which branch, as long as
\* the process lives to write all of its lines (save with force_branch; what a
\* death leaves is the subject of the run reset_cut_short).
THEOREM ResetsKeepControls ==
  ASSUME ~CanCrash PROVE Spec => ResetKeepsControls
<1>1. ContextInv /\ [Next]_vars =>
        [Rewritten(log, log') => Controls(Projection(log')) = Controls(Projection(log))]_vars
  <2> SUFFICES ASSUME ContextInv, [Next]_vars, Rewritten(log, log')
               PROVE  Controls(Projection(log')) = Controls(Projection(log))
    OBVIOUS
  <2>1. TypeOK /\ Remembers(Projection(log)) /\ Len(log) \in Nat
    BY ProjectionType DEF ContextInv, TypeOK, Remembered, Projection
  <2>2. log' # log
    BY <2>1 DEF Rewritten
  <2>3. PICK w \in Writers : WriterStep(w)
    BY <2>2 DEF Next, RepairTail, vars
  <2> QED BY <2>1, <2>3, StepGoverned DEF ControlsGoverned
<1> QED BY <1>1, InitContext, NextContext, PTL DEF Spec, ResetKeepsControls, Rewritten

\* The Session is bound to a model at every time.
BoundInv == ContextInv /\ Projection(log).model \in Models

LEMMA InitBound == Init => BoundInv
<1> DEFINE body == Info(FirstModel, Creator, NoRules)
           info == Add(<<>>, 0, body)
           state == [Base EXCEPT !.mode = "auto"]
           change == ModeChange(state.mode, IF state.mode = "plan" THEN state.pre ELSE None)
<1>1. /\ body \in Bodies /\ body.kind = "session_info" /\ body.data.model = FirstModel
      /\ FirstModel # None
  BY BodyConstructors, SessionStoreAssumption, SessionTreeAssumption DEF PlainBodies, Info, NoRules, Rules
<1>2. WellFormed(<<>>) /\ Len(<<>>) = 0 /\ StateAt(<<>>, 0) = Base
  BY DEF WellFormed, StateAt
<1>3. change \in Bodies /\ KeepsModel(change)
  <2>1. state.mode = "auto" /\ "auto" \in Modes
    BY SessionTreeAssumption DEF Base
  <2> QED BY <2>1, BodyConstructors DEF PlainBodies, ModeChange, KeepsModel
<1> HIDE DEF body, change
<1>4. WellFormed(info) /\ Projection(info) = ApplyEntry(Base, body, 1)
  BY <1>1, <1>2, AddProjects
<1>5. ApplyEntry(Base, body, 1).model = FirstModel
  BY <1>1 DEF ApplyEntry, ApplyInfo, Base
<1> HIDE DEF info
<1>6. Projection(AddIf(state.mode # "default", info, change)).model = FirstModel
  BY <1>3, <1>4, <1>5, AddIfKeepsModel
<1>7. Projection(NewLog(FirstModel, Creator)).model = FirstModel
  BY <1>6 DEF NewLog, RestatePermissions, info, body, change
<1> QED BY <1>7, InitContext, SessionStoreAssumption DEF Init, BoundInv

\* Only the model writer changes the model a Session is bound to: every branch
\* a rewind or a reset begins has the binding that was in force before, as long
\* as a label is put on the active leaf and a process lives to write its lines
\* (_provider_binding_entry; the run label_moves_binding shows what a label on an
\* older entry does).
THEOREM BindingIsTheWriters ==
  ASSUME ~CanCrash, ~LabelOlder PROVE Spec => BindingOnlyByWriter
<1>1. BoundInv /\ [Next]_vars =>
        /\ BoundInv'
        /\ [Projection(log').model # Projection(log).model =>
              \E w \in Writers, model \in Models : SetProviderModel(w, model)]_vars
  <2> SUFFICES ASSUME BoundInv, [Next]_vars
               PROVE  /\ Projection(log').model \in Models
                      /\ \/ Projection(log').model = Projection(log).model
                         \/ \E w \in Writers, model \in Models : SetProviderModel(w, model)
    BY NextContext DEF BoundInv
  <2>1. TypeOK /\ Remembers(Projection(log)) /\ Projection(log).model \in Models
    BY ProjectionType DEF BoundInv, ContextInv, TypeOK, Remembered, Projection
  <2>2. CASE log' = log
    BY <2>1, <2>2
  <2>3. ASSUME NEW w \in Writers, NEW model \in Models, SetProviderModel(w, model)
        PROVE  Projection(log').model \in Models
    <3> DEFINE body == Info(model, None, None)
    <3>1. /\ body \in Bodies /\ body.kind = "session_info" /\ body.data.model = model
          /\ model # None
      BY BodyConstructors, SessionTreeAssumption DEF PlainBodies, Info
    <3>2. log' = Add(log, Leaf(log), body)
      BY <2>3 DEF SetProviderModel, Write, Complete, Die
    <3>3. WellFormed(log) /\ Leaf(log) \in 0..Len(log) /\ Projection(log) \in States
      BY <2>1, ProjectionType DEF TypeOK
    <3> HIDE DEF body
    <3>4. Projection(log') = ApplyEntry(Projection(log), body, Len(log) + 1)
      BY <3>1, <3>2, <3>3, AddProjects DEF Projection
    <3>5. ApplyEntry(Projection(log), body, Len(log) + 1).model = model
      BY <3>1, <3>3 DEF ApplyEntry, ApplyInfo, States
    <3> QED BY <3>4, <3>5
  <2>4. CASE log' # log
    <3>1. PICK w \in Writers : WriterStep(w)
      BY <2>4 DEF Next, RepairTail, vars
    <3>2. ControlsGoverned(w)
      BY <2>1, <3>1, StepGoverned
    <3> QED BY <2>1, <2>3, <3>2 DEF ControlsGoverned
  <2> QED BY <2>2, <2>4
<1> QED BY <1>1, InitBound, PTL DEF Spec, BindingOnlyByWriter

-----------------------------------------------------------------------------
(* Clones: the order of the messages and the chain they become *)

\* The places of some numbers among them.
LEMMA RankType ==
  ASSUME NEW n \in Nat, NEW S, S \subseteq 1..n
  PROVE  /\ IsFiniteSet(S) /\ Cardinality(S) \in Nat
         /\ \A i \in S : Rank(S, i) \in 1..Cardinality(S)
         /\ \A i, j \in S : i < j => Rank(S, i) < Rank(S, j)
<1>1. IsFiniteSet(S)
  <2>1. IsFiniteSet(1..n)
    BY FS_Interval
  <2>2. S \in SUBSET (1..n)
    OBVIOUS
  <2> QED BY <2>1, <2>2, FS_Subset
<1>2. Cardinality(S) \in Nat
  BY <1>1, FS_CardinalityType
<1>3. ASSUME NEW i \in S
      PROVE  /\ IsFiniteSet({j \in S : j <= i}) /\ Rank(S, i) \in Nat
             /\ Rank(S, i) <= Cardinality(S) /\ Rank(S, i) # 0
  <2> DEFINE T == {j \in S : j <= i}
  <2>1. T \subseteq S /\ i \in T
    OBVIOUS
  <2> HIDE DEF T
  <2>2. IsFiniteSet(T) /\ Cardinality(T) <= Cardinality(S) /\ Cardinality(T) \in Nat
    BY <1>1, <2>1, FS_Subset, FS_CardinalityType
  <2>3. Cardinality(T) # 0
    BY <2>1, <2>2, FS_EmptySet
  <2> QED BY <2>2, <2>3 DEF Rank, T
<1>4. ASSUME NEW i \in S, NEW j \in S, i < j
      PROVE  Rank(S, i) < Rank(S, j)
  <2> DEFINE T == {k \in S : k <= i}
             U == {k \in S : k <= j}
  <2>0. S \subseteq Nat /\ i \in Nat /\ j \in Nat
    OBVIOUS
  <2>1. T \subseteq U /\ j \in U /\ j \notin T
    <3>1. \A k \in Nat : k <= i => k <= j
      BY <1>4, <2>0
    <3>2. ~(j <= i) /\ j <= j
      BY <1>4, <2>0
    <3> QED BY <2>0, <3>1, <3>2
  <2>2. /\ IsFiniteSet(U) /\ Cardinality(T) \in Nat /\ Cardinality(U) \in Nat
        /\ Rank(S, i) = Cardinality(T) /\ Rank(S, j) = Cardinality(U)
    BY <1>3 DEF Rank
  <2> HIDE DEF T, U
  <2>3. Cardinality(T) <= Cardinality(U) /\ Cardinality(T) # Cardinality(U)
    BY <2>1, <2>2, FS_Subset
  <2>4. Cardinality(T) < Cardinality(U)
    BY <2>2, <2>3
  <2> QED BY <2>2, <2>4
<1>5. ASSUME NEW i \in S
      PROVE  Rank(S, i) \in 1..Cardinality(S)
  <2> DEFINE r == Rank(S, i)
             m == Cardinality(S)
  <2>1. r \in Nat /\ r <= m /\ r # 0 /\ m \in Nat
    BY <1>2, <1>3
  <2> HIDE DEF r, m
  <2>2. r \in 1..m
    BY <2>1
  <2> QED BY <2>2 DEF r, m
<1> QED BY <1>1, <1>2, <1>4, <1>5

\* Every place is taken, by one number.
LEMMA NthIs ==
  ASSUME NEW n \in Nat, NEW S, S \subseteq 1..n
  PROVE  /\ \A k \in 1..Cardinality(S) : Nth(S, k) \in S /\ Rank(S, Nth(S, k)) = k
         /\ \A i \in S : Nth(S, Rank(S, i)) = i
<1> DEFINE m == Cardinality(S)
           f == [i \in S |-> Rank(S, i)]
<1>1. /\ IsFiniteSet(S) /\ m \in Nat
      /\ \A i \in S : Rank(S, i) \in 1..m
      /\ \A i, j \in S : i < j => Rank(S, i) < Rank(S, j)
  BY RankType
<1> HIDE DEF m
<1>2. ASSUME NEW i \in S, NEW j \in S, Rank(S, i) = Rank(S, j)
      PROVE  i = j
  <2>1. Rank(S, i) \in Nat /\ Rank(S, j) \in Nat /\ i \in Nat /\ j \in Nat
    BY <1>1
  <2>2. ~(i < j) /\ ~(j < i)
    BY <1>1, <1>2, <2>1
  <2> QED BY <2>1, <2>2
<1>3. f \in Injection(S, 1..m)
  BY <1>1, <1>2 DEF Injection, IsInjective
<1>4. IsFiniteSet(1..m) /\ Cardinality(1..m) = m
  BY <1>1, FS_Interval
<1>5. f \in Surjection(S, 1..m)
  <2> HIDE DEF f
  <2>1. Cardinality(S) = Cardinality(1..m)
    BY <1>4 DEF m
  <2> QED BY <1>3, <1>4, <2>1, FS_Injection
<1>6. ASSUME NEW k \in 1..m
      PROVE  Nth(S, k) \in S /\ Rank(S, Nth(S, k)) = k
  <2>1. \E i \in S : Rank(S, i) = k
    BY <1>5 DEF Surjection
  <2> QED BY <2>1, Zenon DEF Nth
<1>7. ASSUME NEW i \in S
      PROVE  Nth(S, Rank(S, i)) = i
  <2>1. Rank(S, i) \in 1..m
    BY <1>1
  <2>2. Nth(S, Rank(S, i)) \in S /\ Rank(S, Nth(S, Rank(S, i))) = Rank(S, i)
    BY <1>6, <2>1
  <2> QED BY <1>2, <2>2
<1> QED BY <1>6, <1>7 DEF m

\* Numbers in a row.
LEMMA NthInRow ==
  ASSUME NEW b \in Nat, NEW m \in Nat
  PROVE  /\ Cardinality((b + 1)..(b + m)) = m
         /\ \A k \in 1..m : Nth((b + 1)..(b + m), k) = b + k
<1> DEFINE T == (b + 1)..(b + m)
<1>1. T \subseteq 1..(b + m) /\ b + m \in Nat
  OBVIOUS
<1>2. Cardinality(T) = m
  <2>1. /\ b + 1 \in Int /\ b + m \in Int
        /\ (IF b + 1 > b + m THEN 0 ELSE (b + m) - (b + 1) + 1) = m
    OBVIOUS
  <2> QED BY <2>1, FS_Interval
<1>3. ASSUME NEW k \in 1..m
      PROVE  b + k \in T /\ Rank(T, b + k) = k
  <2>1. b + k \in T /\ {j \in T : j <= b + k} = (b + 1)..(b + k)
    OBVIOUS
  <2>2. Cardinality((b + 1)..(b + k)) = k
    <3>1. /\ b + 1 \in Int /\ b + k \in Int
          /\ (IF b + 1 > b + k THEN 0 ELSE (b + k) - (b + 1) + 1) = k
      OBVIOUS
    <3> QED BY <3>1, FS_Interval
  <2> HIDE DEF T
  <2> QED BY <2>1, <2>2 DEF Rank
<1> HIDE DEF T
<1>4. ASSUME NEW k \in 1..m
      PROVE  Nth(T, k) = b + k
  BY <1>1, <1>3, NthIs, Zenon
<1> QED BY <1>2, <1>4 DEF T

\* What a tail of the numbers becomes when they are put in a row.
LEMMA RowOfRanks ==
  ASSUME NEW n \in Nat, NEW S, S \subseteq 1..n, NEW b \in Nat
  PROVE  LET m == Cardinality(S)
         IN  /\ {b + Rank(S, i) : i \in S} = (b + 1)..(b + m)
             /\ \A q \in S : {b + Rank(S, i) : i \in {j \in S : q <= j}}
                               = {i \in (b + 1)..(b + m) : b + Rank(S, q) <= i}
<1> DEFINE m == Cardinality(S)
<1>1. /\ m \in Nat
      /\ \A i \in S : Rank(S, i) \in 1..m
      /\ \A i, j \in S : i < j => Rank(S, i) < Rank(S, j)
  BY RankType
<1>2. \A k \in 1..m : Nth(S, k) \in S /\ Rank(S, Nth(S, k)) = k
  BY NthIs
<1> HIDE DEF m
<1>3. ASSUME NEW i \in S
      PROVE  b + Rank(S, i) \in (b + 1)..(b + m)
  <2>1. Rank(S, i) \in 1..m
    BY <1>1
  <2> DEFINE r == Rank(S, i)
  <2> HIDE DEF r
  <2>2. r \in 1..m => b + r \in (b + 1)..(b + m)
    BY <1>1
  <2> QED BY <2>1, <2>2 DEF r
<1>4. ASSUME NEW j \in (b + 1)..(b + m)
      PROVE  \E i \in S : b + Rank(S, i) = j
  <2> DEFINE k == j - b
  <2>1. k \in 1..m /\ b + k = j
    BY <1>1
  <2> HIDE DEF k
  <2> QED BY <1>2, <2>1
<1>5. ASSUME NEW q \in S, NEW i \in S
      PROVE  q <= i <=> b + Rank(S, q) <= b + Rank(S, i)
  <2>1. Rank(S, i) \in Nat /\ Rank(S, q) \in Nat /\ i \in Nat /\ q \in Nat
    BY <1>1
  <2>2. q = i \/ q < i \/ i < q
    BY <2>1
  <2>3. /\ q < i => Rank(S, q) < Rank(S, i)
        /\ i < q => Rank(S, i) < Rank(S, q)
    BY <1>1
  <2> DEFINE r == Rank(S, i)
             t == Rank(S, q)
  <2>4. (q < i => t < r) /\ (i < q => r < t) /\ (q = i => t = r) /\ r \in Nat /\ t \in Nat
    BY <2>1, <2>3
  <2> HIDE DEF r, t
  <2>5. q <= i <=> b + t <= b + r
    BY <2>1, <2>2, <2>4
  <2> QED BY <2>5 DEF r, t
<1>6. {b + Rank(S, i) : i \in S} = (b + 1)..(b + m)
  BY <1>3, <1>4
<1>7. ASSUME NEW q \in S
      PROVE  {b + Rank(S, i) : i \in {j \in S : q <= j}}
               = {i \in (b + 1)..(b + m) : b + Rank(S, q) <= i}
  <2> DEFINE A == {b + Rank(S, i) : i \in {j \in S : q <= j}}
             B == {i \in (b + 1)..(b + m) : b + Rank(S, q) <= i}
  <2>1. ASSUME NEW x \in A
        PROVE  x \in B
    <3>1. PICK i \in S : q <= i /\ x = b + Rank(S, i)
      OBVIOUS
    <3> QED BY <1>3, <1>5, <3>1
  <2>2. ASSUME NEW x \in B
        PROVE  x \in A
    <3>1. PICK i \in S : b + Rank(S, i) = x
      BY <1>4
    <3>2. q <= i
      BY <1>5, <3>1
    <3> QED BY <3>1, <3>2
  <2> HIDE DEF A, B
  <2>3. A = B
    BY <2>1, <2>2
  <2> QED BY <2>3 DEF A, B
<1> QED BY <1>6, <1>7 DEF m

\* Every set of natural numbers that is not empty has a least one, and what
\* passes from 0 to each next number up to a bound holds up to the bound.
LEMMA LeastNumber ==
  ASSUME NEW T, T \subseteq Nat, T # {}
  PROVE  \E x \in T : \A y \in T : x <= y
<1> DEFINE R == OpToRel(<, Nat)
<1>1. IsWellFoundedOn(R, Nat)
  BY NatLessThanWellFounded
<1>2. \A x, y \in Nat : <<y, x>> \notin R => x <= y
  BY DEF OpToRel
<1> HIDE DEF R
<1>3. PICK x \in T : \A y \in T : ~ (<<y, x>> \in R)
  BY <1>1, WFMin
<1> QED BY <1>2, <1>3

LEMMA InductionUpTo ==
  ASSUME NEW n \in Nat, NEW S, 0 \in S, \A k \in 0..(n - 1) : k \in S => k + 1 \in S
  PROVE  \A k \in 0..n : k \in S
<1> SUFFICES ASSUME NEW m \in 0..n, m \notin S PROVE FALSE
  OBVIOUS
<1> DEFINE T == {k \in 0..n : k \notin S}
<1>1. PICK x \in T : \A y \in T : x <= y
  <2>1. T \subseteq Nat /\ T # {}
    OBVIOUS
  <2> HIDE DEF T
  <2> QED BY <2>1, LeastNumber
<1>2. x # 0 /\ x - 1 \in 0..(n - 1) /\ x - 1 < x
  BY <1>1
<1>3. x - 1 \notin T
  BY <1>1, <1>2
<1>4. x - 1 \in S
  BY <1>2, <1>3
<1> QED BY <1>1, <1>2, <1>4

\* The files of RenderNewTree, one per message.
Chained(g, base, bodies, n) ==
    g = [k \in 0..n |-> IF k = 0 THEN base ELSE Add(g[k - 1], Leaf(g[k - 1]), bodies[k])]

LEMMA ChainExists ==
  ASSUME NEW base, NEW bodies, NEW n \in Nat
  PROVE  \E g : Chained(g, base, bodies, n)
<1> DEFINE S == {k \in 0..n : \E g : Chained(g, base, bodies, k)}
<1>1. 0 \in S
  <2> DEFINE g == [k \in 0..0 |-> base]
  <2>1. g = [k \in 0..0 |-> IF k = 0 THEN base ELSE Add(g[k - 1], Leaf(g[k - 1]), bodies[k])]
    OBVIOUS
  <2> HIDE DEF g
  <2>2. Chained(g, base, bodies, 0)
    BY <2>1 DEF Chained
  <2> QED BY <2>2
<1>2. ASSUME NEW m \in 0..(n - 1), m \in S
      PROVE  m + 1 \in S
  <2>1. PICK g : Chained(g, base, bodies, m)
    BY <1>2
  <2> DEFINE new == Add(g[m], Leaf(g[m]), bodies[m + 1])
             h == [k \in 0..(m + 1) |-> IF k = m + 1 THEN new ELSE g[k]]
  <2>2. /\ DOMAIN h = 0..(m + 1) /\ h[m + 1] = new
        /\ \A k \in 0..m : h[k] = g[k]
        /\ h = [k \in 0..(m + 1) |-> h[k]]
    OBVIOUS
  <2> HIDE DEF h
  <2>3. ASSUME NEW k \in 0..(m + 1)
        PROVE  h[k] = IF k = 0 THEN base ELSE Add(h[k - 1], Leaf(h[k - 1]), bodies[k])
    <3>1. CASE k = m + 1
      <4>1. k - 1 = m /\ m \in 0..m /\ k # 0
        BY <3>1
      <4> QED BY <2>2, <3>1, <4>1
    <3>2. CASE k # m + 1
      <4>1. k \in 0..m /\ (k # 0 => k - 1 \in 0..m)
        BY <3>2
      <4>2. g[k] = IF k = 0 THEN base ELSE Add(g[k - 1], Leaf(g[k - 1]), bodies[k])
        BY <2>1, <4>1, Zenon DEF Chained
      <4> QED BY <2>2, <4>1, <4>2
    <3> QED BY <3>1, <3>2
  <2>4. h = [k \in 0..(m + 1) |-> IF k = 0 THEN base ELSE Add(h[k - 1], Leaf(h[k - 1]), bodies[k])]
    BY <2>2, <2>3
  <2>5. Chained(h, base, bodies, m + 1)
    BY <2>4 DEF Chained
  <2>6. m + 1 \in 0..n
    OBVIOUS
  <2> QED BY <2>5, <2>6
<1> HIDE DEF S
<1>3. n \in S
  BY <1>1, <1>2, InductionUpTo
<1> QED BY <1>3 DEF S

-----------------------------------------------------------------------------
(* Clones: the views of a file without branches *)

Straight(l) == \A i \in DOMAIN l : l[i].path = 1..i

\* The file e is l with one more line at its end.
Continues(l, e, body) ==
    /\ Len(l) \in Nat /\ DOMAIN l = 1..Len(l) /\ PathTo(l, Leaf(l)) = 1..Len(l)
    /\ Leaf(l) = Len(l) /\ Leaf(e) = Len(l) + 1
    /\ Len(e) = Len(l) + 1 /\ DOMAIN e = 1..(Len(l) + 1)
    /\ PathTo(e, Leaf(e)) = 1..(Len(l) + 1)
    /\ \A j \in 1..Len(l) : e[j] = l[j]
    /\ e[Len(l) + 1].kind = body.kind /\ e[Len(l) + 1].data = body.data

\* The last line of a clone is not one the store accepts from others: a
\* checkpoint without the identity of a runtime.  So the body is any here.
LEMMA AddContinues ==
  ASSUME NEW l, WellFormed(l), Straight(l), NEW body
  PROVE  /\ Continues(l, Add(l, Leaf(l), body), body)
         /\ Straight(Add(l, Leaf(l), body))
         /\ Projection(Add(l, Leaf(l), body)) = ApplyEntry(Projection(l), body, Len(l) + 1)
<1> DEFINE n == Len(l)
           state == ApplyEntry(StateAt(l, Leaf(l)), body, n + 1)
           path == PathTo(l, Leaf(l)) \cup {n + 1}
           entry == [parent |-> Leaf(l), kind |-> body.kind, data |-> body.data,
                     path |-> path, state |-> state]
           T == Entries \cup {entry}
           e == Append(l, entry)
<1>1. Add(l, Leaf(l), body) = e
  BY DEF Add
<1>2. l \in Seq(Entries) /\ n \in Nat /\ DOMAIN l = 1..n /\ Leaf(l) = n
  BY DEF WellFormed, Leaf
<1>3. PathTo(l, Leaf(l)) = 1..n
  <2>1. CASE n = 0
    BY <1>2, <2>1 DEF PathTo
  <2>2. CASE n # 0
    <3>1. n \in DOMAIN l
      BY <1>2, <2>2
    <3> QED BY <1>2, <2>2, <3>1 DEF PathTo, Straight
  <2> QED BY <2>1, <2>2
<1>4. path = 1..(n + 1)
  BY <1>2, <1>3
<1>5. /\ entry.kind = body.kind /\ entry.data = body.data
      /\ entry.path = path /\ entry.state = state
  OBVIOUS
<1> HIDE DEF entry, path, state
<1>6. /\ Len(e) = n + 1 /\ DOMAIN e = 1..(n + 1)
      /\ \A j \in 1..n : e[j] = l[j]
      /\ e[n + 1] = entry
  <2>1. l \in Seq(T) /\ entry \in T
    BY <1>2
  <2> HIDE DEF T
  <2> QED BY <1>2, <2>1
<1> HIDE DEF e, n
<1>7. Leaf(e) = n + 1 /\ n + 1 # 0 /\ Len(l) = n
  BY <1>2, <1>6 DEF Leaf, n
<1>8. PathTo(e, Leaf(e)) = 1..(n + 1) /\ StateAt(e, Leaf(e)) = state
  BY <1>4, <1>5, <1>6, <1>7 DEF PathTo, StateAt
<1>9. Continues(l, e, body)
  BY <1>2, <1>3, <1>5, <1>6, <1>7, <1>8 DEF Continues
<1>10. Straight(e)
  <2>1. ASSUME NEW i \in 1..(n + 1)
        PROVE  e[i].path = 1..i
    <3>1. CASE i = n + 1
      BY <1>4, <1>5, <1>6, <3>1
    <3>2. CASE i # n + 1
      <4>1. i \in 1..n
        BY <1>2, <3>2
      <4> QED BY <1>2, <1>6, <4>1 DEF Straight
    <3> QED BY <3>1, <3>2
  <2> QED BY <1>6, <2>1 DEF Straight
<1> QED BY <1>1, <1>7, <1>8, <1>9, <1>10 DEF Projection, state

\* Entries that the context of a model depends on.
ViewKinds == {"message", "tool_exchange", "compaction", "branch_summary"}

BranchesShown(l) == {l[i].data.summary : i \in NewestBranchSummary(l)}

\* A line of another kind changes nothing that is shown.
LEMMA PlainLineShowsNothing ==
  ASSUME NEW l, NEW e, NEW body, Continues(l, e, body), body.kind \notin ViewKinds
  PROVE  /\ ActiveMessages(e) = ActiveMessages(l)
         /\ NewestCompaction(e, Leaf(e)) = NewestCompaction(l, Leaf(l))
         /\ NewestCompaction(l, Leaf(l)) \subseteq 1..Len(l)
         /\ BranchesShown(e) = BranchesShown(l)
         /\ NewestBranchSummary(e) = NewestBranchSummary(l)
<1> DEFINE n == Len(l)
<1>1. /\ n \in Nat /\ n + 1 \notin 1..n
      /\ PathTo(l, Leaf(l)) = 1..n /\ PathTo(e, Leaf(e)) = 1..n \cup {n + 1}
      /\ \A j \in 1..n : e[j] = l[j]
      /\ e[n + 1].kind = body.kind
  BY DEF Continues
<1> HIDE DEF n
<1>2. ActiveMessages(e) = ActiveMessages(l)
  BY <1>1 DEF ActiveMessages, MessagesOn, ViewKinds
<1>3. NewestCompaction(e, Leaf(e)) = NewestCompaction(l, Leaf(l))
  <2>1. {i \in PathTo(e, Leaf(e)) : e[i].kind = "compaction"}
          = {i \in PathTo(l, Leaf(l)) : l[i].kind = "compaction"}
    BY <1>1 DEF ViewKinds
  <2> QED BY <2>1 DEF NewestCompaction
<1>4. NewestBranchSummary(e) = NewestBranchSummary(l)
  <2>1. {i \in PathTo(e, Leaf(e)) : e[i].kind = "branch_summary"
            /\ \A c \in NewestCompaction(e, Leaf(e)) : c < i}
          = {i \in PathTo(l, Leaf(l)) : l[i].kind = "branch_summary"
            /\ \A c \in NewestCompaction(l, Leaf(l)) : c < i}
    BY <1>1, <1>3 DEF ViewKinds
  <2> QED BY <2>1 DEF NewestBranchSummary
<1>5. NewestBranchSummary(l) \subseteq 1..n /\ NewestCompaction(l, Leaf(l)) \subseteq 1..n
  BY <1>1 DEF NewestBranchSummary, NewestCompaction
<1>6. BranchesShown(e) = BranchesShown(l)
  <2>1. \A i \in NewestBranchSummary(l) : e[i].data.summary = l[i].data.summary
    BY <1>1, <1>5
  <2> QED BY <1>4, <2>1 DEF BranchesShown
<1> QED BY <1>2, <1>3, <1>4, <1>5, <1>6 DEF n

\* A compaction is the newest one, and no branch summary is after it.
LEMMA CompactionShows ==
  ASSUME NEW l, NEW e, NEW body, Continues(l, e, body), body.kind = "compaction"
  PROVE  /\ ActiveMessages(e) = ActiveMessages(l)
         /\ NewestCompaction(e, Leaf(e)) = {Leaf(e)}
         /\ BranchesShown(e) = {}
<1> DEFINE n == Len(l)
<1>1. /\ n \in Nat /\ n + 1 \notin 1..n /\ \A i \in 1..n : i <= n + 1
      /\ PathTo(l, Leaf(l)) = 1..n /\ PathTo(e, Leaf(e)) = 1..n \cup {n + 1}
      /\ \A j \in 1..n : e[j] = l[j] /\ ~(n + 1 <= j) /\ ~(n + 1 < j)
      /\ e[n + 1].kind = body.kind /\ Leaf(e) = n + 1 /\ n + 1 <= n + 1
      /\ ~(n + 1 < n + 1)
  BY DEF Continues
<1> HIDE DEF n
<1>2. ActiveMessages(e) = ActiveMessages(l)
  BY <1>1 DEF ActiveMessages, MessagesOn
<1>3. NewestCompaction(e, Leaf(e)) = {Leaf(e)}
  BY <1>1 DEF NewestCompaction
<1>4. NewestBranchSummary(e) = {}
  BY <1>1, <1>3 DEF NewestBranchSummary
<1> QED BY <1>2, <1>3, <1>4 DEF BranchesShown

\* A branch summary is the one shown, and changes nothing else.
LEMMA BranchSummaryShows ==
  ASSUME NEW l, NEW e, NEW body, Continues(l, e, body), body.kind = "branch_summary"
  PROVE  /\ ActiveMessages(e) = ActiveMessages(l)
         /\ NewestCompaction(e, Leaf(e)) = NewestCompaction(l, Leaf(l))
         /\ NewestCompaction(l, Leaf(l)) \subseteq 1..Len(l)
         /\ BranchesShown(e) = {body.data.summary}
         /\ NewestBranchSummary(e) = {Len(l) + 1}
<1> DEFINE n == Len(l)
<1>1. /\ n \in Nat /\ n + 1 \notin 1..n
      /\ \A j \in 1..n : j <= n + 1 /\ j < n + 1 /\ ~(n + 1 <= j)
      /\ PathTo(l, Leaf(l)) = 1..n /\ PathTo(e, Leaf(e)) = 1..n \cup {n + 1}
      /\ \A j \in 1..n : e[j] = l[j]
      /\ e[n + 1].kind = body.kind /\ e[n + 1].data = body.data
      /\ n + 1 <= n + 1
  BY DEF Continues
<1> HIDE DEF n
<1>2. ActiveMessages(e) = ActiveMessages(l)
  BY <1>1 DEF ActiveMessages, MessagesOn
<1>3. NewestCompaction(e, Leaf(e)) = NewestCompaction(l, Leaf(l))
  <2>1. {i \in PathTo(e, Leaf(e)) : e[i].kind = "compaction"}
          = {i \in PathTo(l, Leaf(l)) : l[i].kind = "compaction"}
    BY <1>1
  <2> QED BY <2>1 DEF NewestCompaction
<1>4. NewestCompaction(l, Leaf(l)) \subseteq 1..n
  BY <1>1 DEF NewestCompaction
<1>5. NewestBranchSummary(e) = {n + 1}
  <2> DEFINE unfolded == {i \in PathTo(e, Leaf(e)) : e[i].kind = "branch_summary"
                            /\ \A c \in NewestCompaction(e, Leaf(e)) : c < i}
  <2>1. n + 1 \in unfolded /\ unfolded \subseteq 1..n \cup {n + 1}
    BY <1>1, <1>3, <1>4
  <2> HIDE DEF unfolded
  <2>2. {b \in unfolded : \A c \in unfolded : c <= b} = {n + 1}
    BY <1>1, <2>1
  <2> QED BY <2>2 DEF NewestBranchSummary, unfolded
<1> QED BY <1>1, <1>2, <1>3, <1>4, <1>5 DEF BranchesShown, n

\* b lines that state the state, then m messages.
Rendered(l, b, m) ==
    /\ WellFormed(l) /\ Straight(l) /\ Len(l) = b + m
    /\ \A i \in 1..b : l[i].kind \notin ViewKinds
    /\ \A i \in (b + 1)..(b + m) : l[i].kind \in {"message", "tool_exchange"}

LEMMA StateRendered ==
  ASSUME NEW l, NEW b \in Nat, Rendered(l, b, 0), NEW body \in Bodies, body.kind \notin ViewKinds
  PROVE  Rendered(Add(l, Leaf(l), body), b + 1, 0)
<1> DEFINE e == Add(l, Leaf(l), body)
<1>1. WellFormed(l) /\ Len(l) = b /\ Straight(l) /\ \A i \in 1..b : l[i].kind \notin ViewKinds
  BY DEF Rendered
<1>2. WellFormed(e)
  BY <1>1, AddWellFormed, ProjectionType
<1>3. Straight(e) /\ Continues(l, e, body)
  BY <1>1, AddContinues
<1> HIDE DEF e
<1>4. /\ Len(e) = b + 1 /\ e[b + 1].kind \notin ViewKinds
      /\ \A i \in 1..b : e[i].kind \notin ViewKinds
  BY <1>1, <1>3 DEF Continues
<1>5. 1..(b + 1) = 1..b \cup {b + 1} /\ (b + 1 + 1)..(b + 1 + 0) = {} /\ b + 1 + 0 = b + 1
  OBVIOUS
<1> QED BY <1>2, <1>3, <1>4, <1>5 DEF Rendered, e

LEMMA MessageRendered ==
  ASSUME NEW l, NEW b \in Nat, NEW m \in Nat, Rendered(l, b, m),
         NEW body \in Bodies, body.kind \in {"message", "tool_exchange"}
  PROVE  /\ Rendered(Add(l, Leaf(l), body), b, m + 1)
         /\ Projection(Add(l, Leaf(l), body)) = Projection(l)
<1> DEFINE e == Add(l, Leaf(l), body)
<1>1. /\ WellFormed(l) /\ Len(l) = b + m /\ Straight(l)
      /\ \A i \in 1..b : l[i].kind \notin ViewKinds
      /\ \A i \in (b + 1)..(b + m) : l[i].kind \in {"message", "tool_exchange"}
  BY DEF Rendered
<1>2. WellFormed(e)
  BY <1>1, AddWellFormed, ProjectionType
<1>3. /\ Straight(e) /\ Continues(l, e, body)
      /\ Projection(e) = ApplyEntry(Projection(l), body, Len(l) + 1)
  BY <1>1, AddContinues
<1>4. ApplyEntry(Projection(l), body, Len(l) + 1) = Projection(l)
  BY DEF ApplyEntry
<1> HIDE DEF e
<1> DEFINE k == b + m
<1>5. /\ k \in Nat /\ k + 1 = b + (m + 1)
      /\ (b + 1)..(b + (m + 1)) = (b + 1)..(b + m) \cup {k + 1}
      /\ (b + 1)..(b + m) \subseteq 1..k /\ 1..b \subseteq 1..k
  OBVIOUS
<1>6. Len(l) = k
  BY <1>1
<1> HIDE DEF k
<1>7. Len(e) = k + 1 /\ e[k + 1].kind = body.kind /\ \A i \in 1..k : e[i] = l[i]
  BY <1>3, <1>6 DEF Continues
<1>8. /\ \A i \in 1..b : e[i].kind \notin ViewKinds
      /\ \A i \in (b + 1)..(b + (m + 1)) : e[i].kind \in {"message", "tool_exchange"}
  BY <1>1, <1>5, <1>7
<1>9. Rendered(e, b, m + 1)
  BY <1>2, <1>3, <1>5, <1>7, <1>8 DEF Rendered
<1> QED BY <1>3, <1>4, <1>9 DEF e

LEMMA RenderedShows ==
  ASSUME NEW l, NEW b \in Nat, NEW m \in Nat, Rendered(l, b, m)
  PROVE  /\ ActiveMessages(l) = (b + 1)..(b + m)
         /\ NewestCompaction(l, Leaf(l)) = {}
         /\ BranchesShown(l) = {}
<1>1. PathTo(l, Leaf(l)) = 1..(b + m)
  BY AddContinues DEF Rendered, Continues
<1>2. /\ 1..(b + m) = 1..b \cup (b + 1)..(b + m)
      /\ 1..b \cap (b + 1)..(b + m) = {}
  OBVIOUS
<1>3. /\ \A i \in 1..b : l[i].kind \notin ViewKinds
      /\ \A i \in (b + 1)..(b + m) : l[i].kind \in {"message", "tool_exchange"}
  BY DEF Rendered
<1> DEFINE A == 1..b
           B == (b + 1)..(b + m)
           C == 1..(b + m)
<1>4. /\ C = A \cup B /\ A \cap B = {} /\ PathTo(l, Leaf(l)) = C
      /\ \A i \in A : l[i].kind \notin ViewKinds
      /\ \A i \in B : l[i].kind \in {"message", "tool_exchange"}
  BY <1>1, <1>2, <1>3
<1> HIDE DEF A, B, C
<1>5. ActiveMessages(l) = B
  BY <1>4 DEF ActiveMessages, MessagesOn, ViewKinds
<1>6. /\ {i \in PathTo(l, Leaf(l)) : l[i].kind = "compaction"} = {}
      /\ {i \in PathTo(l, Leaf(l)) : l[i].kind = "branch_summary"} = {}
  BY <1>4 DEF ViewKinds
<1>7. NewestCompaction(l, Leaf(l)) = {} /\ NewestBranchSummary(l) = {}
  BY <1>6 DEF NewestCompaction, NewestBranchSummary
<1> QED BY <1>5, <1>7 DEF BranchesShown, B

-----------------------------------------------------------------------------
(* Clones: what clone_to_worktree writes *)

LEMMA AddIfRendered ==
  ASSUME NEW l, NEW b \in Nat, Rendered(l, b, 0), NEW condition \in BOOLEAN, NEW body,
         condition => body \in Bodies /\ body.kind \notin ViewKinds
  PROVE  \E c \in Nat : Rendered(AddIf(condition, l, body), c, 0)
<1>1. CASE condition
  <2>1. Rendered(Add(l, Leaf(l), body), b + 1, 0)
    BY <1>1, StateRendered
  <2>2. b + 1 \in Nat
    OBVIOUS
  <2> QED BY <1>1, <2>1, <2>2 DEF AddIf
<1>2. CASE ~condition
  BY <1>2 DEF AddIf
<1> QED BY <1>1, <1>2

\* The first lines of a clone are lines of state.
LEMMA StateIsRendered ==
  ASSUME NEW state \in States
  PROVE  \E b \in Nat : Rendered(Restated(<<>>, state), b, 0)
<1> DEFINE body == Info(state.model, state.identity, state.rules)
           info == Add(<<>>, Leaf(<<>>), body)
           change == ModeChange(state.mode, IF state.mode = "plan" THEN state.pre ELSE None)
           controls == RestatePermissions(info, state)
           plan == PlanArtifact(state.text, state.revision)
<1>1. Rendered(<<>>, 0, 0)
  <2>1. WellFormed(<<>>) /\ Len(<<>>) = 0 /\ DOMAIN <<>> = {}
    BY DEF WellFormed
  <2> QED BY <2>1 DEF Rendered, Straight
<1>2. body \in Bodies /\ body.kind \notin ViewKinds
  <2>1. /\ state.model \in Models \cup {None} /\ state.identity \in Writers \cup {None}
        /\ state.rules \in Rules
    BY DEF States
  <2>2. body \in Bodies
    BY <2>1, BodyConstructors DEF PlainBodies
  <2> QED BY <2>2 DEF Info, ViewKinds
<1>3. change \in Bodies /\ change.kind \notin ViewKinds
  <2>1. state.mode \in Modes /\ state.pre \in Modes \cup {None}
    BY DEF States
  <2>2. change \in Bodies
    BY <2>1, BodyConstructors DEF PlainBodies
  <2> QED BY <2>2 DEF ModeChange, ViewKinds
<1>4. state.revision > 0 => plan \in Bodies /\ plan.kind \notin ViewKinds
  BY DEF States, PlanArtifact, Bodies, PlanData, ViewKinds
<1> HIDE DEF body, change, plan
<1>5. Rendered(info, 1, 0)
  BY <1>1, <1>2, StateRendered
<1> HIDE DEF info
<1>6. PICK b \in Nat : Rendered(controls, b, 0)
  <2>1. (state.mode # "default") \in BOOLEAN
    OBVIOUS
  <2>2. \E b \in Nat : Rendered(AddIf(state.mode # "default", info, change), b, 0)
    BY <1>3, <1>5, <2>1, AddIfRendered
  <2> QED BY <2>2 DEF RestatePermissions, change
<1> HIDE DEF controls
<1>7. \E c \in Nat : Rendered(RestatePlan(controls, state), c, 0)
  <2>1. (state.revision > 0) \in BOOLEAN
    OBVIOUS
  <2>2. \E c \in Nat : Rendered(AddIf(state.revision > 0, controls, plan), c, 0)
    BY <1>4, <1>6, <2>1, AddIfRendered
  <2> QED BY <2>2 DEF RestatePlan, plan
<1> QED BY <1>7 DEF Restated, controls, info, body

\* RenderNewTree is the last file of its chain.
LEMMA TreeIsChained ==
  ASSUME NEW state, NEW bodies, Len(bodies) \in Nat
  PROVE  \E g : /\ Chained(g, Restated(<<>>, state), bodies, Len(bodies))
                /\ RenderNewTree(state, bodies) = g[Len(bodies)]
<1> DEFINE info == Add(<<>>, 0, Info(state.model, state.identity, state.rules))
           restated == RestatePlan(RestatePermissions(info, state), state)
           chain == CHOOSE g : g = [n \in 0..Len(bodies) |->
                        IF n = 0 THEN restated ELSE Add(g[n - 1], Leaf(g[n - 1]), bodies[n])]
<1>1. restated = Restated(<<>>, state)
  BY DEF Restated, Leaf
<1>2. RenderNewTree(state, bodies) = chain[Len(bodies)]
  BY Zenon DEF RenderNewTree
<1> HIDE DEF restated
<1>3. Chained(chain, restated, bodies, Len(bodies))
  <2>1. \E g : g = [n \in 0..Len(bodies) |->
                      IF n = 0 THEN restated ELSE Add(g[n - 1], Leaf(g[n - 1]), bodies[n])]
    <3>1. \E g : Chained(g, restated, bodies, Len(bodies))
      BY ChainExists
    <3> QED BY <3>1, Zenon DEF Chained
  <2>2. chain = [n \in 0..Len(bodies) |->
                   IF n = 0 THEN restated ELSE Add(chain[n - 1], Leaf(chain[n - 1]), bodies[n])]
    BY <2>1, Zenon
  <2> QED BY <2>2, Zenon DEF Chained
<1> HIDE DEF chain
<1> QED BY <1>1, <1>2, <1>3

\* The first m bodies are the lines after the b lines of state.
Carries(l, b, bodies, m) ==
    \A n \in 1..m : l[b + n].kind = bodies[n].kind /\ l[b + n].data = bodies[n].data

\* The copy of the messages: the bodies in their order, and the state is the one
\* that was stated.
LEMMA TreeRendered ==
  ASSUME NEW state \in States, Remembers(state), NEW bodies, Len(bodies) \in Nat,
         \A n \in 1..Len(bodies) : /\ bodies[n] \in Bodies
                                   /\ bodies[n].kind \in {"message", "tool_exchange"}
  PROVE  /\ \E b \in Nat : /\ Rendered(RenderNewTree(state, bodies), b, Len(bodies))
                           /\ Carries(RenderNewTree(state, bodies), b, bodies, Len(bodies))
         /\ Controls(Projection(RenderNewTree(state, bodies))) = Controls(state)
         /\ Projection(RenderNewTree(state, bodies)).identity = state.identity
<1> DEFINE base == Restated(<<>>, state)
           m == Len(bodies)
<1>1. PICK g : Chained(g, base, bodies, m) /\ RenderNewTree(state, bodies) = g[m]
  BY TreeIsChained
<1>2. PICK b \in Nat : Rendered(base, b, 0)
  BY StateIsRendered
<1>3. Controls(Projection(base)) = Controls(state) /\ Projection(base).identity = state.identity
  <2>1. WellFormed(<<>>) /\ Projection(<<>>) = Base
    BY DEF WellFormed, Projection, StateAt, Leaf
  <2> QED BY <2>1, StateRestated
<1> HIDE DEF base, m
<1> DEFINE S == {k \in 0..m : /\ Rendered(g[k], b, k) /\ Carries(g[k], b, bodies, k)
                              /\ Projection(g[k]) = Projection(base)}
<1>4. m \in Nat
  BY DEF m
<1>5. 0 \in S
  <2>1. 0 \in 0..m
    BY <1>4
  <2>2. g[0] = base
    BY <1>1, <2>1, Zenon DEF Chained
  <2>3. Carries(base, b, bodies, 0)
    BY DEF Carries
  <2> QED BY <1>2, <2>1, <2>2, <2>3
<1>6. ASSUME NEW k \in 0..(m - 1), k \in S
      PROVE  k + 1 \in S
  <2> DEFINE n == k + 1
             body == bodies[n]
  <2>1. n \in 0..m /\ n # 0 /\ n - 1 = k /\ n \in 1..m /\ k \in Nat
    BY <1>4
  <2> HIDE DEF n
  <2>2. g[n] = Add(g[n - 1], Leaf(g[n - 1]), body)
    BY <1>1, <2>1, Zenon DEF Chained
  <2>3. body \in Bodies /\ body.kind \in {"message", "tool_exchange"}
    BY <2>1 DEF m
  <2> HIDE DEF body
  <2>4. /\ Rendered(g[k], b, k) /\ Carries(g[k], b, bodies, k)
        /\ Projection(g[k]) = Projection(base)
    BY <1>6
  <2>5. /\ Rendered(Add(g[k], Leaf(g[k]), body), b, k + 1)
        /\ Projection(Add(g[k], Leaf(g[k]), body)) = Projection(g[k])
    BY <2>1, <2>3, <2>4, MessageRendered
  <2>6. Rendered(g[n], b, n) /\ Projection(g[n]) = Projection(base)
    BY <2>1, <2>2, <2>4, <2>5 DEF n
  <2>7. Carries(g[n], b, bodies, n)
    <3> DEFINE e == g[n]
               l == g[k]
    <3>1. Continues(l, e, body) /\ Len(l) = b + k
      BY <2>1, <2>2, <2>4, AddContinues DEF Rendered
    <3>2. Carries(l, b, bodies, k)
      BY <2>4
    <3> HIDE DEF e, l
    <3>3. /\ \A j \in 1..(b + k) : e[j] = l[j]
          /\ e[b + k + 1].kind = body.kind /\ e[b + k + 1].data = body.data
      BY <3>1 DEF Continues
    <3>4. ASSUME NEW i \in 1..n
          PROVE  e[b + i].kind = bodies[i].kind /\ e[b + i].data = bodies[i].data
      <4>1. CASE i = n
        <5>1. b + i = b + k + 1
          BY <2>1, <4>1
        <5> QED BY <3>3, <4>1, <5>1 DEF body
      <4>2. CASE i # n
        <5>1. i \in 1..k /\ b + i \in 1..(b + k)
          BY <2>1, <4>2
        <5> QED BY <3>2, <3>3, <5>1 DEF Carries
      <4> QED BY <4>1, <4>2
    <3> QED BY <3>4 DEF Carries, e
  <2>8. n \in S
    BY <2>1, <2>6, <2>7
  <2> QED BY <2>8 DEF n
<1> HIDE DEF S
<1>7. m \in S
  <2>1. \A k \in 0..m : k \in S
    BY <1>4, <1>5, <1>6, InductionUpTo
  <2> QED BY <1>4, <2>1
<1>8. /\ Rendered(g[m], b, m) /\ Carries(g[m], b, bodies, m)
      /\ Projection(g[m]) = Projection(base)
  BY <1>7 DEF S
<1> QED BY <1>1, <1>3, <1>8 DEF m

\* The newest compaction of a file keeps from a message on.
LEMMA NewestKeeps ==
  ASSUME NEW l, WellFormed(l), KeepsMessages(l), KeptEntryFound(l, Leaf(l)),
         NEW x \in NewestCompaction(l, Leaf(l))
  PROVE  /\ NewestCompaction(l, Leaf(l)) = {x}
         /\ l[x].data.kept \in ActiveMessages(l) /\ l[x].data.kept \in Nat
         /\ l[x].data.summary \in SUBSET Nat
<1>1. PathTo(l, Leaf(l)) \subseteq 1..Len(l) /\ Len(l) \in Nat /\ DOMAIN l = 1..Len(l)
  BY StateAtType, ProjectionType DEF WellFormed
<1>2. x \in PathTo(l, Leaf(l)) /\ l[x].kind = "compaction"
  BY DEF NewestCompaction
<1>3. l[x].data.kept \in PathTo(l, Leaf(l)) /\ l[l[x].data.kept].kind \in {"message", "tool_exchange"}
  BY <1>1, <1>2 DEF KeptEntryFound, KeepsMessages
<1>4. l[x].data.summary \in SUBSET Nat
  <2>1. [kind |-> l[x].kind, data |-> l[x].data] \in Bodies
    BY <1>1, <1>2 DEF WellFormed
  <2> DEFINE body == [kind |-> l[x].kind, data |-> l[x].data]
  <2>2. body.kind = "compaction" /\ body.data = l[x].data
    BY <1>2
  <2> HIDE DEF body
  <2>3. body.data \in CompactionData
    BY <2>1, <2>2 DEF Bodies, body
  <2>4. l[x].data \in CompactionData
    BY <2>2, <2>3
  <2> QED BY <2>4 DEF CompactionData
<1>5. ASSUME NEW y \in NewestCompaction(l, Leaf(l))
      PROVE  y = x
  <2>1. x <= y /\ y <= x /\ x \in Nat /\ y \in Nat
    BY <1>1 DEF NewestCompaction
  <2> QED BY <2>1
<1>6. l[x].data.kept \in ActiveMessages(l)
  BY <1>3 DEF ActiveMessages, MessagesOn
<1>7. l[x].data.kept \in Nat
  BY <1>1, <1>3
<1> QED BY <1>4, <1>5, <1>6, <1>7

\* The messages of a file, as bodies in their order.
BodiesOf(l) == [n \in DOMAIN MessageOrder(l) |-> BodyOf(l[MessageOrder(l)[n]])]

LEMMA MessagesCopied ==
  ASSUME NEW l, WellFormed(l)
  PROVE  LET m == Cardinality(ActiveMessages(l))
         IN  /\ m \in Nat /\ ActiveMessages(l) \subseteq 1..Len(l)
             /\ Len(BodiesOf(l)) = m
             /\ \A n \in 1..m : /\ BodiesOf(l)[n] \in Bodies
                                /\ BodiesOf(l)[n].kind \in {"message", "tool_exchange"}
             /\ \A i \in ActiveMessages(l) :
                  BodiesOf(l)[Rank(ActiveMessages(l), i)] = BodyOf(l[i])
<1> DEFINE S == ActiveMessages(l)
           m == Cardinality(S)
           bodies == BodiesOf(l)
<1>1. S \subseteq 1..Len(l) /\ Len(l) \in Nat /\ DOMAIN l = 1..Len(l)
  BY StateAtType, ProjectionType DEF ActiveMessages, MessagesOn, WellFormed
<1>2. m \in Nat
  BY <1>1, RankType
<1>3. MessageOrder(l) = [n \in 1..m |-> Nth(S, n)]
  BY DEF MessageOrder
<1>4. bodies = [n \in 1..m |-> BodyOf(l[Nth(S, n)])]
  BY <1>3 DEF BodiesOf
<1> HIDE DEF bodies, m
<1>5. ASSUME NEW n \in 1..m
      PROVE  bodies[n] \in Bodies /\ bodies[n].kind \in {"message", "tool_exchange"}
  <2> DEFINE i == Nth(S, n)
  <2>1. i \in S
    BY <1>1, NthIs DEF m
  <2> HIDE DEF i
  <2>2. l[i].kind \in {"message", "tool_exchange"} /\ i \in DOMAIN l
    BY <1>1, <2>1 DEF ActiveMessages, MessagesOn
  <2>3. [kind |-> l[i].kind, data |-> l[i].data] \in Bodies
    BY <2>2 DEF WellFormed
  <2>4. bodies[n] = [kind |-> l[i].kind, data |-> l[i].data]
    BY <1>4 DEF BodyOf, i
  <2> QED BY <2>2, <2>3, <2>4
<1>6. bodies \in Seq(Bodies) /\ Len(bodies) = m
  <2>1. bodies \in [1..m -> Bodies]
    BY <1>4, <1>5
  <2> QED BY <1>2, <2>1
<1>7. ASSUME NEW i \in S
      PROVE  bodies[Rank(S, i)] = BodyOf(l[i])
  <2>1. Rank(S, i) \in 1..m /\ Nth(S, Rank(S, i)) = i
    BY <1>1, RankType, NthIs DEF m
  <2> QED BY <1>4, <2>1
<1> QED BY <1>1, <1>2, <1>5, <1>6, <1>7 DEF bodies, m

\* Where the messages of l are in a file that has them after b lines.
LEMMA PositionIs ==
  ASSUME NEW l, WellFormed(l), NEW e, NEW b \in Nat,
         ActiveMessages(e) = (b + 1)..(b + Cardinality(ActiveMessages(l)))
  PROVE  /\ DOMAIN SourceToTarget(l, e) = ActiveMessages(l)
         /\ \A i \in ActiveMessages(l) :
              SourceToTarget(l, e)[i] = b + Rank(ActiveMessages(l), i)
<1> DEFINE S == ActiveMessages(l)
           m == Cardinality(S)
<1>1. m \in Nat /\ S \subseteq 1..Len(l) /\ Len(l) \in Nat
  BY MessagesCopied, ProjectionType
<1>2. SourceToTarget(l, e) = [i \in S |-> Nth((b + 1)..(b + m), Rank(S, i))]
  BY DEF SourceToTarget
<1> HIDE DEF S, m
<1>3. ASSUME NEW i \in S
      PROVE  Nth((b + 1)..(b + m), Rank(S, i)) = b + Rank(S, i)
  <2>1. Rank(S, i) \in 1..m
    BY <1>1, RankType DEF m
  <2> QED BY <1>1, <2>1, NthInRow
<1> QED BY <1>2, <1>3 DEF S

\* The messages of l are the lines of e after b others.
SameMessages(l, e, b) ==
    \A i \in ActiveMessages(l) :
        /\ b + Rank(ActiveMessages(l), i) \in 1..Len(e)
        /\ BodyOf(e[b + Rank(ActiveMessages(l), i)]) = BodyOf(l[i])

\* The file e shows the messages and the summary of l, its messages after b
\* lines.
SameContext(l, e, b) ==
    /\ ActiveMessages(e) = (b + 1)..(b + Cardinality(ActiveMessages(l)))
    /\ SameMessages(l, e, b)
    /\ NewestCompaction(e, Leaf(e)) = {} <=> NewestCompaction(l, Leaf(l)) = {}
    /\ \A y \in NewestCompaction(e, Leaf(e)) : \A x \in NewestCompaction(l, Leaf(l)) :
         /\ y \in 1..Len(e) /\ b + Cardinality(ActiveMessages(l)) < y
         /\ e[y].data.kept = b + Rank(ActiveMessages(l), l[x].data.kept)
         /\ e[y].data.summary = l[x].data.summary

LEMMA ContextCarriedOn ==
  ASSUME NEW l, NEW e, NEW b, SameContext(l, e, b), NEW f, NEW body, Continues(e, f, body),
         ActiveMessages(f) = ActiveMessages(e),
         NewestCompaction(f, Leaf(f)) = NewestCompaction(e, Leaf(e)),
         NewestCompaction(e, Leaf(e)) \subseteq 1..Len(e)
  PROVE  SameContext(l, f, b)
<1>1. /\ \A y \in 1..Len(e) : f[y] = e[y]
      /\ Len(e) \in Nat /\ Len(f) = Len(e) + 1
  BY DEF Continues
<1>2. \A y \in 1..Len(e) : y \in 1..Len(f)
  BY <1>1
<1>3. SameMessages(l, e, b)
  BY DEF SameContext
<1>4. SameMessages(l, f, b)
  BY <1>1, <1>2, <1>3 DEF SameMessages
<1> QED BY <1>1, <1>2, <1>4 DEF SameContext

LEMMA ContextShown ==
  ASSUME NEW l, WellFormed(l), KeepsMessages(l), KeptEntryFound(l, Leaf(l)),
         NEW e, NEW b \in Nat, SameContext(l, e, b), PathTo(e, Leaf(e)) = 1..Len(e)
  PROVE  /\ KeptEntryFound(e, Leaf(e))
         /\ Shown(e, Leaf(e)) = {SourceToTarget(l, e)[i] : i \in Shown(l, Leaf(l))}
         /\ \A i, j \in Shown(l, Leaf(l)) :
              i < j => SourceToTarget(l, e)[i] < SourceToTarget(l, e)[j]
         /\ \A i \in Shown(l, Leaf(l)) : BodyOf(e[SourceToTarget(l, e)[i]]) = BodyOf(l[i])
         /\ Summarised(e, Leaf(e)) = Summarised(l, Leaf(l))
<1> DEFINE S == ActiveMessages(l)
           m == Cardinality(S)
           position == SourceToTarget(l, e)
           row == (b + 1)..(b + m)
<1>1. m \in Nat /\ S \subseteq 1..Len(l) /\ Len(l) \in Nat /\ S \subseteq Nat
  BY MessagesCopied, ProjectionType
<1>2. \A i \in S : position[i] = b + Rank(S, i)
  BY PositionIs DEF SameContext
<1>3. /\ {b + Rank(S, i) : i \in S} = row
      /\ \A q \in S : {b + Rank(S, i) : i \in {j \in S : q <= j}}
                        = {i \in row : b + Rank(S, q) <= i}
  BY <1>1, RowOfRanks
<1>4. MessagesOn(e, PathTo(e, Leaf(e))) = row /\ MessagesOn(l, PathTo(l, Leaf(l))) = S
  BY DEF SameContext, ActiveMessages
<1>5. Shown(l, Leaf(l)) \subseteq S
  BY <1>4 DEF Shown
<1>6. \A q \in S : Rank(S, q) \in 1..m
  BY <1>1, RankType
<1>11. \A i, j \in Shown(l, Leaf(l)) : i < j => position[i] < position[j]
  <2> SUFFICES ASSUME NEW i \in Shown(l, Leaf(l)), NEW j \in Shown(l, Leaf(l)), i < j
               PROVE  position[i] < position[j]
    OBVIOUS
  <2> DEFINE v == Rank(S, i)
             w == Rank(S, j)
  <2>1. i \in S /\ j \in S
    BY <1>5
  <2>2. v < w
    BY <1>1, <2>1, RankType
  <2>3. position[i] = b + v /\ position[j] = b + w /\ v \in 1..m /\ w \in 1..m
    BY <1>2, <1>6, <2>1
  <2> HIDE DEF v, w, position
  <2>4. b + v < b + w
    BY <1>1, <2>2, <2>3
  <2> QED BY <2>3, <2>4
<1>10. \A i \in Shown(l, Leaf(l)) : BodyOf(e[position[i]]) = BodyOf(l[i])
  <2>1. SameMessages(l, e, b)
    BY DEF SameContext
  <2> HIDE DEF position
  <2> QED BY <1>2, <1>5, <2>1 DEF SameMessages, S
<1> HIDE DEF S, m, position, row
<1>7. {position[i] : i \in Shown(l, Leaf(l))} = {b + Rank(S, i) : i \in Shown(l, Leaf(l))}
  BY <1>2, <1>5
<1>8. CASE NewestCompaction(l, Leaf(l)) = {}
  <2>1. NewestCompaction(e, Leaf(e)) = {}
    BY <1>8 DEF SameContext
  <2>2. Shown(e, Leaf(e)) = row /\ Shown(l, Leaf(l)) = S
    BY <1>4, <1>8, <2>1 DEF Shown
  <2>3. KeptEntryFound(e, Leaf(e))
    BY <2>1 DEF KeptEntryFound
  <2>4. Summarised(e, Leaf(e)) = Summarised(l, Leaf(l))
    BY <1>8, <2>1 DEF Summarised
  <2> QED BY <1>3, <1>7, <1>10, <1>11, <2>2, <2>3, <2>4 DEF position
<1>9. ASSUME NEW x \in NewestCompaction(l, Leaf(l))
      PROVE  /\ KeptEntryFound(e, Leaf(e))
             /\ Shown(e, Leaf(e)) = {position[i] : i \in Shown(l, Leaf(l))}
             /\ Summarised(e, Leaf(e)) = Summarised(l, Leaf(l))
  <2> DEFINE q == l[x].data.kept
             k == b + Rank(S, q)
             T == NewestCompaction(e, Leaf(e))
  <2>1. NewestCompaction(l, Leaf(l)) = {x} /\ q \in S
    BY NewestKeeps DEF S
  <2>2. /\ T # {}
        /\ \A y \in T : /\ y \in 1..Len(e) /\ b + m < y
                        /\ e[y].data.kept = k /\ e[y].data.summary = l[x].data.summary
    BY <1>9 DEF SameContext, S, m
  <2>3. k \in row /\ k \in Nat /\ k <= b + m
    <3> DEFINE r == Rank(S, q)
    <3>1. r \in 1..m
      BY <1>6, <2>1
    <3> HIDE DEF r
    <3>2. b + r \in row /\ b + r \in Nat /\ b + r <= b + m
      BY <1>1, <3>1 DEF row
    <3> QED BY <3>2 DEF r
  <2>4. Shown(l, Leaf(l)) = {j \in S : q <= j}
    BY <1>4, <2>1 DEF Shown
  <2> HIDE DEF T, k
  <2>5. Shown(e, Leaf(e)) = {i \in row : k <= i}
    BY <1>4, <2>2 DEF Shown, T
  <2>6. {i \in row : k <= i} = {b + Rank(S, i) : i \in {j \in S : q <= j}}
    BY <1>3, <2>1 DEF k
  <2>7. KeptEntryFound(e, Leaf(e))
    <3>1. ASSUME NEW y \in T
          PROVE  k \in 1..Len(e) /\ k < y
      <4>1. y \in Nat /\ Len(e) \in Int /\ y <= Len(e) /\ b + m < y /\ k <= b + m /\ 1 <= k
        BY <1>1, <2>2, <2>3 DEF row
      <4> QED BY <1>1, <2>3, <4>1
    <3> QED BY <2>2, <3>1 DEF KeptEntryFound, T
  <2>8. Summarised(e, Leaf(e)) = Summarised(l, Leaf(l))
    <3>1. {e[y].data.summary : y \in T} = {l[x].data.summary}
      BY <2>2
    <3>2. {l[c].data.summary : c \in NewestCompaction(l, Leaf(l))} = {l[x].data.summary}
      BY <2>1
    <3> QED BY <3>1, <3>2 DEF Summarised, T
  <2> QED BY <1>7, <2>4, <2>5, <2>6, <2>7, <2>8
<1> QED BY <1>8, <1>9, <1>10, <1>11 DEF position

\* What each part of a clone has to leave: a straight file with the context.
\* The summary of an abandoned branch is read after every message.
SummaryLast(e) == \A b \in NewestBranchSummary(e), i \in ActiveMessages(e) : i < b

LEMMA CompactionCloned ==
  ASSUME NEW l, WellFormed(l), KeepsMessages(l), KeptEntryFound(l, Leaf(l)),
         NEW e, NEW b \in Nat, Rendered(e, b, Cardinality(ActiveMessages(l))),
         Carries(e, b, BodiesOf(l), Cardinality(ActiveMessages(l)))
  PROVE  LET f == CloneCompaction(l, e, SourceToTarget(l, e))
         IN  /\ WellFormed(f) /\ Straight(f) /\ SameContext(l, f, b)
             /\ BranchesShown(f) = {} /\ Projection(f) = Projection(e)
<1> DEFINE S == ActiveMessages(l)
           m == Cardinality(S)
           position == SourceToTarget(l, e)
           c == NewestCompaction(l, Leaf(l))
           f == CloneCompaction(l, e, position)
<1>1. m \in Nat /\ S \subseteq 1..Len(l)
  BY MessagesCopied
<1>2. /\ WellFormed(e) /\ Straight(e) /\ Len(e) = b + m
      /\ ActiveMessages(e) = (b + 1)..(b + m)
      /\ NewestCompaction(e, Leaf(e)) = {} /\ BranchesShown(e) = {}
  BY <1>1, RenderedShows DEF Rendered
<1>3. DOMAIN position = S /\ \A i \in S : position[i] = b + Rank(S, i)
  BY <1>2, PositionIs
<1>6. SameMessages(l, e, b)
  <2>1. ASSUME NEW i \in S
        PROVE  b + Rank(S, i) \in 1..Len(e) /\ BodyOf(e[b + Rank(S, i)]) = BodyOf(l[i])
    <3> DEFINE r == Rank(S, i)
    <3>1. r \in 1..m
      BY <1>1, RankType, ProjectionType
    <3>2. BodiesOf(l)[r] = BodyOf(l[i])
      BY MessagesCopied
    <3>3. e[b + r].kind = BodiesOf(l)[r].kind /\ e[b + r].data = BodiesOf(l)[r].data
      BY <3>1 DEF Carries
    <3> HIDE DEF r
    <3>4. b + r \in 1..(b + m)
      BY <1>1, <3>1
    <3>5. BodyOf(e[b + r]) = BodyOf(l[i])
      BY <3>2, <3>3 DEF BodyOf
    <3> QED BY <1>2, <3>4, <3>5 DEF r
  <2> QED BY <2>1 DEF SameMessages
<1>4. CASE c = {}
  <2>1. f = e
    BY <1>4 DEF CloneCompaction
  <2>2. SameContext(l, e, b)
    BY <1>2, <1>4, <1>6 DEF SameContext
  <2> QED BY <1>2, <2>1, <2>2
<1>5. CASE c # {}
  <2>1. PICK x \in c : TRUE
    BY <1>5
  <2> DEFINE q == l[x].data.kept
             kept == b + Rank(S, q)
             body == Compaction(kept, l[x].data.summary)
  <2>2. c = {x} /\ q \in S /\ l[x].data.summary \in SUBSET Nat
    BY <2>1, NewestKeeps
  <2>3. kept \in Nat
    <3>1. Rank(S, q) \in 1..m /\ Len(l) \in Nat
      BY <1>1, <2>2, RankType, ProjectionType
    <3> DEFINE r == Rank(S, q)
    <3> HIDE DEF r
    <3>2. r \in 1..m => b + r \in Nat
      BY <1>1
    <3> QED BY <3>1, <3>2 DEF r
  <2>4. f = Add(e, Leaf(e), body)
    <3>1. (CHOOSE i \in c : TRUE) = x
      BY <2>2
    <3>2. q \in DOMAIN position /\ position[q] = kept
      BY <1>3, <2>2
    <3> HIDE DEF c, position
    <3> QED BY <1>5, <3>1, <3>2 DEF CloneCompaction, c
  <2>5. /\ body.kind = "compaction" /\ body \in Bodies
        /\ body.data.kept = kept /\ body.data.summary = l[x].data.summary
    BY <2>2, <2>3, BodyConstructors DEF Compaction
  <2> HIDE DEF body, f, kept
  <2>6. WellFormed(f)
    BY <1>2, <2>4, <2>5, AddWellFormed, ProjectionType
  <2>7. /\ Continues(e, f, body) /\ Straight(f)
        /\ Projection(f) = ApplyEntry(Projection(e), body, Len(e) + 1)
    BY <1>2, <2>4, AddContinues
  <2>8. Projection(f) = Projection(e)
    BY <2>5, <2>7 DEF ApplyEntry
  <2>9. /\ ActiveMessages(f) = ActiveMessages(e)
        /\ NewestCompaction(f, Leaf(f)) = {Leaf(f)} /\ BranchesShown(f) = {}
    BY <2>5, <2>7, CompactionShows
  <2>10. /\ Leaf(f) = b + m + 1 /\ Len(f) = b + m + 1 /\ f[b + m + 1].data = body.data
         /\ b + m + 1 \in 1..(b + m + 1) /\ b + m < b + m + 1
    BY <1>1, <1>2, <2>7 DEF Continues
  <2>11. SameContext(l, f, b)
    <3>1. ActiveMessages(f) = (b + 1)..(b + Cardinality(ActiveMessages(l)))
      BY <1>2, <2>9
    <3>2. NewestCompaction(f, Leaf(f)) = {} <=> NewestCompaction(l, Leaf(l)) = {}
      BY <1>5, <2>9
    <3>3. ASSUME NEW y \in NewestCompaction(f, Leaf(f)), NEW z \in NewestCompaction(l, Leaf(l))
          PROVE  /\ y \in 1..Len(f) /\ b + Cardinality(ActiveMessages(l)) < y
                 /\ f[y].data.kept = b + Rank(ActiveMessages(l), l[z].data.kept)
                 /\ f[y].data.summary = l[z].data.summary
      <4>1. y = b + m + 1 /\ z = x
        BY <2>2, <2>9, <2>10
      <4> QED BY <2>5, <2>10, <4>1 DEF kept
    <3>4. SameMessages(l, f, b)
      <4>1. Len(e) \in Nat /\ Len(f) = Len(e) + 1 /\ \A j \in 1..Len(e) : f[j] = e[j]
        BY <2>7 DEF Continues
      <4>2. \A j \in 1..Len(e) : j \in 1..Len(f)
        BY <4>1
      <4> QED BY <1>6, <4>1, <4>2 DEF SameMessages
    <3> QED BY <3>1, <3>2, <3>3, <3>4 DEF SameContext
  <2> QED BY <2>6, <2>7, <2>8, <2>9, <2>11 DEF f
<1> QED BY <1>4, <1>5

LEMMA SummaryCloned ==
  ASSUME NEW l, WellFormed(l), NEW e, WellFormed(e), Straight(e), NEW b, SameContext(l, e, b),
         BranchesShown(e) = {}
  PROVE  LET f == CloneBranchSummary(l, e)
         IN  /\ WellFormed(f) /\ Straight(f) /\ SameContext(l, f, b)
             /\ BranchesShown(f) = BranchesShown(l) /\ Projection(f) = Projection(e)
             /\ SummaryLast(f)
<1> DEFINE B == NewestBranchSummary(l)
           f == CloneBranchSummary(l, e)
<1>1. CASE B = {}
  <2>1. f = e
    BY <1>1 DEF CloneBranchSummary
  <2>2. BranchesShown(l) = {}
    BY <1>1 DEF BranchesShown
  <2>3. SummaryLast(e)
    BY DEF BranchesShown, SummaryLast
  <2> QED BY <2>1, <2>2, <2>3
<1>2. CASE B # {}
  <2>1. PICK x \in B : TRUE
    BY <1>2
  <2>2. PathTo(l, Leaf(l)) \subseteq 1..Len(l) /\ Len(l) \in Nat /\ DOMAIN l = 1..Len(l)
    BY StateAtType, ProjectionType DEF WellFormed
  <2>3. /\ B \subseteq 1..Len(l) /\ \A i, j \in B : i <= j
        /\ l[x].kind = "branch_summary"
    BY <2>1, <2>2 DEF NewestBranchSummary
  <2>4. B = {x}
    <3>1. \A y \in B : x \in Nat /\ y \in Nat /\ x <= y /\ y <= x
      BY <2>1, <2>2, <2>3
    <3>2. \A y \in B : y = x
      BY <3>1
    <3> QED BY <2>1, <3>2
  <2>5. l[x].data.summary \in SUBSET Nat
    <3> DEFINE line == [kind |-> l[x].kind, data |-> l[x].data]
    <3>1. line \in Bodies /\ line.kind = "branch_summary" /\ line.data = l[x].data
      BY <2>1, <2>2, <2>3 DEF WellFormed
    <3> HIDE DEF line
    <3>2. line.data \in BranchData
      BY <3>1 DEF Bodies
    <3>3. l[x].data \in BranchData
      BY <3>1, <3>2
    <3> QED BY <3>3 DEF BranchData
  <2> DEFINE body == BranchSummary(0, l[x].data.summary)
  <2>6. f = Add(e, Leaf(e), body)
    <3>1. (CHOOSE i \in B : TRUE) = x
      BY <2>4
    <3> HIDE DEF B
    <3> QED BY <1>2, <3>1 DEF CloneBranchSummary, B
  <2>7. /\ body.kind = "branch_summary" /\ body \in Bodies
        /\ body.data.summary = l[x].data.summary
    BY <2>5, BodyConstructors DEF BranchSummary
  <2> HIDE DEF body, f
  <2>8. WellFormed(f)
    BY <2>6, <2>7, AddWellFormed, ProjectionType
  <2>9. /\ Continues(e, f, body) /\ Straight(f)
        /\ Projection(f) = ApplyEntry(Projection(e), body, Len(e) + 1)
    BY <2>6, AddContinues
  <2>10. Projection(f) = Projection(e)
    BY <2>7, <2>9 DEF ApplyEntry
  <2>11. /\ ActiveMessages(f) = ActiveMessages(e)
         /\ NewestCompaction(f, Leaf(f)) = NewestCompaction(e, Leaf(e))
         /\ NewestCompaction(e, Leaf(e)) \subseteq 1..Len(e)
         /\ BranchesShown(f) = {body.data.summary}
         /\ NewestBranchSummary(f) = {Len(e) + 1}
    BY <2>7, <2>9, BranchSummaryShows
  <2>12. SameContext(l, f, b)
    BY <2>9, <2>11, ContextCarriedOn
  <2>13. BranchesShown(l) = {l[x].data.summary}
    BY <2>4 DEF BranchesShown
  <2>14. SummaryLast(f)
    <3>1. /\ Len(e) \in Nat /\ ActiveMessages(e) \subseteq 1..Len(e)
      BY <2>9 DEF Continues, ActiveMessages, MessagesOn
    <3>2. \A i \in 1..Len(e) : i < Len(e) + 1
      BY <3>1
    <3> QED BY <2>11, <3>1, <3>2 DEF SummaryLast
  <2> QED BY <2>7, <2>8, <2>9, <2>10, <2>11, <2>12, <2>13, <2>14 DEF f
<1> QED BY <1>1, <1>2

LEMMA CheckpointCloned ==
  ASSUME NEW l, WellFormed(l), NEW e, WellFormed(e), Straight(e), NEW b, SameContext(l, e, b),
         Projection(e).identity = None, SummaryLast(e)
  PROVE  LET f == CloneCheckpoint(l, e)
         IN  /\ SummaryLast(f) /\ SameContext(l, f, b) /\ PathTo(f, Leaf(f)) = 1..Len(f)
             /\ BranchesShown(f) = BranchesShown(e)
             /\ Controls(Projection(f)) = Controls(Projection(e))
             /\ Projection(f).identity = None
<1> DEFINE body == [kind |-> "task_checkpoint", data |-> [identity |-> None]]
           f == CloneCheckpoint(l, e)
<1>1. CASE Projection(l).checkpoint = 0
  <2>1. f = e
    BY <1>1 DEF CloneCheckpoint, AddIf
  <2>2. PathTo(e, Leaf(e)) = 1..Len(e)
    BY AddContinues DEF Continues
  <2> QED BY <2>1, <2>2
<1>2. CASE Projection(l).checkpoint # 0
  <2>1. f = Add(e, Leaf(e), body)
    BY <1>2 DEF CloneCheckpoint, AddIf
  <2>2. body.kind = "task_checkpoint" /\ body.data.identity = None /\ body.kind \notin ViewKinds
    BY DEF ViewKinds
  <2> HIDE DEF body, f
  <2>3. /\ Continues(e, f, body)
        /\ Projection(f) = ApplyEntry(Projection(e), body, Len(e) + 1)
    BY <2>1, AddContinues
  <2>4. /\ ActiveMessages(f) = ActiveMessages(e)
        /\ NewestCompaction(f, Leaf(f)) = NewestCompaction(e, Leaf(e))
        /\ NewestCompaction(e, Leaf(e)) \subseteq 1..Len(e)
        /\ BranchesShown(f) = BranchesShown(e)
        /\ NewestBranchSummary(f) = NewestBranchSummary(e)
    BY <2>2, <2>3, PlainLineShowsNothing
  <2>5. SameContext(l, f, b)
    BY <2>3, <2>4, ContextCarriedOn
  <2>6. Projection(e) \in States
    BY ProjectionType
  <2>7. /\ Controls(Projection(f)) = Controls(Projection(e))
        /\ Projection(f).identity = None
    <3>1. Projection(f) = [Projection(e) EXCEPT !.checkpoint = Len(e) + 1, !.identity = None]
      BY <2>2, <2>3 DEF ApplyEntry
    <3> QED BY <2>6, <3>1 DEF Controls, States
  <2>8. PathTo(f, Leaf(f)) = 1..Len(f)
    BY <2>3 DEF Continues
  <2>9. SummaryLast(f)
    BY <2>4 DEF SummaryLast
  <2> QED BY <2>4, <2>5, <2>7, <2>8, <2>9 DEF f
<1> QED BY <1>1, <1>2

LEMMA CloneIsFaithful ==
  ASSUME NEW l, WellFormed(l), KeepsMessages(l), KeptEntryFound(l, Leaf(l)),
         Remembers(Projection(l))
  PROVE  LET clone == CloneLog(l)
         IN  /\ KeptEntryFound(clone, Leaf(clone))
             /\ Shown(clone, Leaf(clone))
                  = {SourceToTarget(l, clone)[i] : i \in Shown(l, Leaf(l))}
             /\ \A i, j \in Shown(l, Leaf(l)) :
                  i < j => SourceToTarget(l, clone)[i] < SourceToTarget(l, clone)[j]
             /\ \A i \in Shown(l, Leaf(l)) :
                  BodyOf(clone[SourceToTarget(l, clone)[i]]) = BodyOf(l[i])
             /\ Summarised(clone, Leaf(clone)) = Summarised(l, Leaf(l))
             /\ BranchesShown(clone) = BranchesShown(l)
             /\ \A b \in NewestBranchSummary(clone), i \in Shown(clone, Leaf(clone)) : i < b
             /\ Controls(Projection(clone)) = Controls(Projection(l))
             /\ Projection(clone).identity = None
<1> DEFINE state == [Projection(l) EXCEPT !.identity = None, !.checkpoint = 0]
           m == Cardinality(ActiveMessages(l))
           copied == RenderNewTree(state, BodiesOf(l))
           compacted == CloneCompaction(l, copied, SourceToTarget(l, copied))
           told == CloneBranchSummary(l, compacted)
           clone == CloneCheckpoint(l, told)
<1>1. /\ state \in States /\ Remembers(state) /\ Controls(state) = Controls(Projection(l))
      /\ state.identity = None
  BY ProjectionType DEF States, Remembers, Controls
<1>2. CloneLog(l) = clone
  BY DEF CloneLog, BodiesOf
<1> HIDE DEF state, m
<1>3. /\ m \in Nat /\ Len(BodiesOf(l)) = m
      /\ \A n \in 1..m : /\ BodiesOf(l)[n] \in Bodies
                         /\ BodiesOf(l)[n].kind \in {"message", "tool_exchange"}
  BY MessagesCopied DEF m
<1>4. /\ \E b \in Nat : Rendered(copied, b, m) /\ Carries(copied, b, BodiesOf(l), m)
      /\ Controls(Projection(copied)) = Controls(state)
      /\ Projection(copied).identity = state.identity
  BY <1>1, <1>3, TreeRendered
<1> HIDE DEF copied
<1>5. PICK b \in Nat : Rendered(copied, b, m) /\ Carries(copied, b, BodiesOf(l), m)
  BY <1>4
<1>6. /\ WellFormed(compacted) /\ Straight(compacted) /\ SameContext(l, compacted, b)
      /\ BranchesShown(compacted) = {} /\ Projection(compacted) = Projection(copied)
  BY <1>5, CompactionCloned DEF m
<1> HIDE DEF compacted
<1>7. /\ WellFormed(told) /\ Straight(told) /\ SameContext(l, told, b)
      /\ BranchesShown(told) = BranchesShown(l) /\ Projection(told) = Projection(compacted)
      /\ SummaryLast(told)
  BY <1>6, SummaryCloned
<1> HIDE DEF told
<1>8. /\ SameContext(l, clone, b) /\ SummaryLast(clone) /\ PathTo(clone, Leaf(clone)) = 1..Len(clone)
      /\ BranchesShown(clone) = BranchesShown(told)
      /\ Controls(Projection(clone)) = Controls(Projection(told))
      /\ Projection(clone).identity = None
  <2>1. Projection(told).identity = None
    BY <1>1, <1>4, <1>6, <1>7
  <2> QED BY <1>7, <2>1, CheckpointCloned
<1> HIDE DEF clone
<1>9. /\ KeptEntryFound(clone, Leaf(clone))
      /\ Shown(clone, Leaf(clone)) = {SourceToTarget(l, clone)[i] : i \in Shown(l, Leaf(l))}
      /\ \A i, j \in Shown(l, Leaf(l)) :
           i < j => SourceToTarget(l, clone)[i] < SourceToTarget(l, clone)[j]
      /\ \A i \in Shown(l, Leaf(l)) : BodyOf(clone[SourceToTarget(l, clone)[i]]) = BodyOf(l[i])
      /\ Summarised(clone, Leaf(clone)) = Summarised(l, Leaf(l))
  BY <1>8, ContextShown
<1>10. \A c \in NewestBranchSummary(clone), i \in Shown(clone, Leaf(clone)) : i < c
  BY <1>8 DEF SummaryLast, Shown, ActiveMessages
<1> QED BY <1>1, <1>2, <1>4, <1>6, <1>7, <1>8, <1>9, <1>10

\* A model that goes on in a clone goes on from what it was shown: whatever was
\* compacted, abandoned, summarised or reset before, the new file, whose entries
\* all have new ids, shows the same messages in the same order and the same
\* summaries, the summary of an abandoned branch behind all messages, and states
\* the same mode, rules, plan and binding (clone_to_worktree).
THEOREM ClonesKeepTheConversation == Spec => []CloneKeepsConversation
<1>1. ContextInv => CloneKeepsConversation
  <2> SUFFICES ASSUME ContextInv
               PROVE  CloneKeepsConversation
    OBVIOUS
  <2>1. /\ WellFormed(log) /\ KeepsMessages(log) /\ KeptEntryFound(log, Leaf(log))
        /\ Remembers(Projection(log))
    BY ProjectionType DEF ContextInv, TypeOK, Intact, Remembered, Projection
  <2> QED BY <2>1, CloneIsFaithful DEF CloneKeepsConversation, BranchesShown
<1> QED BY <1>1, InitContext, NextContext, PTL DEF Spec
=============================================================================
