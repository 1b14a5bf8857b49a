------------------------- MODULE ConversationProofs -------------------------
(***************************************************************************)
(* Theorems about what surrounds a turn: the notes, the texts chosen for a *)
(* request, the pages of a long result, and the terminal.                  *)
(***************************************************************************)
EXTENDS MemoryNotes, Recall, ResultPages, InputQueue, PreviewCoalescer, RecordProofs

-----------------------------------------------------------------------------
(* Types *)

Text == UserTexts \cup {"none"} \cup (SUBSET (Savers \cup {"none"}))
RowType == Nat \X Nat
Querying ==
    [pc : {"inventory", "load", "again"}, at : Documents, started : Nat,
     rows : [Documents -> RowType \cup {<<>>}], again : [Documents -> RowType \cup {<<>>}],
     texts : [Documents -> Text], since : [Documents -> SUBSET Text]]
Serving == [pc : {"served"}, texts : [Documents -> Text], since : [Documents -> SUBSET Text]]

MemoryTyped ==
    /\ doc \in [Documents -> [text : Text, node : Nat, stamp : Nat]]
    /\ doc["agent"].text \subseteq Savers \cup {"none"}
    /\ clock \in [now : Nat, rewrites : Nat, nodes : Nat]
    /\ saver \in [Savers -> SUBSET (Savers \cup {"none"})]
    /\ query \in Querying \cup Serving \cup {NoQuery}
    /\ cache \in [rows : [Documents -> RowType \cup {<<>>}], texts : [Documents -> Text]] \cup {NoCache}

\* A stamp is at most one tick, and so less than the racy window, behind the clock.
LEMMA StampNatural == ASSUME MemoryTyped PROVE Stamp \in Nat /\ clock.now < Stamp + RacyWindow
<1>1. clock.now \in Nat /\ Coarse \in Nat \ {0} /\ RacyWindow \in Nat /\ Coarse <= RacyWindow
  BY MemoryAssumption DEF MemoryTyped
<1>2. clock.now % Coarse \in 0..(Coarse - 1) /\ clock.now % Coarse <= clock.now
  BY <1>1
<1> QED BY <1>1, <1>2 DEF Stamp

\* A query begins with nothing inventoried and nothing loaded.
LEMMA NoTextsTyped == NoTexts \in [Documents -> Text] /\ NoRows \in [Documents -> RowType \cup {<<>>}]
<1>1. "none" \in Text /\ Unread \in Text
  <2>1. Unread \in SUBSET (Savers \cup {"none"})
    BY DEF Unread
  <2> QED BY <2>1, Zenon DEF Text
<1>2. <<>> \in RowType \cup {<<>>}
  OBVIOUS
<1> QED BY <1>1, <1>2 DEF NoTexts, NoRows

\* Types hold at the start, and every step keeps them (TypedNext).
LEMMA TypedInit == MemoryInit => MemoryTyped
<1> SUFFICES ASSUME MemoryInit PROVE MemoryTyped
  OBVIOUS
<1>1. doc \in [Documents -> [text : Text, node : Nat, stamp : Nat]]
  BY DEF MemoryInit, Text, UserTexts, Documents
<1>2. saver \in [Savers -> SUBSET (Savers \cup {"none"})]
  BY DEF MemoryInit, Unread
<1>3. doc["agent"].text \subseteq Savers \cup {"none"}
  BY DEF MemoryInit, Documents
<1> QED BY <1>1, <1>2, <1>3 DEF MemoryInit, MemoryTyped

\* What a writer leaves of a query.
LEMMA SeenTyped ==
    ASSUME query \in Querying \cup Serving \cup {NoQuery}, NEW d \in Documents, NEW words \in Text
    PROVE  /\ Seen(d, words) \in Querying \cup Serving \cup {NoQuery}
           /\ Seen(d, words).pc = query.pc
           /\ query.pc \in {"idle", "served"} => Seen(d, words) = query
           /\ query.pc \notin {"idle", "served"} =>
                 Seen(d, words) = [query EXCEPT !.since = [query.since EXCEPT ![d] = @ \cup {words}]]
<1>1. CASE query.pc \in {"idle", "served"}
  BY <1>1 DEF Seen
<1>2. CASE query.pc \notin {"idle", "served"}
  <2>1. query \in Querying
    BY <1>2 DEF Serving, NoQuery
  <2>2. [query.since EXCEPT ![d] = @ \cup {words}] \in [Documents -> SUBSET Text]
    BY <2>1 DEF Querying
  <2>3. Seen(d, words) = [query EXCEPT !.since = [query.since EXCEPT ![d] = @ \cup {words}]]
    BY <1>2, Zenon DEF Seen
  <2> QED BY <1>2, <2>1, <2>2, <2>3 DEF Querying
<1> QED BY <1>1, <1>2

\* An inventory row is an inode and a time stamp.
LEMMA RowTyped == ASSUME MemoryTyped, NEW d \in Documents PROVE Row(d) \in RowType
BY DEF MemoryTyped, Row, RowType

\* The steps of a query, in its fields.
LEMMA InventoryFields ==
    ASSUME MemoryTyped, Inventory
    PROVE  /\ query \in Querying /\ query.pc = "inventory" /\ UNCHANGED cache
           /\ query.at = "user" =>
                /\ query' \in Querying /\ query'.pc = "inventory" /\ query'.at = "agent"
                /\ query'.rows = [query.rows EXCEPT !["user"] = Row("user")]
                /\ query'.started = query.started /\ query'.since = query.since
           /\ query.at = "agent" =>
                LET rows == [query.rows EXCEPT !["agent"] = Row("agent")]
                IN  \/ cache.rows = rows /\ query' = Served(cache.texts)
                    \/ /\ cache.rows # rows
                       /\ query' \in Querying /\ query'.pc = "load" /\ query'.at = "user"
                       /\ query'.rows = rows
                       /\ query'.started = query.started /\ query'.since = query.since
<1>1. query \in Querying /\ query.pc = "inventory" /\ UNCHANGED cache
  BY DEF MemoryTyped, Inventory, NoQuery, Serving
<1>2. ASSUME query.at = "user"
      PROVE  query' = [query EXCEPT !.rows = [query.rows EXCEPT !["user"] = Row("user")], !.at = "agent"]
  BY <1>2, Zenon DEF Inventory, Order
<1>3. ASSUME query.at = "agent"
      PROVE  LET rows == [query.rows EXCEPT !["agent"] = Row("agent")]
             IN  \/ cache.rows = rows /\ query' = Served(cache.texts)
                 \/ /\ cache.rows # rows
                    /\ query' = [query EXCEPT !.pc = "load", !.rows = rows, !.at = "user"]
  BY <1>3 DEF Inventory, Order
<1>4. \A d \in Documents : [query.rows EXCEPT ![d] = Row(d)] \in [Documents -> RowType \cup {<<>>}]
  BY <1>1, RowTyped DEF Querying
<1> QED BY <1>1, <1>2, <1>3, <1>4 DEF Querying, Documents

LEMMA LoadFields ==
    ASSUME MemoryTyped, Load
    PROVE  /\ query \in Querying /\ query.pc = "load" /\ UNCHANGED cache
           /\ query' \in Querying
           /\ query'.rows = query.rows
           /\ query'.started = query.started /\ query'.since = query.since
           /\ query'.texts = [query.texts EXCEPT ![query.at] = doc[query.at].text]
           /\ query.at = "user" => query'.pc = "load" /\ query'.at = "agent"
           /\ query.at = "agent" => query'.pc = "again" /\ query'.at = "user"
<1>1. query \in Querying /\ query.pc = "load" /\ UNCHANGED cache
  BY DEF MemoryTyped, Load, NoQuery, Serving
<1>2. [query.texts EXCEPT ![query.at] = doc[query.at].text] \in [Documents -> Text]
  BY <1>1 DEF Querying, MemoryTyped
<1>3. ASSUME query.at = "user"
      PROVE  query' = [query EXCEPT !.texts = [query.texts EXCEPT ![query.at] = doc[query.at].text], !.at = "agent"]
  BY <1>1, <1>3 DEF Load, Order, Querying
<1>4. ASSUME query.at = "agent"
      PROVE  query' = [query EXCEPT !.texts = [query.texts EXCEPT ![query.at] = doc[query.at].text],
                                    !.pc = "again", !.at = "user"]
  BY <1>1, <1>4 DEF Load, Order, Querying
<1> QED BY <1>1, <1>2, <1>3, <1>4 DEF Querying, Documents

LEMMA InventoryAgainFields ==
    ASSUME MemoryTyped, InventoryAgain
    PROVE  /\ query \in Querying /\ query.pc = "again"
           /\ query.at = "user" =>
                /\ query' \in Querying /\ query'.pc = "again" /\ query'.at = "agent"
                /\ query'.rows = query.rows /\ query'.texts = query.texts
                /\ query'.started = query.started /\ query'.since = query.since
                /\ UNCHANGED cache
           /\ query.at = "agent" =>
                /\ query' = Served(query.texts)
                /\ \/ /\ ~Racy(query.rows)
                      /\ cache' = [rows |-> query.rows, texts |-> query.texts]
                   \/ cache' = NoCache
<1>1. query \in Querying /\ query.pc = "again"
  BY DEF MemoryTyped, InventoryAgain, NoQuery, Serving
<1>2. ASSUME query.at = "user"
      PROVE  /\ query' = [query EXCEPT !.again = [query.again EXCEPT !["user"] = Row("user")], !.at = "agent"]
             /\ UNCHANGED cache
  BY <1>2 DEF InventoryAgain, Order
<1>3. \A d \in Documents : [query.again EXCEPT ![d] = Row(d)] \in [Documents -> RowType \cup {<<>>}]
  BY <1>1, RowTyped DEF Querying
<1>4. ASSUME query.at = "agent"
      PROVE  /\ query' = Served(query.texts)
             /\ \/ /\ [query.again EXCEPT !["agent"] = Row("agent")] = query.rows
                   /\ ~Racy(query.rows)
                   /\ cache' = [rows |-> query.rows, texts |-> query.texts]
                \/ cache' = NoCache
  BY <1>4 DEF InventoryAgain, Order
<1> QED BY <1>1, <1>2, <1>3, <1>4 DEF Querying, Documents

\* No inventory is taken for the one that was never kept.
LEMMA NotEmptyRows ==
    ASSUME NEW rows, DOMAIN rows = Documents
    PROVE  rows # <<>>
BY DEF Documents

\* What a turn is served has the type of a snapshot.
LEMMA ServedTyped ==
    ASSUME query \in Querying, NEW texts \in [Documents -> Text]
    PROVE  Served(texts) \in Serving
BY DEF Served, Serving, Querying

\* Every step keeps the types.
LEMMA TypedNext ==
    ASSUME MemoryTyped, [MemoryNext]_memoryVars
    PROVE  MemoryTyped'
<1> USE DEF MemoryTyped
<1>1. CASE Pass
  BY <1>1 DEF Pass
<1>2. CASE Rewrite
  <2>1. PICK words \in UserTexts :
          /\ doc' = [doc EXCEPT !["user"].text = words, !["user"].stamp = Stamp]
          /\ query' = Seen("user", words)
    BY <1>2 DEF Rewrite
  <2>2. doc' \in [Documents -> [text : Text, node : Nat, stamp : Nat]]
    <3>1. doc["user"] \in [text : Text, node : Nat, stamp : Nat]
      BY DEF Documents
    <3>2. doc' = [doc EXCEPT !["user"] = [[doc["user"] EXCEPT !.text = words] EXCEPT !.stamp = Stamp]]
      BY <2>1, Zenon
    <3>3. [[doc["user"] EXCEPT !.text = words] EXCEPT !.stamp = Stamp] \in [text : Text, node : Nat, stamp : Nat]
      BY <3>1, StampNatural DEF Text
    <3> QED BY <3>2, <3>3
  <2>3. query' \in Querying \cup Serving \cup {NoQuery}
    BY <2>1, SeenTyped DEF Documents, Text
  <2>4. clock' \in [now : Nat, rewrites : Nat, nodes : Nat]
    BY <1>2 DEF Rewrite
  <2>5. doc'["agent"] = doc["agent"]
    BY <1>2 DEF Rewrite, Documents
  <2> QED BY <1>2, <2>2, <2>3, <2>4, <2>5 DEF Rewrite
<1>3. ASSUME NEW s \in Savers, ReadNotes(s)
      PROVE  MemoryTyped'
  BY <1>3 DEF ReadNotes
<1>4. ASSUME NEW s \in Savers, SaveNote(s)
      PROVE  MemoryTyped'
  <2>1. saver[s] \cup {s} \in Text
    BY DEF Text
  <2>2. doc' \in [Documents -> [text : Text, node : Nat, stamp : Nat]]
    <3>1. doc' = [doc EXCEPT !["agent"] = [text |-> saver[s] \cup {s}, node |-> clock.nodes + 1, stamp |-> Stamp]]
      BY <1>4 DEF SaveNote
    <3>2. [text |-> saver[s] \cup {s}, node |-> clock.nodes + 1, stamp |-> Stamp]
            \in [text : Text, node : Nat, stamp : Nat]
      BY <2>1, StampNatural
    <3> QED BY <3>1, <3>2
  <2>3. query' \in Querying \cup Serving \cup {NoQuery}
    BY <1>4, <2>1, SeenTyped DEF SaveNote, Documents
  <2>4. clock' \in [now : Nat, rewrites : Nat, nodes : Nat]
    BY <1>4, SMTT(30) DEF SaveNote
  <2>5. doc'["agent"].text = saver[s] \cup {s}
    BY <1>4 DEF SaveNote, Documents
  <2> QED BY <1>4, <2>2, <2>3, <2>4, <2>5 DEF SaveNote, Unread
<1>5. ASSUME NEW s \in Savers, GiveUpSaving(s)
      PROVE  MemoryTyped'
  BY <1>5 DEF GiveUpSaving, Unread
<1>6. CASE BeginQuery
  BY <1>6, NoTextsTyped DEF BeginQuery, Querying, Documents
<1>7. CASE Inventory
  <2>1. query \in Querying /\ query.at \in Documents /\ query.rows \in [Documents -> RowType \cup {<<>>}]
    BY <1>7, InventoryFields DEF Querying
  <2>2. cache.rows = [query.rows EXCEPT !["agent"] = Row("agent")] => cache # NoCache
    <3>1. DOMAIN [query.rows EXCEPT !["agent"] = Row("agent")] = Documents
      BY <2>1
    <3> QED BY <3>1, NotEmptyRows DEF NoCache
  <2>3. query' \in Querying \cup Serving
    BY <1>7, <2>1, <2>2, InventoryFields, ServedTyped DEF Documents
  <2> QED BY <1>7, <2>3 DEF Inventory
<1>8. CASE Load
  BY <1>8, LoadFields DEF Load
<1>9. CASE InventoryAgain
  <2>1. query \in Querying /\ query.at \in Documents /\ query.texts \in [Documents -> Text]
    BY <1>9, InventoryAgainFields DEF Querying
  <2>2. query' \in Querying \cup Serving
    BY <1>9, <2>1, InventoryAgainFields, ServedTyped DEF Documents
  <2>3. cache' \in [rows : [Documents -> RowType \cup {<<>>}], texts : [Documents -> Text]] \cup {NoCache}
    <3>1. query.rows \in [Documents -> RowType \cup {<<>>}]
      BY <2>1 DEF Querying
    <3>2. \/ cache' = [rows |-> query.rows, texts |-> query.texts] \/ cache' = NoCache \/ cache' = cache
      BY <1>9, <2>1, InventoryAgainFields DEF Documents
    <3> QED BY <2>1, <3>1, <3>2
  <2> QED BY <1>9, <2>2, <2>3 DEF InventoryAgain
<1>10. CASE EndQuery
  BY <1>10 DEF EndQuery
<1>11. CASE UNCHANGED memoryVars
  BY <1>11 DEF memoryVars
<1> QED BY <1>1, <1>2, <1>3, <1>4, <1>5, <1>6, <1>7, <1>8, <1>9, <1>10, <1>11 DEF MemoryNext

-----------------------------------------------------------------------------
(* Appending under the lock *)

\* One saver at a time holds the lock, and what it read is still in the file.
Locked ==
    /\ saver \in [Savers -> {Unread} \cup SUBSET Savers]
    /\ doc["agent"].text \subseteq Savers
    /\ \A s, u \in Savers : saver[s] # Unread /\ saver[u] # Unread => s = u
    /\ \A s \in Savers : saver[s] # Unread => saver[s] = doc["agent"].text

\* Every step keeps the lock exclusive and the saved notes in the file.
LEMMA NotesAppended ==
    ASSUME Locked, NotesKept, MemoryTyped, [MemoryNext]_memoryVars
    PROVE  Locked' /\ NotesKept'
<1> USE MemoryAssumption DEF Locked, NotesKept, Unread
<1>1. CASE Rewrite
  <2>1. doc'["agent"] = doc["agent"]
    BY <1>1 DEF Rewrite, Documents, MemoryTyped
  <2> QED BY <1>1, <2>1 DEF Rewrite
<1>2. ASSUME NEW s \in Savers, ReadNotes(s)
      PROVE  Locked' /\ NotesKept'
  <2>1. saver' = [saver EXCEPT ![s] = doc["agent"].text] /\ UNCHANGED <<doc, saved>>
    BY <1>2 DEF ReadNotes
  <2>2. \A u \in Savers : saver[u] = Unread
    BY <1>2 DEF ReadNotes, LockFree
  <2> QED BY <2>1, <2>2
<1>3. ASSUME NEW s \in Savers, SaveNote(s)
      PROVE  Locked' /\ NotesKept'
  <2>1. /\ saver[s] # Unread
        /\ doc'["agent"].text = saver[s] \cup {s}
        /\ saved' = saved \cup {s}
        /\ saver' = [saver EXCEPT ![s] = Unread]
    BY <1>3 DEF SaveNote, Documents, MemoryTyped
  <2>2. \A u \in Savers : saver'[u] = Unread
    BY <2>1
  <2> QED BY <2>1, <2>2
<1>4. ASSUME NEW s \in Savers, GiveUpSaving(s)
      PROVE  Locked' /\ NotesKept'
  <2>1. saver' = [saver EXCEPT ![s] = Unread] /\ UNCHANGED <<doc, saved>>
    BY <1>4 DEF GiveUpSaving
  <2> QED BY <2>1
<1>5. CASE UNCHANGED <<doc, saver, saved>>
  BY <1>5
<1>6. Pass \/ BeginQuery \/ Inventory \/ Load \/ InventoryAgain \/ EndQuery \/ UNCHANGED memoryVars
        => UNCHANGED <<doc, saver, saved>>
  BY DEF Pass, BeginQuery, Inventory, Load, InventoryAgain, EndQuery, memoryVars
<1> QED BY <1>1, <1>2, <1>3, <1>4, <1>5, <1>6 DEF MemoryNext

\* At the start nobody holds the lock and nothing is saved.
LEMMA LockedInit == MemoryInit => Locked /\ NotesKept
<1> SUFFICES ASSUME MemoryInit PROVE Locked /\ NotesKept
  OBVIOUS
<1>1. doc["agent"].text = {} /\ saved = {} /\ saver = [s \in Savers |-> Unread]
  BY DEF MemoryInit, Documents
<1> QED BY <1>1 DEF Locked, NotesKept

\* No saved note is lost, for any number of processes that append, give up and
\* die (append_agent_note).
THEOREM NotesNeverLost == MemorySpec => []NotesKept
<1>1. MemoryInit => MemoryTyped /\ Locked /\ NotesKept
  BY TypedInit, LockedInit
<1>2. MemoryTyped /\ Locked /\ NotesKept /\ [MemoryNext]_memoryVars
        => MemoryTyped' /\ Locked' /\ NotesKept'
  BY TypedNext, NotesAppended
<1> QED BY <1>1, <1>2, PTL DEF MemorySpec

-----------------------------------------------------------------------------
(* Snapshots *)

\* An inventory row that was at rest when the query began tells the text: it
\* does not come back once the file is written.
AtRest(row, time) == row \in RowType /\ row[2] + RacyWindow < time
TellsText(d, row, words) == Row(d) = row => doc[d].text = words

\* The documents a query has loaded.
Loaded == CASE query.pc = "again" -> Documents
            [] query.pc = "load" /\ query.at = "agent" -> {"user"}
            [] OTHER -> {}

CacheTells ==
    cache # NoCache => \A d \in Documents :
        /\ AtRest(cache.rows[d], clock.now)
        /\ TellsText(d, cache.rows[d], cache.texts[d])

QueryTells ==
    query \in Querying =>
        /\ query.started <= clock.now
        /\ \A d \in Documents : doc[d].text \in query.since[d]
        /\ query.pc = "inventory" /\ query.at = "agent" =>
              /\ query.rows["user"] \in RowType
              /\ cache # NoCache /\ cache.rows["user"] = query.rows["user"]
                    => cache.texts["user"] \in query.since["user"]
        /\ query.pc \in {"load", "again"} => \A d \in Documents : query.rows[d] \in RowType
        /\ \A d \in Loaded :
              /\ query.texts[d] \in query.since[d]
              /\ AtRest(query.rows[d], query.started) => TellsText(d, query.rows[d], query.texts[d])

SnapshotInv == MemoryTyped /\ CacheTells /\ QueryTells /\ SnapshotFresh

\* What is written now is stamped later than a file at rest.
LEMMA StampIsNew ==
    ASSUME MemoryTyped, NEW row, NEW time \in Nat, time <= clock.now, AtRest(row, time)
    PROVE  row[2] # Stamp
BY StampNatural, MemoryAssumption DEF AtRest, RowType, MemoryTyped

\* A write of one document: whatever was told of a file at rest stays true.
Written(d, words) ==
    /\ doc' = [doc EXCEPT ![d] = doc'[d]]
    /\ doc'[d].stamp = Stamp /\ doc'[d].text = words
    /\ query' = Seen(d, words)
    /\ UNCHANGED cache /\ clock'.now = clock.now

\* A write by anyone keeps what the kept snapshot and the running query tell.
LEMMA WrittenTells ==
    ASSUME SnapshotInv, MemoryTyped', NEW w \in Documents, NEW words \in Text, Written(w, words)
    PROVE  CacheTells' /\ QueryTells' /\ SnapshotFresh'
<1> USE DEF SnapshotInv
<1>1. \A d \in Documents : d # w => doc'[d] = doc[d]
  BY DEF Written, MemoryTyped
<1>2. ASSUME NEW d \in Documents, NEW row, NEW tale, NEW time \in Nat,
             time <= clock.now, AtRest(row, time), TellsText(d, row, tale)
      PROVE  Row(d)' = row => doc'[d].text = tale
  <2>1. CASE d = w
    <3>1. Row(d)'[2] = Stamp
      BY <2>1 DEF Row, Written
    <3>2. Row(d)' # row
      BY <1>2, <3>1, StampIsNew
    <3> QED BY <3>2
  <2>2. CASE d # w
    BY <1>1, <1>2, <2>2 DEF TellsText, Row
  <2> QED BY <2>1, <2>2
<1>3. CacheTells'
  <2> SUFFICES ASSUME cache # NoCache, NEW d \in Documents
               PROVE  /\ AtRest(cache.rows[d], clock.now)
                      /\ Row(d)' = cache.rows[d] => doc'[d].text = cache.texts[d]
    BY DEF CacheTells, Written, AtRest, TellsText, Row
  <2>1. clock.now \in Nat /\ clock.now <= clock.now
    BY DEF MemoryTyped
  <2> QED BY <1>2, <2>1 DEF CacheTells
<1>4. CASE query \in Querying
  <2>1. /\ query' = [query EXCEPT !.since = [query.since EXCEPT ![w] = @ \cup {words}]]
        /\ query'.pc = query.pc /\ query'.at = query.at /\ query'.started = query.started
        /\ query'.rows = query.rows /\ query'.texts = query.texts
        /\ query'.since = [query.since EXCEPT ![w] = @ \cup {words}]
        /\ query.since \in [Documents -> SUBSET Text]
        /\ query.started \in Nat /\ query.started <= clock.now
    <3>1. query.pc \notin {"idle", "served"}
      BY <1>4 DEF Querying
    <3>2. query' = [query EXCEPT !.since[w] = @ \cup {words}]
      BY <3>1 DEF Written, Seen
    <3>3. /\ query.since \in [Documents -> SUBSET Text]
          /\ query.started \in Nat /\ query.started <= clock.now
      BY <1>4 DEF Querying, QueryTells
    <3>4. query' = [query EXCEPT !.since = [query.since EXCEPT ![w] = @ \cup {words}]]
      BY <3>2
    <3> HIDE DEF Written
    <3> QED BY <1>4, <3>3, <3>4 DEF Querying
  <2>2. \A d \in Documents : query.since[d] \subseteq query'.since[d] /\ doc'[d].text \in query'.since[d]
    BY <1>1, <1>4, <2>1 DEF Written, QueryTells
  <2>3. Loaded' = Loaded
    BY <2>1 DEF Loaded
  <2>4. ASSUME NEW d \in Loaded
        PROVE  /\ query.texts[d] \in query'.since[d]
               /\ AtRest(query.rows[d], query.started) =>
                     (Row(d)' = query.rows[d] => doc'[d].text = query.texts[d])
    <3>1. d \in Documents
      BY DEF Loaded, Documents
    <3> QED BY <1>2, <1>4, <2>1, <2>2, <3>1 DEF QueryTells
  <2>5. QueryTells'
    BY <1>4, <2>1, <2>2, <2>3, <2>4 DEF QueryTells, Written, AtRest, TellsText, Row, Documents
  <2>6. SnapshotFresh'
    BY <1>4, <2>1 DEF SnapshotFresh, Querying
  <2> QED BY <1>3, <2>5, <2>6
<1>5. CASE query \notin Querying
  <2>1. query' = query
    BY <1>5, SeenTyped DEF Written, MemoryTyped, Serving, NoQuery
  <2> QED BY <1>3, <1>5, <2>1 DEF QueryTells, SnapshotFresh
<1> QED BY <1>4, <1>5

\* The user's editor and the savers are such writers.
LEMMA WritersWrite ==
    ASSUME MemoryTyped, Rewrite \/ \E s \in Savers : SaveNote(s)
    PROVE  \E w \in Documents, words \in Text : Written(w, words)
<1>1. CASE Rewrite
  <2>1. PICK words \in UserTexts :
          /\ doc' = [doc EXCEPT !["user"].text = words, !["user"].stamp = Stamp]
          /\ query' = Seen("user", words)
    BY <1>1 DEF Rewrite
  <2>2. doc' = [doc EXCEPT !["user"] = [[doc["user"] EXCEPT !.text = words] EXCEPT !.stamp = Stamp]]
    BY <2>1, Zenon
  <2>3. doc["user"] \in [text : Text, node : Nat, stamp : Nat] /\ doc \in [Documents -> [text : Text, node : Nat, stamp : Nat]]
    BY DEF MemoryTyped, Documents
  <2>4. doc'["user"] = [[doc["user"] EXCEPT !.text = words] EXCEPT !.stamp = Stamp]
    BY <2>2, <2>3 DEF Documents
  <2>5. doc'["user"].stamp = Stamp /\ doc'["user"].text = words
    BY <2>3, <2>4
  <2>6. doc' = [doc EXCEPT !["user"] = doc'["user"]]
    BY <2>2, <2>4
  <2>7. UNCHANGED cache /\ clock'.now = clock.now
    BY <1>1 DEF Rewrite, MemoryTyped
  <2>8. Written("user", words)
    BY <2>1, <2>5, <2>6, <2>7 DEF Written
  <2> QED BY <2>8 DEF Documents, Text
<1>2. ASSUME NEW s \in Savers, SaveNote(s)
      PROVE  \E w \in Documents, words \in Text : Written(w, words)
  <2>1. saver[s] \cup {s} \in Text
    BY DEF MemoryTyped, Text
  <2>2. /\ doc' = [doc EXCEPT !["agent"] = [text |-> saver[s] \cup {s}, node |-> clock.nodes + 1, stamp |-> Stamp]]
        /\ query' = Seen("agent", saver[s] \cup {s})
        /\ UNCHANGED cache /\ clock'.now = clock.now
    BY <1>2 DEF SaveNote, MemoryTyped
  <2>3. doc'["agent"] = [text |-> saver[s] \cup {s}, node |-> clock.nodes + 1, stamp |-> Stamp]
    BY <2>2 DEF MemoryTyped, Documents
  <2>4. doc'["agent"].stamp = Stamp /\ doc'["agent"].text = saver[s] \cup {s}
    BY <2>3
  <2>5. doc' = [doc EXCEPT !["agent"] = doc'["agent"]]
    BY <2>2, <2>3
  <2>6. Written("agent", saver[s] \cup {s})
    BY <2>2, <2>4, <2>5 DEF Written
  <2> QED BY <2>1, <2>6 DEF Documents
<1> QED BY <1>1, <1>2

\* A query reads: the files stay as they are.
LEMMA ReadersTell ==
    ASSUME SnapshotInv, MemoryTyped',
           Inventory \/ Load \/ InventoryAgain \/ BeginQuery \/ EndQuery
    PROVE  CacheTells' /\ QueryTells' /\ SnapshotFresh'
<1> USE DEF SnapshotInv
<1>1. UNCHANGED <<doc, clock>>
  BY DEF Inventory, Load, InventoryAgain, BeginQuery, EndQuery
<1>2. \A d \in Documents : Row(d)' = Row(d) /\ Row(d) \in RowType
  BY <1>1, RowTyped DEF Row
<1>3. UNCHANGED cache => CacheTells'
  BY <1>1, <1>2 DEF CacheTells, AtRest, TellsText
<1>4. CASE BeginQuery
  <2>1. /\ query'.pc = "inventory" /\ query'.at = "user" /\ query'.started = clock.now
        /\ query'.since = [d \in Documents |-> {doc[d].text}] /\ UNCHANGED cache
    BY <1>4 DEF BeginQuery
  <2>2. Loaded' = {}
    BY <2>1 DEF Loaded
  <2>3. clock.now \in Nat
    BY DEF MemoryTyped
  <2> QED BY <1>1, <1>3, <2>1, <2>2, <2>3 DEF QueryTells, SnapshotFresh
<1>5. CASE Inventory /\ query.at = "user"
  <2>1. /\ query \in Querying /\ UNCHANGED cache
        /\ query'.pc = "inventory" /\ query'.at = "agent"
        /\ query'.rows = [query.rows EXCEPT !["user"] = Row("user")]
        /\ query'.started = query.started /\ query'.since = query.since
    BY <1>5, InventoryFields
  <2>2. query'.rows["user"] = Row("user")
    BY <2>1 DEF Querying, Documents
  <2>3. cache # NoCache /\ cache.rows["user"] = Row("user") => cache.texts["user"] \in query.since["user"]
    BY <2>1 DEF CacheTells, TellsText, QueryTells, Documents
  <2>4. Loaded' = {}
    BY <2>1 DEF Loaded
  <2> QED BY <1>1, <1>2, <1>3, <2>1, <2>2, <2>3, <2>4 DEF QueryTells, SnapshotFresh, Documents
<1>6. CASE Inventory /\ query.at = "agent" /\ cache.rows = [query.rows EXCEPT !["agent"] = Row("agent")]
  <2>1. query \in Querying /\ query.pc = "inventory" /\ UNCHANGED cache /\ query' = Served(cache.texts)
    BY <1>6, InventoryFields
  <2>2. query.rows \in [Documents -> RowType \cup {<<>>}]
    BY <2>1 DEF Querying
  <2>3. cache # NoCache
    <3>1. DOMAIN cache.rows = Documents
      BY <1>6, <2>2
    <3> QED BY <3>1, NotEmptyRows DEF NoCache
  <2>4. cache.rows["user"] = query.rows["user"] /\ cache.rows["agent"] = Row("agent")
    BY <1>6, <2>2 DEF Documents
  <2>5. \A d \in Documents : cache.texts[d] \in query.since[d]
    BY <1>6, <2>1, <2>3, <2>4 DEF QueryTells, CacheTells, TellsText, Documents
  <2>6. query'.pc = "served" /\ query'.texts = cache.texts /\ query'.since = query.since
    BY <2>1 DEF Served
  <2>7. query' \notin Querying
    BY <2>6 DEF Querying
  <2> QED BY <1>3, <2>1, <2>5, <2>6, <2>7 DEF QueryTells, SnapshotFresh
<1>7. CASE Inventory /\ query.at = "agent" /\ cache.rows # [query.rows EXCEPT !["agent"] = Row("agent")]
  <2>1. /\ query \in Querying /\ query.pc = "inventory" /\ UNCHANGED cache
        /\ query'.pc = "load" /\ query'.at = "user"
        /\ query'.rows = [query.rows EXCEPT !["agent"] = Row("agent")]
        /\ query'.started = query.started /\ query'.since = query.since
    BY <1>7, InventoryFields
  <2>2. \A d \in Documents : query'.rows[d] \in RowType
    BY <1>2, <1>7, <2>1 DEF QueryTells, Querying, Documents
  <2>3. Loaded' = {}
    BY <2>1 DEF Loaded
  <2> QED BY <1>1, <1>3, <2>1, <2>2, <2>3 DEF QueryTells, SnapshotFresh
<1>8. CASE Load
  <2>1. /\ query \in Querying /\ query.pc = "load" /\ UNCHANGED cache
        /\ query'.rows = query.rows
        /\ query'.started = query.started /\ query'.since = query.since
        /\ query'.texts = [query.texts EXCEPT ![query.at] = doc[query.at].text]
        /\ query.at = "user" => query'.pc = "load" /\ query'.at = "agent"
        /\ query.at = "agent" => query'.pc = "again" /\ query'.at = "user"
    BY <1>8, LoadFields
  <2>2. query.at \in Documents /\ query.texts \in [Documents -> Text]
    BY <2>1 DEF Querying
  <2>3. \A d \in Loaded' : d = query.at \/ (d \in Loaded /\ d # query.at)
    BY <2>1, <2>2 DEF Loaded, Documents
  <2>4. ASSUME NEW d \in Loaded'
        PROVE  /\ query'.texts[d] \in query.since[d]
               /\ AtRest(query.rows[d], query.started) => TellsText(d, query.rows[d], query'.texts[d])
    <3>1. CASE d = query.at
      BY <2>1, <2>2, <3>1 DEF QueryTells, TellsText
    <3>2. CASE d \in Loaded /\ d # query.at
      <4>1. query'.texts[d] = query.texts[d]
        BY <2>1, <2>2, <3>2 DEF Loaded, Documents
      <4> QED BY <2>1, <3>2, <4>1 DEF QueryTells
    <3> QED BY <2>3, <3>1, <3>2
  <2>5. query'.pc \in {"load", "again"}
    BY <2>1, <2>2 DEF Documents
  <2>6. \A d \in Loaded' : AtRest(query.rows[d], query.started) =>
            (Row(d)' = query.rows[d] => doc'[d].text = query'.texts[d])
    <3>1. Loaded' \subseteq Documents
      BY DEF Loaded, Documents
    <3> QED BY <1>1, <1>2, <2>4, <3>1 DEF TellsText
  <2>7. QueryTells'
    BY <1>1, <2>1, <2>4, <2>5, <2>6 DEF QueryTells, AtRest, TellsText, Row
  <2> QED BY <1>3, <2>1, <2>5, <2>7 DEF SnapshotFresh
<1>9. CASE InventoryAgain /\ query.at = "user"
  <2>1. /\ query \in Querying /\ query.pc = "again" /\ UNCHANGED cache
        /\ query'.pc = "again" /\ query'.at = "agent"
        /\ query'.rows = query.rows /\ query'.texts = query.texts
        /\ query'.started = query.started /\ query'.since = query.since
    BY <1>9, InventoryAgainFields
  <2>2. Loaded' = Documents /\ Loaded = Documents
    BY <2>1 DEF Loaded
  <2>3. QueryTells'
    BY <1>1, <1>2, <2>1, <2>2 DEF QueryTells, AtRest, TellsText, Documents
  <2> QED BY <1>3, <2>1, <2>3 DEF SnapshotFresh
<1>10. CASE InventoryAgain /\ query.at = "agent"
  <2>1. /\ query \in Querying /\ query.pc = "again"
        /\ query' = Served(query.texts)
        /\ \/ /\ ~Racy(query.rows)
              /\ cache' = [rows |-> query.rows, texts |-> query.texts]
           \/ cache' = NoCache
    BY <1>10, InventoryAgainFields
  <2>2. Loaded = Documents
    BY <2>1 DEF Loaded
  <2>3. /\ \A d \in Documents : query.rows[d] \in RowType /\ query.texts[d] \in query.since[d]
        /\ \A d \in Documents : AtRest(query.rows[d], query.started) => TellsText(d, query.rows[d], query.texts[d])
        /\ query.started <= clock.now /\ query.started \in Nat /\ clock.now \in Nat
    BY <2>1, <2>2 DEF QueryTells, Querying, MemoryTyped
  <2>4. query'.pc = "served" /\ query'.texts = query.texts /\ query'.since = query.since
    BY <2>1 DEF Served
  <2>5. query' \notin Querying
    BY <2>4 DEF Querying
  <2>6. ASSUME ~Racy(query.rows), cache' = [rows |-> query.rows, texts |-> query.texts],
               NEW d \in Documents
        PROVE  /\ AtRest(query.rows[d], clock.now)
               /\ TellsText(d, query.rows[d], query.texts[d])
    <3>1. query.rows[d][2] \in Nat /\ RacyWindow \in Nat
      BY <2>3, MemoryAssumption DEF RowType
    <3>2. query.rows[d][2] + RacyWindow < query.started
      BY <2>3, <2>6, <3>1 DEF Racy
    <3> QED BY <2>3, <3>1, <3>2 DEF AtRest
  <2>7. CacheTells'
    BY <1>1, <1>2, <2>1, <2>6 DEF CacheTells, AtRest, TellsText
  <2> QED BY <2>3, <2>4, <2>5, <2>7 DEF QueryTells, SnapshotFresh
<1>11. CASE EndQuery
  <2>1. query' = NoQuery /\ UNCHANGED cache
    BY <1>11 DEF EndQuery
  <2>2. query'.pc = "idle"
    BY <2>1 DEF NoQuery
  <2>3. query' \notin Querying
    BY <2>2 DEF Querying
  <2> QED BY <1>3, <2>1, <2>2, <2>3 DEF QueryTells, SnapshotFresh
<1>12. Inventory \/ InventoryAgain => query.at \in Documents
  BY InventoryFields, InventoryAgainFields DEF Querying
<1> QED BY <1>4, <1>5, <1>6, <1>7, <1>8, <1>9, <1>10, <1>11, <1>12 DEF Documents

\* Time passes, or nothing a query reads or keeps is touched.
LEMMA OthersTell ==
    ASSUME SnapshotInv, UNCHANGED <<doc, query, cache>>, clock.now <= clock'.now,
           clock'.now \in Nat
    PROVE  CacheTells' /\ QueryTells' /\ SnapshotFresh'
<1> USE DEF SnapshotInv
<1>1. \A row \in RowType : AtRest(row, clock.now) => AtRest(row, clock'.now)
  BY MemoryAssumption DEF AtRest, RowType, MemoryTyped
<1>2. CacheTells'
  BY <1>1 DEF CacheTells, AtRest, TellsText, Row
<1>3. query \in Querying => query.started <= clock'.now
  BY DEF QueryTells, Querying, MemoryTyped
<1>4. QueryTells'
  BY <1>3 DEF QueryTells, AtRest, TellsText, Row, Loaded
<1> QED BY <1>2, <1>4 DEF SnapshotFresh

\* Every step keeps the invariant.
LEMMA SnapshotNext ==
    ASSUME SnapshotInv, [MemoryNext]_memoryVars
    PROVE  SnapshotInv'
<1>1. MemoryTyped /\ MemoryTyped'
  BY TypedNext DEF SnapshotInv
<1>2. CASE Rewrite \/ \E s \in Savers : SaveNote(s)
  BY <1>1, <1>2, WritersWrite, WrittenTells DEF SnapshotInv
<1>3. CASE Inventory \/ Load \/ InventoryAgain \/ BeginQuery \/ EndQuery
  BY <1>1, <1>3, ReadersTell DEF SnapshotInv
<1>4. CASE Pass \/ (\E s \in Savers : ReadNotes(s) \/ GiveUpSaving(s)) \/ UNCHANGED memoryVars
  <2>1. UNCHANGED <<doc, query, cache>> /\ clock.now <= clock'.now /\ clock'.now \in Nat
    BY <1>1, <1>4 DEF Pass, ReadNotes, GiveUpSaving, memoryVars, MemoryTyped
  <2> QED BY <1>1, <2>1, OthersTell DEF SnapshotInv
<1> QED BY <1>2, <1>3, <1>4 DEF MemoryNext

\* The invariant holds before the first snapshot.
LEMMA SnapshotInit == MemoryInit => SnapshotInv
<1> SUFFICES ASSUME MemoryInit PROVE SnapshotInv
  OBVIOUS
<1>1. query.pc = "idle" /\ cache = NoCache
  BY DEF MemoryInit, NoQuery
<1>2. query \notin Querying
  BY <1>1 DEF Querying
<1> QED BY <1>1, <1>2, TypedInit DEF SnapshotInv, CacheTells, QueryTells, SnapshotFresh

\* A turn is never shown a text of a file older than the turn's own start, for
\* any schedule of writes, any clock and any racy window that covers the grain
\* of the file system's stamps (Retrieval.snapshot).
THEOREM SnapshotsAreFresh == MemorySpec => []SnapshotFresh
<1>1. SnapshotInv => SnapshotFresh
  BY DEF SnapshotInv
<1> QED BY <1>1, SnapshotInit, SnapshotNext, PTL DEF MemorySpec

-----------------------------------------------------------------------------
(* Recall: the tokens of chunks *)

Sources == {"active_skill", "recovery_state", "task_working_set", "workspace_state",
            "recalled_memory", "project_structure", "memory_index"}
ChunkKeys ==
    Notes \cup {"skill", "recovery", "identity", "state-0", "state-1", "checkpoint-state",
                "working-details-0", "project-map-0", "project-map-1"}
\* The key of a recalled chunk is its note.
Chunks ==
    {c \in [source : Sources, key : ChunkKeys, priority : Nat, rank : Nat, tokens : Nat,
            required : BOOLEAN] : c.source = "recalled_memory" => c.key \in Notes}
Weights(offered) == [i \in DOMAIN offered |-> offered[i].tokens]

LEMMA TokensType ==
    ASSUME NEW offered \in Seq(Chunks)
    PROVE  \A i \in DOMAIN offered : offered[i].tokens \in Nat
<1>1. \A c \in Chunks : c.tokens \in Nat
  BY DEF Chunks
<1>2. \A i \in DOMAIN offered : offered[i] \in Chunks
  OBVIOUS
<1> QED BY <1>1, <1>2

LEMMA TokensAreSums ==
    ASSUME NEW offered \in Seq(Chunks)
    PROVE  \E it \in [SUBSET DOMAIN offered -> Nat] :
              /\ Sums(it, Weights(offered), DOMAIN offered)
              /\ \A S \in SUBSET DOMAIN offered : Tokens(offered, S) = it[S]
<1> DEFINE U == DOMAIN offered
           wt == Weights(offered)
<1>1. IsFiniteSet(U)
  BY FS_Interval
<1>2. wt \in [U -> Nat] /\ \A i \in U : wt[i] = offered[i].tokens
  <2>1. \A i \in U : offered[i].tokens \in Nat
    BY TokensType
  <2> QED BY <2>1 DEF Weights
<1> HIDE DEF wt
<1>3. PICK it \in [SUBSET U -> Nat] : Sums(it, wt, U)
  BY <1>1, <1>2, SumsExist
<1>4. ASSUME NEW S \in SUBSET U
      PROVE  Tokens(offered, S) = it[S]
  <2> DEFINE Step(g, s) == IF s = {} THEN 0
                           ELSE offered[CHOOSE x \in s : TRUE].tokens + g[s \ {CHOOSE x \in s : TRUE}]
             f == CHOOSE f : f = [s \in SUBSET S |-> Step(f, s)]
             other == [s \in SUBSET S |-> it[s]]
  <2>1. Tokens(offered, S) = f[S]
    BY DEF Tokens, MapThenSumSet, MapThenFoldSet
  <2>2. \A s \in SUBSET S : s # {} => AnyOf(s) \in U /\ s \ {AnyOf(s)} \in SUBSET S
    BY AnyIn
  <2>3. \A s \in SUBSET S : it[s] = IF s = {} THEN 0 ELSE wt[AnyOf(s)] + it[s \ {AnyOf(s)}]
    <3> TAKE s \in SUBSET S
    <3>1. s \in SUBSET U
      OBVIOUS
    <3> QED BY <1>3, <3>1, Zenon DEF Sums
  <2>4. \A s \in SUBSET S : other[s] = Step(other, s)
    <3>1. \A s \in SUBSET S : Step(other, s) = IF s = {} THEN 0 ELSE wt[AnyOf(s)] + it[s \ {AnyOf(s)}]
      BY <1>2, <2>2 DEF AnyOf
    <3> QED BY <2>3, <3>1
  <2>5. other = [s \in SUBSET S |-> Step(other, s)]
    <3> HIDE DEF Step
    <3> QED BY <2>4
  <2>6. f = [s \in SUBSET S |-> Step(f, s)]
    <3> HIDE DEF other, Step
    <3> QED BY <2>5, Zenon
  <2> HIDE DEF f, other
  <2>7. Sums(f, wt, S)
    <3>1. \A s \in SUBSET S : Step(f, s) = IF s = {} THEN 0 ELSE wt[AnyOf(s)] + f[s \ {AnyOf(s)}]
      BY <1>2, <2>2 DEF AnyOf
    <3> HIDE DEF Step
    <3>2. f = [s \in SUBSET S |-> IF s = {} THEN 0 ELSE wt[AnyOf(s)] + f[s \ {AnyOf(s)}]]
      BY <2>6, <3>1
    <3> QED BY <3>2 DEF Sums
  <2>8. f[S] = it[S]
    <3>1. \A s \in SUBSET S : f[s] = it[s]
      <4>1. S \in SUBSET U
        OBVIOUS
      <4> HIDE DEF U
      <4>2. SameSums(it, f, S)
        BY <1>1, <1>3, <2>7, <4>1, SumsUnique
      <4> QED BY <4>2 DEF SameSums
    <3> QED BY <3>1
  <2> QED BY <2>1, <2>8
<1>5. \A S \in SUBSET U : Tokens(offered, S) = it[S]
  BY <1>4
<1> QED BY <1>3, <1>5 DEF wt

\* They add up.
LEMMA TokensAdd ==
    ASSUME NEW offered \in Seq(Chunks), NEW S \in SUBSET DOMAIN offered
    PROVE  /\ Tokens(offered, S) \in Nat
           /\ S = {} => Tokens(offered, S) = 0
           /\ \A i \in DOMAIN offered \ S :
                  Tokens(offered, S \cup {i}) = Tokens(offered, S) + offered[i].tokens
           /\ \A T \in SUBSET S : Tokens(offered, T) <= Tokens(offered, S)
<1> DEFINE U == DOMAIN offered
           wt == Weights(offered)
<1>1. IsFiniteSet(U)
  BY FS_Interval
<1>2. wt \in [U -> Nat] /\ \A i \in U : wt[i] = offered[i].tokens
  <2>1. \A i \in U : offered[i].tokens \in Nat
    BY TokensType
  <2> QED BY <2>1 DEF Weights
<1>3. PICK it \in [SUBSET U -> Nat] :
          Sums(it, wt, U) /\ \A s \in SUBSET U : Tokens(offered, s) = it[s]
  BY TokensAreSums
<1> HIDE DEF wt
<1>4. S = {} => it[S] = 0
  BY <1>3 DEF Sums
<1>5. ASSUME NEW i \in U \ S
      PROVE  it[S \cup {i}] = it[S] + wt[i]
  <2> DEFINE s == S \cup {i}
  <2>1. s \in SUBSET U /\ i \in s /\ s \ {i} = S
    OBVIOUS
  <2> HIDE DEF s
  <2>2. it[s] = wt[i] + it[s \ {i}]
    <3>1. \A x \in SUBSET U : \A j \in x : it[x] = wt[j] + it[x \ {j}]
      <4>1. it \in [SUBSET U -> Nat] /\ Sums(it, wt, U) /\ wt \in [U -> Nat]
        BY <1>2, <1>3
      <4> HIDE DEF U
      <4>2. SumsAdd(it, wt, U)
        BY <1>1, <4>1, SumsSplit
      <4> QED BY <4>2 DEF SumsAdd
    <3> QED BY <2>1, <3>1
  <2>3. it[S] \in Nat /\ wt[i] \in Nat
    BY <1>2
  <2>4. it[s] = wt[i] + it[S]
    BY <2>1, <2>2
  <2> DEFINE p == it[s]
             q == it[S]
             x == wt[i]
  <2>5. p = x + q /\ q \in Nat /\ x \in Nat
    BY <2>3, <2>4
  <2> HIDE DEF p, q, x
  <2>6. p = q + x
    BY <2>5
  <2> QED BY <2>6 DEF s, p, q, x
<1>6. \A T \in SUBSET S : it[T] <= it[S]
  <2>1. SumsRise(it, U)
    BY <1>1, <1>2, <1>3, SumsGrow
  <2> QED BY <2>1 DEF SumsRise
<1> DEFINE tokens(X) == Tokens(offered, X)
<1>7. \A X \in SUBSET U : tokens(X) = it[X] /\ it[X] \in Nat
  BY <1>3
<1> HIDE DEF tokens
<1>8. tokens(S) \in Nat /\ (S = {} => tokens(S) = 0)
  BY <1>4, <1>7
<1>9. \A i \in U \ S : tokens(S \cup {i}) = tokens(S) + offered[i].tokens
  <2> TAKE i \in U \ S
  <2>1. S \cup {i} \in SUBSET U
    OBVIOUS
  <2> QED BY <1>2, <1>5, <1>7, <2>1
<1>10. \A T \in SUBSET S : tokens(T) <= tokens(S)
  <2>1. \A T \in SUBSET S : T \in SUBSET U
    OBVIOUS
  <2> QED BY <1>6, <1>7, <2>1
<1> QED BY <1>8, <1>9, <1>10 DEF tokens

-----------------------------------------------------------------------------
(* Recall: allocation *)

Within(offered, S) ==
    /\ Tokens(offered, S) <= Pool
    /\ \A i \in S : Tokens(offered, OfSource(offered, S, offered[i].source)) <= SourceCap

LEMMA CapsType == Pool \in Nat /\ SourceCap \in Nat /\ TopK \in Nat /\ SkipTurns \in Nat
                  /\ MaxRequests \in Nat /\ MaxTurns \in Nat
  BY RecallAssumption

\* A part of what is within the caps is.
LEMMA WithinPart ==
    ASSUME NEW offered \in Seq(Chunks), NEW S \in SUBSET DOMAIN offered, NEW T \in SUBSET S,
           Within(offered, S)
    PROVE  Within(offered, T)
<1>1. Tokens(offered, T) <= Pool
  BY TokensAdd, CapsType DEF Within
<1>2. ASSUME NEW i \in T
      PROVE  Tokens(offered, OfSource(offered, T, offered[i].source)) <= SourceCap
  <2> DEFINE a == OfSource(offered, T, offered[i].source)
             b == OfSource(offered, S, offered[i].source)
  <2>1. a \in SUBSET b /\ b \in SUBSET DOMAIN offered /\ a \in SUBSET DOMAIN offered
    BY DEF OfSource
  <2>2. Tokens(offered, b) <= SourceCap
    BY DEF Within
  <2> HIDE DEF a, b
  <2> QED BY <2>1, <2>2, TokensAdd, CapsType DEF a
<1> QED BY <1>1, <1>2 DEF Within

\* What is within the caps with one more chunk.
LEMMA WithinFits ==
    ASSUME NEW offered \in Seq(Chunks), NEW S \in SUBSET DOMAIN offered, NEW n \in DOMAIN offered \ S
    PROVE  Within(offered, S \cup {n}) <=> Within(offered, S) /\ Fits(offered, S, n)
<1> DEFINE more == S \cup {n}
           of(X, source) == OfSource(offered, X, source)
           source == offered[n].source
<1>1. more \in SUBSET DOMAIN offered /\ \A x : of(S, x) \in SUBSET DOMAIN offered
  BY DEF OfSource
<1>2. of(more, source) = of(S, source) \cup {n} /\ n \notin of(S, source)
  BY DEF OfSource
<1>3. \A x : x # source => of(more, x) = of(S, x)
  BY DEF OfSource
<1>4. Tokens(offered, more) = Tokens(offered, S) + offered[n].tokens
  BY TokensAdd
<1>5. Tokens(offered, of(more, source)) = Tokens(offered, of(S, source)) + offered[n].tokens
  <2> DEFINE a == of(S, source)
  <2>1. a \in SUBSET DOMAIN offered /\ n \in DOMAIN offered \ a
    BY <1>1, <1>2
  <2> HIDE DEF a
  <2>2. Tokens(offered, a \cup {n}) = Tokens(offered, a) + offered[n].tokens
    BY <2>1, TokensAdd
  <2> QED BY <1>2, <2>2 DEF a
<1>6. ASSUME Within(offered, more)
      PROVE  Within(offered, S) /\ Fits(offered, S, n)
  <2>1. S \in SUBSET more /\ n \in more
    OBVIOUS
  <2>2. Within(offered, S)
    BY <1>1, <1>6, <2>1, WithinPart
  <2>3. Tokens(offered, more) <= Pool /\ Tokens(offered, of(more, source)) <= SourceCap
    BY <1>6, <2>1 DEF Within
  <2> QED BY <1>4, <1>5, <2>2, <2>3 DEF Fits
<1>7. ASSUME Within(offered, S), Fits(offered, S, n)
      PROVE  Within(offered, more)
  <2>1. Tokens(offered, more) <= Pool /\ Tokens(offered, of(more, source)) <= SourceCap
    BY <1>4, <1>5, <1>7 DEF Fits
  <2>2. \A i \in S : Tokens(offered, of(S, offered[i].source)) <= SourceCap
    BY <1>7 DEF Within
  <2> HIDE DEF of
  <2>3. \A i \in more : Tokens(offered, of(more, offered[i].source)) <= SourceCap
    <3> TAKE i \in more
    <3>1. CASE offered[i].source = source
      BY <2>1, <3>1
    <3>2. CASE offered[i].source # source
      <4>1. i \in S
        BY <3>2
      <4>2. of(more, offered[i].source) = of(S, offered[i].source)
        BY <1>3, <3>2
      <4> HIDE DEF more
      <4> QED BY <2>2, <4>1, <4>2
    <3> QED BY <3>1, <3>2
  <2> QED BY <2>1, <2>3 DEF of, Within
<1> QED BY <1>6, <1>7

\* The chunks selected one after the other.
SelectsTo(m, g, offered) ==
    \A n \in 0..m :
        g[n] = IF n = 0 THEN {} ELSE g[n - 1] \cup {i \in {n} : Fits(offered, g[n - 1], n)}
Selects(g, offered) ==
    g = [n \in 0..Len(offered) |->
            IF n = 0 THEN {} ELSE g[n - 1] \cup {i \in {n} : Fits(offered, g[n - 1], n)}]

LEMMA SelectsExists ==
    ASSUME NEW offered, Len(offered) \in Nat
    PROVE  \E g : Selects(g, offered)
<1> DEFINE N == Len(offered)
           S == {m \in 0..N : \E g : DOMAIN g = 0..m /\ g = [i \in 0..m |-> g[i]] /\ SelectsTo(m, g, offered)}
<1>1. 0 \in S
  <2> DEFINE g == [n \in 0..0 |-> {}]
  <2>1. DOMAIN g = 0..0 /\ g = [i \in 0..0 |-> g[i]] /\ SelectsTo(0, g, offered)
    BY DEF SelectsTo
  <2>2. 0 \in 0..N
    OBVIOUS
  <2> HIDE DEF g
  <2> QED BY <2>1, <2>2
<1>2. ASSUME NEW m \in 0..(N - 1), m \in S
      PROVE  m + 1 \in S
  <2>1. PICK g : DOMAIN g = 0..m /\ SelectsTo(m, g, offered)
    BY <1>2
  <2> DEFINE new == g[m] \cup {i \in {m + 1} : Fits(offered, g[m], m + 1)}
             h == [n \in 0..(m + 1) |-> IF n <= m THEN g[n] ELSE new]
  <2>2. h[m + 1] = new /\ h[m] = g[m] /\ DOMAIN h = 0..(m + 1)
    OBVIOUS
  <2>3. \A n \in 0..m : h[n] = g[n]
    OBVIOUS
  <2>4. h = [i \in 0..(m + 1) |-> h[i]]
    OBVIOUS
  <2> HIDE DEF h
  <2>5. ASSUME NEW n \in 0..(m + 1)
        PROVE  h[n] = IF n = 0 THEN {} ELSE h[n - 1] \cup {i \in {n} : Fits(offered, h[n - 1], n)}
    <3>1. CASE n = m + 1
      <4>1. n # 0 /\ n - 1 = m
        BY <3>1
      <4> QED BY <2>2, <3>1, <4>1
    <3>2. CASE n # m + 1
      <4>1. n \in 0..m /\ (n # 0 => n - 1 \in 0..m)
        BY <3>2
      <4>2. h[n] = g[n] /\ (n # 0 => h[n - 1] = g[n - 1])
        BY <2>3, <4>1
      <4>3. g[n] = IF n = 0 THEN {} ELSE g[n - 1] \cup {i \in {n} : Fits(offered, g[n - 1], n)}
        BY <2>1, <4>1, Zenon DEF SelectsTo
      <4> QED BY <4>2, <4>3
    <3> QED BY <3>1, <3>2
  <2>6. SelectsTo(m + 1, h, offered)
    BY <2>5 DEF SelectsTo
  <2>7. m + 1 \in 0..N
    OBVIOUS
  <2> QED BY <2>2, <2>4, <2>6, <2>7
<1>3. N \in S
  <2> HIDE DEF S
  <2>1. \A k \in 0..N : k \in S
    BY <1>1, <1>2, InductionUpTo
  <2> QED BY <2>1
<1>4. PICK g : DOMAIN g = 0..N /\ g = [i \in 0..N |-> g[i]] /\ SelectsTo(N, g, offered)
  BY <1>3
<1>5. Selects(g, offered)
  BY <1>4 DEF Selects, SelectsTo
<1> QED BY <1>5

LEMMA AllocationIs ==
    ASSUME NEW offered, Len(offered) \in Nat
    PROVE  \E g : /\ Selects(g, offered)
                  /\ Allocation(offered).offered = offered
                  /\ Allocation(offered).selected = g[Len(offered)]
                  /\ Allocation(offered).failed
                       = \E i \in DOMAIN offered : offered[i].required /\ i \notin g[Len(offered)]
<1> DEFINE f == CHOOSE f : f = [n \in 0..Len(offered) |->
                  IF n = 0 THEN {} ELSE f[n - 1] \cup {i \in {n} : Fits(offered, f[n - 1], n)}]
<1>1. PICK g : Selects(g, offered)
  BY SelectsExists
<1>2. f = [n \in 0..Len(offered) |->
                  IF n = 0 THEN {} ELSE f[n - 1] \cup {i \in {n} : Fits(offered, f[n - 1], n)}]
  BY <1>1, Zenon DEF Selects
<1>3. Allocation(offered) =
        [offered |-> offered, selected |-> f[Len(offered)],
         failed |-> \E i \in DOMAIN offered : offered[i].required /\ i \notin f[Len(offered)]]
  BY Zenon DEF Allocation
<1> HIDE DEF f
<1>4. Selects(f, offered)
  BY <1>2 DEF Selects
<1> QED BY <1>3, <1>4

\* Whatever was decided about n chunks is within the caps and stays.
LEMMA SelectedSoFar ==
    ASSUME NEW offered \in Seq(Chunks), NEW g, Selects(g, offered)
    PROVE  \A m \in 0..Len(offered) :
              /\ g[m] \in SUBSET (1..m) /\ Within(offered, g[m])
              /\ \A n \in 0..m : g[n] = {j \in g[m] : j <= n}
<1> DEFINE N == Len(offered)
           Good(m) == /\ g[m] \in SUBSET (1..m) /\ Within(offered, g[m])
                      /\ \A n \in 0..m : g[n] = {j \in g[m] : j <= n}
           S == {m \in 0..N : Good(m)}
<1>0. N \in Nat /\ DOMAIN offered = 1..N
  OBVIOUS
<1>1. 0 \in S
  <2>1. g[0] = {} /\ 0 \in 0..N
    BY <1>0 DEF Selects
  <2>2. {} \in SUBSET DOMAIN offered
    OBVIOUS
  <2>3. Tokens(offered, {}) = 0
    BY <2>2, TokensAdd
  <2>4. Within(offered, {})
    BY <2>3, CapsType DEF Within
  <2>5. \A n \in 0..0 : g[n] = {j \in g[0] : j <= n}
    BY <2>1
  <2>6. g[0] \in SUBSET (1..0) /\ Within(offered, g[0])
    BY <2>1, <2>4
  <2>7. Good(0)
    BY <2>5, <2>6
  <2> HIDE DEF N, Good
  <2> QED BY <2>1, <2>7
<1>2. ASSUME NEW m \in 0..(N - 1), m \in S
      PROVE  m + 1 \in S
  <2>1. Good(m)
    BY <1>2
  <2> DEFINE k == m + 1
  <2>2. k \in 0..N /\ k # 0 /\ k - 1 = m /\ k \in DOMAIN offered /\ k \notin 1..m
    BY <1>0
  <2> HIDE DEF k
  <2>3. g[k] = g[m] \cup {i \in {k} : Fits(offered, g[m], k)}
    BY <2>2, Zenon DEF Selects
  <2>4. g[m] \in SUBSET DOMAIN offered /\ k \in DOMAIN offered \ g[m]
    BY <1>0, <2>1, <2>2
  <2>5. Within(offered, g[k])
    <3>1. CASE Fits(offered, g[m], k)
      <4>1. g[k] = g[m] \cup {k}
        BY <2>3, <3>1
      <4> QED BY <2>1, <2>4, <3>1, <4>1, WithinFits
    <3>2. CASE ~Fits(offered, g[m], k)
      <4>1. g[k] = g[m]
        BY <2>3, <3>2
      <4> QED BY <2>1, <4>1
    <3> QED BY <3>1, <3>2
  <2>6. g[k] \in SUBSET (1..k)
    BY <2>1, <2>2, <2>3
  <2>7. \A n \in 0..k : g[n] = {j \in g[k] : j <= n}
    <3> TAKE n \in 0..k
    <3>1. CASE n = k
      BY <2>6, <3>1
    <3>2. CASE n # k
      <4>1. n \in 0..m
        BY <2>2, <3>2
      <4>2. g[n] = {j \in g[m] : j <= n}
        BY <2>1, <4>1
      <4> QED BY <2>2, <2>3, <4>1, <4>2
    <3> QED BY <3>1, <3>2
  <2>8. Good(k)
    BY <2>5, <2>6, <2>7
  <2> HIDE DEF Good
  <2> QED BY <2>2, <2>8 DEF k
<1>3. \A m \in 0..N : m \in S
  <2> HIDE DEF S
  <2> QED BY <1>0, <1>1, <1>2, InductionUpTo
<1> QED BY <1>3

\* Each chunk stands behind those that are ahead of it, and before the others.
InOrder(s) == \A i \in DOMAIN s : Ahead(s, i) = {j \in DOMAIN s : j < i}

\* What allocate_context_chunks promises, of any allocation.
ContextFits_(a) ==
    LET all == DOMAIN a.offered
        required == {i \in all : a.offered[i].required}
    IN  /\ a.selected \subseteq all
        /\ Within(a.offered, a.selected)
        /\ a.failed <=> ~Within(a.offered, required)
        /\ \A i \in all \ a.selected :
              ~Within(a.offered, (a.selected \cap Ahead(a.offered, i)) \cup {i})

LEMMA AllocationFits ==
    ASSUME NEW offered \in Seq(Chunks), InOrder(offered)
    PROVE  ContextFits_(Allocation(offered))
<1> DEFINE N == Len(offered)
           all == DOMAIN offered
           required == {i \in all : offered[i].required}
           a == Allocation(offered)
<1>0. N \in Nat /\ all = 1..N /\ N \in 0..N
  OBVIOUS
<1>1. PICK g : /\ Selects(g, offered)
               /\ a.offered = offered
               /\ a.selected = g[N]
               /\ a.failed = \E i \in all : offered[i].required /\ i \notin g[N]
  BY <1>0, AllocationIs
<1> HIDE DEF a
<1>2. \A m \in 0..N : /\ g[m] \in SUBSET (1..m) /\ Within(offered, g[m])
                      /\ \A n \in 0..m : g[n] = {j \in g[m] : j <= n}
  BY <1>1, SelectedSoFar
<1>3. g[N] \in SUBSET all /\ Within(offered, g[N])
  BY <1>0, <1>2
<1>4. ASSUME NEW i \in all \ g[N]
      PROVE  ~Within(offered, {j \in g[N] : j < i} \cup {i})
  <2> DEFINE m == i - 1
             sofar == {j \in g[N] : j < i}
  <2>1. i \in 1..N /\ m \in 0..N /\ i \in 0..N /\ i # 0
    BY <1>0
  <2>2. g[i] = g[m] \cup {n \in {i} : Fits(offered, g[m], i)}
    BY <1>1, <2>1, Zenon DEF Selects
  <2>3. g[i] = {j \in g[N] : j <= i} /\ g[m] = {j \in g[N] : j <= m}
    BY <1>0, <1>2, <2>1
  <2>4. g[m] = sofar
    <3>1. \A j \in g[N] : j <= m <=> j < i
      BY <1>0, <1>3, <2>1
    <3> QED BY <2>3, <3>1
  <2>5. ~Fits(offered, sofar, i)
    BY <1>4, <2>2, <2>3, <2>4
  <2>6. sofar \in SUBSET DOMAIN offered /\ i \in DOMAIN offered \ sofar
    BY <1>3
  <2> HIDE DEF sofar
  <2>7. ~Within(offered, sofar \cup {i})
    BY <2>5, <2>6, WithinFits
  <2> QED BY <2>7 DEF sofar
<1>5. a.failed <=> ~Within(offered, required)
  <2>1. ASSUME ~a.failed PROVE Within(offered, required)
    <3>1. required \in SUBSET g[N]
      BY <1>1, <2>1
    <3> QED BY <1>3, <3>1, WithinPart
  <2>2. ASSUME a.failed, Within(offered, required) PROVE FALSE
    <3>1. PICK i \in all : offered[i].required /\ i \notin g[N]
      BY <1>1, <2>2
    <3> DEFINE some == {j \in g[N] : j < i} \cup {i}
    <3>2. some \in SUBSET required
      <4>1. ASSUME NEW j \in some PROVE j \in all /\ offered[j].required
        <5>1. j \in all /\ (j # i => j \in Ahead(offered, i))
          BY <1>0, <1>3, <3>1 DEF InOrder
        <5> QED BY <3>1, <5>1 DEF Ahead, Outranks, SameRank
      <4> QED BY <4>1
    <3>3. required \in SUBSET DOMAIN offered
      OBVIOUS
    <3>4. Within(offered, some)
      <4> HIDE DEF some, required
      <4> QED BY <2>2, <3>2, <3>3, WithinPart
    <3> QED BY <1>4, <3>1, <3>4
  <2> QED BY <2>1, <2>2
<1>6. \A i \in all \ g[N] : ~Within(offered, (g[N] \cap Ahead(offered, i)) \cup {i})
  <2>1. \A i \in all \ g[N] : g[N] \cap Ahead(offered, i) = {j \in g[N] : j < i}
    BY <1>3 DEF InOrder
  <2> QED BY <1>4, <2>1
<1>7. ContextFits_(a)
  BY <1>1, <1>3, <1>5, <1>6 DEF ContextFits_
<1> QED BY <1>7 DEF a

-----------------------------------------------------------------------------
(* Recall: what is offered *)

\* The order of the keys.
LEMMA RankOrder ==
    ASSUME NEW c \in Chunks, NEW d \in Chunks, NEW e \in Chunks
    PROVE  /\ Outranks(c, d) \/ Outranks(d, c) \/ SameRank(c, d)
           /\ ~(Outranks(c, d) /\ Outranks(d, c)) /\ ~(Outranks(c, d) /\ SameRank(c, d))
           /\ SameRank(c, d) <=> SameRank(d, c)
           /\ SameRank(c, c)
           /\ Outranks(c, d) /\ Outranks(d, e) => Outranks(c, e)
           /\ Outranks(c, d) /\ SameRank(d, e) => Outranks(c, e)
           /\ SameRank(c, d) /\ Outranks(d, e) => Outranks(c, e)
           /\ SameRank(c, d) /\ SameRank(d, e) => SameRank(c, e)
<1>1. \A x \in Chunks : x.required \in BOOLEAN /\ x.priority \in Nat /\ x.rank \in Nat
  BY DEF Chunks
<1> QED BY <1>1 DEF Outranks, SameRank

\* Being ahead is a strict total order of the places.
LEMMA AheadOrder ==
    ASSUME NEW s \in Seq(Chunks), NEW i \in DOMAIN s, NEW j \in DOMAIN s
    PROVE  /\ i \notin Ahead(s, i)
           /\ i # j => i \in Ahead(s, j) \/ j \in Ahead(s, i)
           /\ i \in Ahead(s, j) => Ahead(s, i) \subseteq Ahead(s, j) /\ j \notin Ahead(s, i)
<1>1. DOMAIN s \subseteq Nat /\ \A k \in DOMAIN s : s[k] \in Chunks
  OBVIOUS
<1>2. i \notin Ahead(s, i)
  BY <1>1, RankOrder DEF Ahead
<1>3. i # j => i \in Ahead(s, j) \/ j \in Ahead(s, i)
  BY <1>1, RankOrder DEF Ahead
<1>4. ASSUME i \in Ahead(s, j)
      PROVE  Ahead(s, i) \subseteq Ahead(s, j) /\ j \notin Ahead(s, i)
  <2>1. Outranks(s[i], s[j]) \/ (SameRank(s[i], s[j]) /\ i < j)
    BY <1>4 DEF Ahead
  <2>2. j \notin Ahead(s, i)
    BY <1>1, <2>1, RankOrder DEF Ahead
  <2>3. ASSUME NEW k \in Ahead(s, i) PROVE k \in Ahead(s, j)
    <3>1. k \in DOMAIN s /\ (Outranks(s[k], s[i]) \/ (SameRank(s[k], s[i]) /\ k < i))
      BY DEF Ahead
    <3>2. Outranks(s[k], s[j]) \/ (SameRank(s[k], s[j]) /\ k < j)
      <4>1. /\ s[i] \in Chunks /\ s[j] \in Chunks /\ s[k] \in Chunks
            /\ i \in Nat /\ j \in Nat /\ k \in Nat
        BY <1>1, <3>1
      <4>2. CASE Outranks(s[k], s[i])
        BY <2>1, <4>1, <4>2, RankOrder
      <4>3. CASE SameRank(s[k], s[i]) /\ k < i
        BY <2>1, <4>1, <4>3, RankOrder
      <4> QED BY <3>1, <4>2, <4>3
    <3> QED BY <3>1, <3>2 DEF Ahead
  <2> QED BY <2>2, <2>3
<1> QED BY <1>2, <1>3, <1>4

\* The chunks of the indices D, each where as many are ahead of it as the index asks for.
Placed(chunks, D) ==
    LET place == [i \in D |-> Cardinality(Ahead(chunks, i))]
    IN  [n \in D |-> chunks[CHOOSE i \in D : place[i] = n - 1]]

\* The allocator sorts: every chunk gets the place of its rank.
LEMMA SortedInOrder ==
    ASSUME NEW chunks \in Seq(Chunks)
    PROVE  Sorted(chunks) \in Seq(Chunks) /\ InOrder(Sorted(chunks))
<1> DEFINE N == Len(chunks)
           D == 1..N
           place == [i \in D |-> Cardinality(Ahead(chunks, i))]
           s == Sorted(chunks)
<1>0. N \in Nat /\ DOMAIN chunks = D /\ D \subseteq Nat
  OBVIOUS
<1>1. IsFiniteSet(D) /\ Cardinality(D) = N
  <2>1. 1 \in Int /\ N \in Int /\ (IF 1 > N THEN 0 ELSE N - 1 + 1) = N
    BY <1>0
  <2> HIDE DEF N
  <2> QED BY <2>1, FS_Interval
<1>2. \A i \in D : Ahead(chunks, i) \in SUBSET D /\ IsFiniteSet(Ahead(chunks, i))
                   /\ Cardinality(Ahead(chunks, i)) \in Nat
  <2>1. \A i \in D : Ahead(chunks, i) \in SUBSET D
    BY <1>0 DEF Ahead
  <2> HIDE DEF D
  <2> QED BY <1>1, <2>1, FS_Subset, FS_CardinalityType
\* The place of what is ahead is smaller.
<1>3. ASSUME NEW i \in D, NEW j \in D, i \in Ahead(chunks, j)
      PROVE  place[i] < place[j]
  <2> DEFINE a == Ahead(chunks, i)
             b == Ahead(chunks, j)
  <2>1. a \in SUBSET b /\ a # b
    BY <1>0, <1>3, AheadOrder
  <2>2. IsFiniteSet(b) /\ Cardinality(a) \in Nat /\ Cardinality(b) \in Nat
    BY <1>2
  <2>3. place[i] = Cardinality(a) /\ place[j] = Cardinality(b)
    OBVIOUS
  <2> HIDE DEF a, b, place
  <2>4. Cardinality(a) <= Cardinality(b) /\ Cardinality(a) # Cardinality(b)
    BY <2>1, <2>2, FS_Subset
  <2> DEFINE x == Cardinality(a)
             y == Cardinality(b)
  <2>5. x \in Nat /\ y \in Nat /\ x <= y /\ x # y /\ place[i] = x /\ place[j] = y
    BY <2>2, <2>3, <2>4
  <2> HIDE DEF x, y
  <2> QED BY <2>5
<1>4. place \in [D -> 0..(N - 1)]
  <2> SUFFICES ASSUME NEW i \in D PROVE Cardinality(Ahead(chunks, i)) \in 0..(N - 1)
    OBVIOUS
  <2> DEFINE a == Ahead(chunks, i)
             x == Cardinality(a)
             y == Cardinality(D)
  <2>1. a \in SUBSET D /\ a # D /\ x \in Nat
    BY <1>0, <1>2, AheadOrder
  <2> HIDE DEF a, D
  <2>2. x <= y /\ x # y
    BY <1>1, <2>1, FS_Subset
  <2>3. y = N
    BY <1>1
  <2> HIDE DEF x, y, N
  <2>4. x \in 0..(N - 1)
    BY <1>0, <2>1, <2>2, <2>3
  <2> QED BY <2>4 DEF x, a
<1>5. \A i, j \in D : i # j => place[i] # place[j]
  <2> TAKE i, j \in D
  <2> HAVE i # j
  <2>1. i \in Ahead(chunks, j) \/ j \in Ahead(chunks, i)
    BY <1>0, AheadOrder
  <2>2. place[i] \in Nat /\ place[j] \in Nat
    BY <1>2
  <2> HIDE DEF place
  <2> QED BY <1>3, <2>1, <2>2
<1> HIDE DEF place
<1>6. \A n \in D : \E i \in D : place[i] = n - 1
  <2> DEFINE T == 0..(N - 1)
  <2>1. place \in Injection(D, T)
    BY <1>4, <1>5 DEF Injection, IsInjective
  <2>2. IsFiniteSet(T) /\ Cardinality(T) = N
    <3> DEFINE hi == N - 1
    <3>1. 0 \in Int /\ hi \in Int /\ (IF 0 > hi THEN 0 ELSE hi - 0 + 1) = N
      BY <1>0
    <3> HIDE DEF hi
    <3>2. IsFiniteSet(0..hi) /\ Cardinality(0..hi) = IF 0 > hi THEN 0 ELSE hi - 0 + 1
      BY <3>1, FS_Interval
    <3> QED BY <3>1, <3>2 DEF hi
  <2>3. place \in Surjection(D, T)
    <3> HIDE DEF D, T
    <3> QED BY <1>1, <2>1, <2>2, FS_Injection
  <2>4. \A k \in T : \E i \in D : place[i] = k
    BY <2>3 DEF Surjection
  <2> TAKE n \in D
  <2>5. n - 1 \in T
    BY <1>0
  <2> QED BY <2>4, <2>5
<1> DEFINE pick == [n \in D |-> CHOOSE i \in D : place[i] = n - 1]
<1>7. \A n \in D : pick[n] \in D /\ place[pick[n]] = n - 1
  <2> TAKE n \in D
  <2>1. \E i \in D : place[i] = n - 1
    BY <1>6
  <2> HIDE DEF D
  <2> QED BY <2>1
<1>8. s = [n \in D |-> chunks[pick[n]]]
  <2>1. Sorted(chunks) = Placed(chunks, D)
    <3>1. Sorted(chunks) = Placed(chunks, DOMAIN chunks)
      BY Zenon DEF Sorted, Placed
    <3> HIDE DEF D
    <3> QED BY <1>0, <3>1
  <2>2. Placed(chunks, D) = [n \in D |-> chunks[CHOOSE i \in D : place[i] = n - 1]]
    <3> HIDE DEF D
    <3> QED BY Zenon DEF Placed, place
  <2> HIDE DEF D
  <2> QED BY <2>1, <2>2
<1> HIDE DEF s, pick
<1>9. s \in [D -> Chunks]
  BY <1>0, <1>7, <1>8
<1>10. s \in Seq(Chunks) /\ DOMAIN s = D
  BY <1>0, <1>9
\* What comes first was ahead, and still is.
<1>11. ASSUME NEW m \in D, NEW n \in D, m < n
       PROVE  m \in Ahead(s, n)
  <2> DEFINE i == pick[m]
             j == pick[n]
  <2>1. i \in D /\ j \in D /\ place[i] = m - 1 /\ place[j] = n - 1
    BY <1>7
  <2>2. s[m] = chunks[i] /\ s[n] = chunks[j]
    BY <1>8
  <2> HIDE DEF i, j
  <2>3. i # j
    BY <1>0, <1>11, <2>1
  <2>4. j \notin Ahead(chunks, i)
    BY <1>0, <1>3, <1>11, <2>1
  <2>5. i \in Ahead(chunks, j)
    BY <1>0, <2>1, <2>3, <2>4, AheadOrder
  <2>6. Outranks(s[m], s[n]) \/ SameRank(s[m], s[n])
    BY <2>2, <2>5 DEF Ahead
  <2> QED BY <1>10, <1>11, <2>6 DEF Ahead
<1>12. \A n \in D : Ahead(s, n) = {m \in D : m < n}
  <2> TAKE n \in D
  <2>1. \A m \in D : m < n => m \in Ahead(s, n)
    BY <1>11
  <2>2. \A m \in D : n < m => m \notin Ahead(s, n)
    <3> TAKE m \in D
    <3> HAVE n < m
    <3>1. n \in Ahead(s, m)
      BY <1>11
    <3> QED BY <1>10, <3>1, AheadOrder
  <2>3. n \notin Ahead(s, n)
    BY <1>10, AheadOrder
  <2>4. Ahead(s, n) \subseteq D
    BY <1>10 DEF Ahead
  <2>5. \A m \in D : m \in Ahead(s, n) <=> m < n
    <3> TAKE m \in D
    <3>1. m < n \/ m = n \/ n < m
      BY <1>0
    <3>2. ~(m < n /\ m = n) /\ ~(m < n /\ n < m)
      BY <1>0
    <3> QED BY <2>1, <2>2, <2>3, <3>1, <3>2
  <2> QED BY <2>4, <2>5
<1>13. s \in Seq(Chunks) /\ InOrder(s)
  BY <1>10, <1>12 DEF InOrder
<1> QED BY <1>13 DEF s

\* A chunk of its fields.
LEMMA ChunkType ==
    ASSUME NEW source \in Sources, NEW key \in ChunkKeys, NEW p \in Nat, NEW r \in Nat,
           NEW n \in Nat, source = "recalled_memory" => key \in Notes
    PROVE  /\ Chunk(source, key, p, r, n) \in Chunks
           /\ RequiredChunk(Chunk(source, key, p, r, n)) \in Chunks
  BY DEF Chunk, RequiredChunk, Chunks

LEMMA OneChunk ==
    ASSUME NEW c \in Chunks
    PROVE  <<c>> \in Seq(Chunks) /\ Some(c) \in Seq(Chunks)
  BY DEF Some

LEMMA ChunksJoined ==
    ASSUME NEW p \in Seq(Chunks), NEW q \in Seq(Chunks)
    PROVE  p \o q \in Seq(Chunks)
  OBVIOUS

LEMMA SizesType ==
    ASSUME NEW size \in Sizes
    PROVE  /\ size.skill \in Nat /\ size.recovery \in Nat /\ size.checkpoint \in Nat
           /\ size.resumed \in BOOLEAN /\ size.note \in Nat /\ size.structure \in Nat
           /\ size.details \in Nat
  BY DEF Sizes

\* The notes that were hit, in their order.
LEMMA RankedNotes ==
    ASSUME NEW hits \in SUBSET Notes
    PROVE  SetToSeq(hits) \in Seq(Notes)
<1>1. IsFiniteSet(hits)
  BY RecallAssumption, FS_Subset
<1>2. Cardinality(hits) \in Nat
  BY <1>1, FS_CardinalityType
<1>3. \E f : f \in [1..Cardinality(hits) -> hits] /\ IsInjective(f)
  <2>1. PICK n \in Nat : ExistsBijection(1..n, hits)
    BY <1>1, FS_NatBijection
  <2>2. n = Cardinality(hits)
    BY <2>1, FS_CountingElements
  <2>3. PICK f \in Bijection(1..n, hits) : TRUE
    BY <2>1 DEF ExistsBijection
  <2> QED BY <2>2, <2>3 DEF Bijection, Injection, IsInjective
<1>4. SetToSeq(hits) \in [1..Cardinality(hits) -> hits]
  BY <1>3, Zenon DEF SetToSeq
<1>5. SetToSeq(hits) \in [1..Cardinality(hits) -> Notes]
  BY <1>4
<1> QED BY <1>2, <1>5

\* A chunk for each note.
LEMMA NoteChunks ==
    ASSUME NEW notes \in Seq(Notes), NEW source \in Sources, NEW p \in Nat, NEW n \in Nat
    PROVE  [i \in DOMAIN notes |-> Chunk(source, notes[i], p, i - 1, n)] \in Seq(Chunks)
<1> DEFINE c == [i \in DOMAIN notes |-> Chunk(source, notes[i], p, i - 1, n)]
<1>1. Len(notes) \in Nat /\ DOMAIN notes = 1..Len(notes)
  OBVIOUS
<1>2. ASSUME NEW i \in 1..Len(notes) PROVE Chunk(source, notes[i], p, i - 1, n) \in Chunks
  <2>1. i - 1 \in Nat /\ notes[i] \in Notes /\ notes[i] \in ChunkKeys
    BY DEF ChunkKeys
  <2> QED BY <2>1, ChunkType
<1>3. c \in [1..Len(notes) -> Chunks]
  BY <1>1, <1>2
<1> HIDE DEF c
<1>4. c \in Seq(Chunks)
  BY <1>1, <1>3
<1> QED BY <1>4 DEF c

LEMMA BuiltType ==
    ASSUME NEW size \in Sizes, NEW ranked \in Seq(Notes)
    PROVE  BuiltChunks(size, ranked) \in Seq(Chunks)
<1>1. /\ 0 \in Nat /\ 1 \in Nat /\ 2 \in Nat /\ 30 \in Nat
      /\ \A x \in Sources : x # "recalled_memory" => \A k \in ChunkKeys, p, r, n \in Nat :
            Chunk(x, k, p, r, n) \in Chunks /\ RequiredChunk(Chunk(x, k, p, r, n)) \in Chunks
  BY ChunkType
<1>2. ActiveSkill(size) \in Seq(Chunks)
  <2>1. RequiredChunk(Chunk("active_skill", "skill", 0, 0, size.skill)) \in Chunks
    BY <1>1, SizesType DEF Sources, ChunkKeys
  <2> QED BY <2>1, OneChunk DEF ActiveSkill
<1>3. RecoveryState(size) \in Seq(Chunks)
  <2>1. Len(ActiveSkill(size)) \in Nat
    BY <1>2
  <2>2. RequiredChunk(Chunk("recovery_state", "recovery", 0, Len(ActiveSkill(size)), size.recovery)) \in Chunks
    BY <1>1, <2>1, SizesType DEF Sources, ChunkKeys
  <2> QED BY <2>2, OneChunk DEF RecoveryState
<1>4. WorkspaceState \in Seq(Chunks)
  <2>1. /\ Chunk("workspace_state", "identity", 0, 0, 1) \in Chunks
        /\ Chunk("workspace_state", "state-0", 0, 1, 1) \in Chunks
        /\ Chunk("workspace_state", "state-1", 1, 2, 1) \in Chunks
    BY <1>1 DEF Sources, ChunkKeys
  <2>2. \A a, b, c \in Chunks : <<a, b, c>> \in Seq(Chunks)
    OBVIOUS
  <2> QED BY <2>1, <2>2 DEF WorkspaceState
<1>5. TaskWorkingSet(size) \in Seq(Chunks)
  <2> DEFINE state == Chunk("task_working_set", "checkpoint-state", 0, 1, size.checkpoint)
             first == IF size.resumed THEN RequiredChunk(state) ELSE state
             details == Chunk("task_working_set", "working-details-0", 1, 30, size.details)
  <2>1. state \in Chunks /\ RequiredChunk(state) \in Chunks /\ details \in Chunks
    BY <1>1, SizesType DEF Sources, ChunkKeys
  <2>2. TaskWorkingSet(size) = Some(first) \o Some(details)
    BY DEF TaskWorkingSet
  <2>3. first \in Chunks
    BY <2>1
  <2> HIDE DEF first, details
  <2>4. Some(first) \in Seq(Chunks) /\ Some(details) \in Seq(Chunks)
    BY <2>1, <2>3, OneChunk
  <2> QED BY <2>2, <2>4, ChunksJoined
<1>6. RecalledMemory(size, ranked) \in Seq(Chunks)
  <2>1. "recalled_memory" \in Sources /\ size.note \in Nat
    BY SizesType DEF Sources
  <2> QED BY <1>1, <2>1, NoteChunks DEF RecalledMemory
<1>7. ProjectStructure(size) \in Seq(Chunks)
  <2>1. /\ Chunk("project_structure", "project-map-0", 1, 0, size.structure) \in Chunks
        /\ Chunk("project_structure", "project-map-1", 1, 1, 1) \in Chunks
    BY <1>1, SizesType DEF Sources, ChunkKeys
  <2>2. \A a, b \in Chunks : <<a, b>> \in Seq(Chunks)
    OBVIOUS
  <2> QED BY <2>1, <2>2 DEF ProjectStructure
<1>8. MemoryIndex \in Seq(Chunks)
  <2>1. "memory_index" \in Sources /\ SetToSeq(Notes) \in Seq(Notes)
    BY RankedNotes DEF Sources
  <2> QED BY <1>1, <2>1, NoteChunks DEF MemoryIndex
<1> DEFINE a == ActiveSkill(size)
           b == a \o RecoveryState(size)
           c == b \o WorkspaceState
           d == c \o TaskWorkingSet(size)
           e == d \o RecalledMemory(size, ranked)
           f == e \o ProjectStructure(size)
<1>9. b \in Seq(Chunks)
  BY <1>2, <1>3, ChunksJoined
<1>10. c \in Seq(Chunks)
  <2> HIDE DEF b
  <2> QED BY <1>4, <1>9, ChunksJoined
<1>11. d \in Seq(Chunks)
  <2> HIDE DEF c
  <2> QED BY <1>5, <1>10, ChunksJoined
<1>12. e \in Seq(Chunks)
  <2> HIDE DEF d
  <2> QED BY <1>6, <1>11, ChunksJoined
<1>13. f \in Seq(Chunks)
  <2> HIDE DEF e
  <2> QED BY <1>7, <1>12, ChunksJoined
<1>14. f \o MemoryIndex \in Seq(Chunks)
  <2> HIDE DEF f
  <2> QED BY <1>8, <1>13, ChunksJoined
<1> QED BY <1>14, Zenon DEF BuiltChunks

LEMMA OfferedFits ==
    ASSUME NEW size \in Sizes, NEW ranked \in Seq(Notes)
    PROVE  /\ Sorted(BuiltChunks(size, ranked)) \in Seq(Chunks)
           /\ InOrder(Sorted(BuiltChunks(size, ranked)))
  BY BuiltType, SortedInOrder

-----------------------------------------------------------------------------
(* Recall: the turns *)

RecallInv ==
    /\ recent \in Seq(SUBSET Notes) /\ Len(recent) <= SkipTurns + 1
    /\ turn.recalled \subseteq Notes
    /\ ContextFits_(given)

LEMMA NothingGivenFits == ContextFits_(NothingGiven)
<1> DEFINE offered == <<>>
<1>1. offered \in Seq(Chunks) /\ InOrder(offered) /\ Len(offered) = 0
  BY DEF InOrder
<1>2. PICK g : /\ Selects(g, offered)
               /\ Allocation(offered).offered = offered
               /\ Allocation(offered).selected = g[Len(offered)]
               /\ Allocation(offered).failed
                       = \E i \in DOMAIN offered : offered[i].required /\ i \notin g[Len(offered)]
  BY <1>1, AllocationIs
<1>3. g[0] = {}
  BY <1>1, <1>2 DEF Selects
<1> DEFINE a == Allocation(offered)
<1>4. ContextFits_(a)
  BY <1>1, AllocationFits
<1>5. a.offered = offered /\ a.selected = {} /\ a.failed = FALSE
  <2>1. DOMAIN offered = {}
    OBVIOUS
  <2>2. a.selected = {}
    BY <1>1, <1>2, <1>3
  <2> HIDE DEF offered, a
  <2>3. a.failed = FALSE
    BY <1>2, <2>1 DEF a
  <2> QED BY <1>2, <2>2, <2>3 DEF a
<1> HIDE DEF a
<1>6. NothingGiven.offered = offered /\ NothingGiven.selected = {} /\ NothingGiven.failed = FALSE
  BY DEF NothingGiven
<1> QED BY <1>4, <1>5, <1>6 DEF ContextFits_

\* The last entries of a list.
LEMMA LastOfType ==
    ASSUME NEW A, NEW s \in Seq(A), NEW n \in Nat
    PROVE  LastOf(n, s) \in Seq(A) /\ Len(LastOf(n, s)) <= n
<1> DEFINE m == 1 + (IF Len(s) > n THEN Len(s) - n ELSE 0)
<1>1. m \in 1..(Len(s) + 1) /\ Len(s) \in Nat
  OBVIOUS
<1>2. \A i \in m..Len(s) : s[i] \in A
  BY <1>1
<1>3. /\ SubSeq(s, m, Len(s)) \in Seq(A)
      /\ Len(SubSeq(s, m, Len(s))) = IF m <= Len(s) THEN Len(s) - m + 1 ELSE 0
  <2> HIDE DEF m
  <2> QED BY <1>1, <1>2, SubSeqProperties
<1>4. (IF m <= Len(s) THEN Len(s) - m + 1 ELSE 0) <= n
  BY <1>1
<1> QED BY <1>3, <1>4 DEF LastOf

LEMMA RecallInvInit == RecallInit => RecallInv
<1> SUFFICES ASSUME RecallInit PROVE RecallInv
  OBVIOUS
<1>1. ContextFits_(given)
  BY NothingGivenFits, Zenon DEF RecallInit
<1> QED BY <1>1, CapsType DEF RecallInit, RecallInv, NoTurn

LEMMA BeginTurnKeeps ==
    ASSUME RecallInv, BeginTurn
    PROVE  RecallInv'
<1>1. PICK hits \in {S \in Candidates : Cardinality(S) <= TopK}, size \in Sizes :
        LET allocation == Allocation(Sorted(BuiltChunks(size, SetToSeq(hits))))
            notes == OfSource(allocation.offered, allocation.selected, "recalled_memory")
        IN  /\ given' = allocation
            /\ turn' = [turn EXCEPT !.pc = IF allocation.failed THEN "ending" ELSE "asking",
                                    !.turns = @ + 1,
                                    !.recalled = IF allocation.failed THEN {}
                                                 ELSE {allocation.offered[i].key : i \in notes}]
  BY Zenon DEF BeginTurn
<1> DEFINE ranked == SetToSeq(hits)
           offered == Sorted(BuiltChunks(size, ranked))
           allocation == Allocation(offered)
           notes == OfSource(allocation.offered, allocation.selected, "recalled_memory")
           recalled == {allocation.offered[i].key : i \in notes}
<1>2. hits \in SUBSET Notes
  BY <1>1 DEF Candidates, Hits
<1>3. ranked \in Seq(Notes)
  BY <1>2, RankedNotes
<1> HIDE DEF ranked
<1>4. offered \in Seq(Chunks) /\ InOrder(offered)
  BY <1>3, OfferedFits
<1> HIDE DEF offered
<1>5. given' = allocation /\ turn' = [turn EXCEPT
          !.pc = IF allocation.failed THEN "ending" ELSE "asking", !.turns = @ + 1,
          !.recalled = IF allocation.failed THEN {} ELSE recalled]
  BY <1>1 DEF ranked, offered
<1> HIDE DEF allocation
<1>6. ContextFits_(allocation)
  BY <1>4, AllocationFits DEF allocation
<1>7. recalled \subseteq Notes
  <2>1. allocation.offered = offered
    BY DEF allocation, Allocation
  <2>2. notes \subseteq DOMAIN offered /\ \A i \in notes : offered[i].source = "recalled_memory"
    BY <1>6, <2>1 DEF ContextFits_, OfSource
  <2>3. \A i \in DOMAIN offered : offered[i] \in Chunks
    BY <1>4
  <2>4. \A i \in notes : offered[i].key \in Notes
    BY <2>2, <2>3 DEF Chunks
  <2> HIDE DEF notes
  <2> QED BY <2>1, <2>4
<1>8. turn'.recalled \subseteq Notes
  <2> HIDE DEF recalled
  <2>1. turn'.recalled \in {{}, recalled, turn.recalled}
    BY <1>5
  <2> QED BY <1>7, <2>1 DEF RecallInv
<1>9. recent' = recent
  BY DEF BeginTurn
<1>10. ContextFits_(given')
  BY <1>5, <1>6
<1> QED BY <1>8, <1>9, <1>10 DEF RecallInv

LEMMA RecallInvNext == RecallInv /\ [RecallNext]_recallVars => RecallInv'
<1> SUFFICES ASSUME RecallInv, [RecallNext]_recallVars PROVE RecallInv'
  OBVIOUS
<1>1. CASE BeginTurn
  BY <1>1, BeginTurnKeeps
<1>2. CASE AskModel
  <2>1. given' = given /\ turn'.recalled = turn.recalled
    BY <1>2 DEF AskModel
  <2>2. ContextFits_(given')
    BY <2>1 DEF RecallInv
  <2>3. recent' \in Seq(SUBSET Notes) /\ Len(recent') <= SkipTurns + 1
    <3>1. Append(recent, turn.recalled) \in Seq(SUBSET Notes)
      BY DEF RecallInv
    <3>2. SkipTurns + 1 \in Nat
      BY CapsType
    <3> DEFINE more == LastOf(SkipTurns + 1, Append(recent, turn.recalled))
    <3>3. more \in Seq(SUBSET Notes) /\ Len(more) <= SkipTurns + 1
      BY <3>1, <3>2, LastOfType
    <3>4. recent' \in {recent, more}
      BY <1>2 DEF AskModel
    <3> HIDE DEF more
    <3> QED BY <3>3, <3>4 DEF RecallInv
  <2> QED BY <2>1, <2>2, <2>3 DEF RecallInv
<1>3. CASE EndTurn
  <2>1. given' = NothingGiven /\ recent' \in {recent, <<>>}
    BY <1>3 DEF EndTurn
  <2>2. ContextFits_(given')
    BY <2>1, NothingGivenFits
  <2>3. turn'.recalled \in {{}, turn.recalled}
    BY <1>3 DEF EndTurn
  <2>4. recent' \in Seq(SUBSET Notes) /\ Len(recent') <= SkipTurns + 1
    <3>1. <<>> \in Seq(SUBSET Notes) /\ Len(<<>>) = 0
      OBVIOUS
    <3>2. 0 <= SkipTurns + 1
      BY CapsType
    <3> QED BY <2>1, <3>1, <3>2 DEF RecallInv
  <2> QED BY <2>2, <2>3, <2>4 DEF RecallInv
<1>4. CASE UNCHANGED recallVars
  BY <1>4 DEF recallVars, RecallInv
<1> QED BY <1>1, <1>2, <1>3, <1>4 DEF RecallNext

LEMMA RecallInvFits == RecallInv => TurnContextFits /\ RecallTypeOK
  BY DEF RecallInv, RecallTypeOK, ContextFits_, TurnContextFits, Within

-----------------------------------------------------------------------------
(* ResultPages: the places of a text *)

LEMMA TextType ==
    ASSUME NEW lines \in PageTexts
    PROVE  /\ Len(lines) \in Nat /\ DOMAIN lines = 1..Len(lines)
           /\ \A i \in 1..Len(lines) : lines[i] \in Nat \ {0}
           /\ lines # NoText
<1>1. PICK n \in 0..MaxTextLines : lines \in [1..n -> 1..MaxTextWidth]
  BY DEF PageTexts
<1>2. n \in Nat
  BY PagesAssumption
<1>3. Len(lines) = n
  BY <1>1, <1>2
<1>4. \A i \in 1..n : lines[i] \in Nat \ {0}
  BY <1>1, PagesAssumption
<1>5. lines # NoText
  <2>1. NoText[1] = 0 /\ Len(NoText) = 1
    BY DEF NoText
  <2> QED BY <1>3, <1>4, <2>1
<1> QED BY <1>1, <1>2, <1>3, <1>4, <1>5

Spots == Nat \X Nat

LEMMA RestType ==
    ASSUME NEW lines \in PageTexts, NEW i \in 1..Len(lines), NEW k \in 0..lines[i]
    PROVE  /\ Rest(lines, i, k) \in Seq(Spots)
           /\ Len(Rest(lines, i, k)) = lines[i] - k
           /\ k = lines[i] => Rest(lines, i, k) = <<>>
           /\ k < lines[i] => Rest(lines, i, k) # <<>>
<1> DEFINE m == lines[i] - k
           r == [n \in 1..m |-> <<i, k + n>>]
<1>1. m \in Nat /\ k \in Nat /\ i \in Nat
  BY TextType
<1> HIDE DEF m
<1>2. \A n \in 1..m : <<i, k + n>> \in Spots
  BY <1>1 DEF Spots
<1>3. r \in [1..m -> Spots]
  BY <1>2
<1> HIDE DEF r
<1>4. r \in Seq(Spots) /\ Len(r) = m
  BY <1>1, <1>3
<1>5. m = 0 <=> r = <<>>
  BY <1>4
<1>6. Rest(lines, i, k) = r
  BY DEF Rest, r, m
<1>7. lines[i] \in Nat
  BY TextType
<1> QED BY <1>1, <1>4, <1>5, <1>6, <1>7 DEF m

\* The lines after the i-th, each whole.
Following(lines, i, n) == [j \in 1..n |-> Rest(lines, i + j, 0)]

LEMMA FollowingType ==
    ASSUME NEW lines \in PageTexts, NEW i \in 0..Len(lines), NEW n \in Nat, i + n <= Len(lines)
    PROVE  Following(lines, i, n) \in Seq(Seq(Spots)) /\ Len(Following(lines, i, n)) = n
<1>1. \A j \in 1..n : Rest(lines, i + j, 0) \in Seq(Spots)
  <2> TAKE j \in 1..n
  <2>1. i + j \in 1..Len(lines) /\ 0 \in 0..lines[i + j]
    BY TextType
  <2> QED BY <2>1, RestType
<1>2. Following(lines, i, n) \in [1..n -> Seq(Spots)]
  BY <1>1 DEF Following
<1> QED BY <1>2

LEMMA PlacesType ==
    ASSUME NEW lines \in PageTexts, NEW last \in 0..Len(lines),
           NEW i \in 1..Len(lines) + 1, NEW k, i <= last => k \in 0..lines[i]
    PROVE  /\ Places(lines, i, k, last) \in Seq(Spots)
           /\ i > last => Places(lines, i, k, last) = <<>>
           /\ i <= last => Places(lines, i, k, last)
                             = Rest(lines, i, k) \o FlattenSeq(Following(lines, i, last - i))
           /\ i = last => Places(lines, i, k, last) = Rest(lines, i, k)
           /\ i <= last /\ k < lines[i] => Places(lines, i, k, last) # <<>>
<1>0. Len(lines) \in Nat
  BY TextType
<1>1. CASE i > last
  <2>1. Places(lines, i, k, last) = <<>>
    BY <1>1 DEF Places
  <2> QED BY <1>0, <1>1, <2>1
<1>2. CASE i <= last
  <2> DEFINE r == Rest(lines, i, k)
             f == Following(lines, i, last - i)
  <2>1. i \in 1..Len(lines) /\ k \in 0..lines[i] /\ last - i \in Nat /\ i \in 0..Len(lines)
        /\ i + (last - i) <= Len(lines) /\ ~(i > last)
    BY <1>0, <1>2
  <2>2. Places(lines, i, k, last) = r \o FlattenSeq(f)
    BY <2>1 DEF Places, Following
  <2>3. /\ r \in Seq(Spots)
        /\ k < lines[i] => r # <<>>
    BY <2>1, RestType
  <2>4. f \in Seq(Seq(Spots)) /\ Len(f) = last - i
    BY <2>1, FollowingType
  <2> HIDE DEF f, r
  <2>5. FlattenSeq(f) \in Seq(Spots)
    BY <2>4, FlattenType
  <2>6. i = last => FlattenSeq(f) = <<>>
    <3> SUFFICES ASSUME i = last PROVE FlattenSeq(f) = <<>>
      OBVIOUS
    <3>1. f = <<>>
      BY <2>1, <2>4
    <3> QED BY <3>1, FlattenEmpty
  <2>7. r \o FlattenSeq(f) \in Seq(Spots) /\ (k < lines[i] => r \o FlattenSeq(f) # <<>>)
    BY <2>3, <2>5
  <2>8. i = last => r \o FlattenSeq(f) = r
    BY <2>3, <2>6, ConcatEmptySeq
  <2> QED BY <1>2, <2>1, <2>2, <2>7, <2>8 DEF r, f
<1> QED BY <1>0, <1>1, <1>2

\* The places of two sequences in their concatenation.
Joins(u, s, t) ==
    /\ Len(u) = Len(s) + Len(t)
    /\ \A j \in 1..Len(s) : u[j] = s[j]
    /\ \A j \in 1..Len(t) : u[Len(s) + j] = t[j]

LEMMA Joined ==
    ASSUME NEW A, NEW s \in Seq(A), NEW t \in Seq(A)
    PROVE  s \o t \in Seq(A) /\ Joins(s \o t, s, t)
<1>1. Len(s) \in Nat /\ Len(t) \in Nat /\ s \o t \in Seq(A) /\ Len(s \o t) = Len(s) + Len(t)
  OBVIOUS
<1>2. \A j \in 1..Len(s) : (s \o t)[j] = s[j]
  OBVIOUS
<1>3. ASSUME NEW j \in 1..Len(t) PROVE (s \o t)[Len(s) + j] = t[j]
  <2> DEFINE n == Len(s) + j
  <2>1. n \in 1..(Len(s) + Len(t)) /\ n > Len(s) /\ n - Len(s) = j
    BY <1>1
  <2> HIDE DEF n
  <2>2. (s \o t)[n] = t[n - Len(s)]
    BY <1>1, <2>1
  <2> QED BY <2>1, <2>2 DEF n
<1> QED BY <1>1, <1>2, <1>3 DEF Joins

LEMMA Associative ==
    \A p, q, r \in Seq(Spots) : (p \o q) \o r = p \o (q \o r)
  BY ConcatAssociative, SMTT(60)

\* Up to the end of a line, and from the next one on.
LEMMA PlacesAfterLine ==
    ASSUME NEW lines \in PageTexts, NEW last \in 1..Len(lines),
           NEW i \in 1..last, NEW k \in 0..lines[i], NEW end \in i..(last - 1)
    PROVE  Places(lines, i, k, last) = Places(lines, i, k, end) \o Places(lines, end + 1, 0, last)
<1> DEFINE one == Following(lines, i, end - i)
           next == Following(lines, end, 1)
           rest == Following(lines, end + 1, last - (end + 1))
           all == Following(lines, i, last - i)
           line == Rest(lines, i, k)
<1>0. /\ Len(lines) \in Nat /\ i \in Nat /\ end \in Nat /\ last \in Nat
      /\ i \in 1..Len(lines) /\ i \in 0..Len(lines) /\ end \in 0..Len(lines)
      /\ end + 1 \in 0..Len(lines) /\ end + 1 \in 1..Len(lines)
      /\ end - i \in Nat /\ last - i \in Nat /\ last - (end + 1) \in Nat /\ 1 \in Nat
      /\ i + (end - i) <= Len(lines) /\ i + (last - i) <= Len(lines) /\ end + 1 <= Len(lines)
      /\ end + 1 + (last - (end + 1)) <= Len(lines)
  BY TextType
<1>1. /\ one \in Seq(Seq(Spots)) /\ Len(one) = end - i
      /\ rest \in Seq(Seq(Spots)) /\ Len(rest) = last - (end + 1)
      /\ all \in Seq(Seq(Spots)) /\ Len(all) = last - i
  BY <1>0, FollowingType
<1>2. line \in Seq(Spots)
  BY <1>0, RestType
<1> DEFINE first == Rest(lines, end + 1, 0)
<1>3. first \in Seq(Spots) /\ 0 \in 0..lines[end + 1]
  <2>1. 0 \in 0..lines[end + 1]
    BY <1>0, TextType
  <2> QED BY <1>0, <2>1, RestType
<1>4. all = (one \o <<first>>) \o rest
  <2> DEFINE left == one \o <<first>>
             both == left \o rest
             single == <<first>>
  <2>0. single \in Seq(Seq(Spots)) /\ Len(single) = 1 /\ single[1] = first
    <3> HIDE DEF first
    <3> QED BY <1>3
  <2> HIDE DEF single
  <2>a. /\ one \o single \in Seq(Seq(Spots)) /\ Len(one \o single) = Len(one) + 1
        /\ \A j \in 1..Len(one) : (one \o single)[j] = one[j]
        /\ \A j \in 1..1 : (one \o single)[Len(one) + j] = single[j]
    <3>1. one \o single \in Seq(Seq(Spots)) /\ Joins(one \o single, one, single)
      <4> HIDE DEF one
      <4> QED BY <1>1, <2>0, Joined
    <3> HIDE DEF one
    <3> QED BY <2>0, <3>1 DEF Joins
  <2>b. left = one \o single
    BY DEF single
  <2> HIDE DEF left
  <2>1. left \in Seq(Seq(Spots)) /\ Len(left) = end - i + 1
    BY <1>1, <2>a, <2>b
  <2>2. \A j \in 1..(end - i) : left[j] = one[j]
    BY <1>1, <2>a, <2>b
  <2>3. left[end - i + 1] = first
    <3>1. 1 \in 1..1
      OBVIOUS
    <3> QED BY <1>1, <2>0, <2>a, <2>b, <3>1
  <2>c. both \in Seq(Seq(Spots)) /\ Len(both) = Len(left) + Len(rest)
    <3> HIDE DEF rest
    <3> QED BY <1>1, <2>1, Joined DEF Joins
  <2>4. both \in Seq(Seq(Spots)) /\ Len(both) = Len(all)
    <3> HIDE DEF rest, all, both
    <3> QED BY <1>0, <1>1, <2>1, <2>c
  <2>5. /\ \A j \in 1..Len(left) : both[j] = left[j]
        /\ \A j \in 1..Len(rest) : both[Len(left) + j] = rest[j]
    <3> HIDE DEF rest
    <3>1. Joins(both, left, rest)
      BY <1>1, <2>1, Joined
    <3> HIDE DEF both
    <3> QED BY <3>1 DEF Joins
  <2> HIDE DEF both
  <2>6. ASSUME NEW j \in 1..(last - i)
        PROVE  both[j] = all[j]
    <3>0. all[j] = Rest(lines, i + j, 0)
      BY DEF Following
    <3>1. CASE j \in 1..(end - i)
      <4>1. both[j] = one[j]
        BY <1>0, <2>1, <2>2, <2>5, <3>1
      <4>2. one[j] = Rest(lines, i + j, 0)
        BY <3>1 DEF Following
      <4> QED BY <3>0, <4>1, <4>2
    <3>2. CASE j = end - i + 1
      <4>1. both[j] = first /\ i + j = end + 1
        BY <1>0, <2>1, <2>3, <2>5, <3>2
      <4> QED BY <3>0, <4>1
    <3>3. CASE j > end - i + 1
      <4> DEFINE x == j - (end - i + 1)
      <4>1. x \in 1..(last - (end + 1)) /\ end + 1 + x = i + j /\ j = Len(left) + x
        BY <1>0, <2>1, <3>3
      <4> HIDE DEF x
      <4>2. both[j] = rest[x]
        BY <1>1, <2>5, <4>1
      <4>3. rest[x] = Rest(lines, end + 1 + x, 0)
        BY <4>1 DEF Following
      <4> QED BY <3>0, <4>1, <4>2, <4>3
    <3> QED BY <1>0, <3>1, <3>2, <3>3
  <2> HIDE DEF all
  <2>7. \A j \in 1..Len(all) : both[j] = all[j]
    BY <1>1, <2>6
  <2>8. both = all
    BY <1>1, <2>4, <2>7, SeqEqual
  <2> QED BY <2>8 DEF both, left
<1>5. /\ Places(lines, i, k, last) = line \o FlattenSeq(all)
      /\ Places(lines, i, k, end) = line \o FlattenSeq(one)
      /\ Places(lines, end + 1, 0, last) = first \o FlattenSeq(rest)
  <2>1. /\ last \in 0..Len(lines) /\ end \in 0..Len(lines) /\ i <= last /\ i <= end /\ end + 1 <= last
        /\ i \in 1..Len(lines) + 1 /\ end + 1 \in 1..Len(lines) + 1
    BY <1>0
  <2> HIDE DEF all, one, line, first, rest
  <2>2. Places(lines, i, k, last) = line \o FlattenSeq(all)
    BY <2>1, PlacesType DEF all, line
  <2>3. Places(lines, i, k, end) = line \o FlattenSeq(one)
    BY <2>1, PlacesType DEF one, line
  <2>4. Places(lines, end + 1, 0, last) = first \o FlattenSeq(rest)
    <3> DEFINE e == end + 1
    <3>1. e \in 1..Len(lines) + 1 /\ e <= last /\ 0 \in 0..lines[e]
      BY <1>3, <2>1
    <3> HIDE DEF e
    <3>2. Places(lines, e, 0, last) = Rest(lines, e, 0) \o FlattenSeq(Following(lines, e, last - e))
      BY <2>1, <3>1, PlacesType
    <3> QED BY <3>2 DEF e, first, rest
  <2> QED BY <2>2, <2>3, <2>4
<1> HIDE DEF all, one, rest, line, first
<1>6. FlattenSeq(all) = (FlattenSeq(one) \o first) \o FlattenSeq(rest)
  <2> DEFINE left == one \o <<first>>
  <2>1. left = Append(one, first) /\ left \in Seq(Seq(Spots))
    BY <1>1, <1>3
  <2>2. FlattenSeq(left) = FlattenSeq(one) \o first
    BY <1>1, <1>3, <2>1, FlattenAppended
  <2> HIDE DEF left
  <2>3. FlattenSeq(left \o rest) = FlattenSeq(left) \o FlattenSeq(rest)
    BY <1>1, <2>1, FlattenConcat
  <2> QED BY <1>4, <2>2, <2>3 DEF left
<1> DEFINE a == FlattenSeq(one)
           b == FlattenSeq(rest)
<1>7. a \in Seq(Spots) /\ b \in Seq(Spots)
  BY <1>1, FlattenType
<1> HIDE DEF a, b
<1>8. line \o ((a \o first) \o b) = (line \o a) \o (first \o b)
  <2>1. (a \o first) \o b = a \o (first \o b)
    BY <1>3, <1>7, Associative
  <2>a. first \o b \in Seq(Spots)
    BY <1>3, <1>7
  <2>2. (line \o a) \o (first \o b) = line \o (a \o (first \o b))
    BY <1>2, <1>7, <2>a, Associative
  <2> QED BY <2>1, <2>2
<1> QED BY <1>5, <1>6, <1>8 DEF a, b

Part(i, k, m) == [n \in 1..m |-> <<i, k + n>>]

LEMMA PartType ==
    ASSUME NEW i \in Nat, NEW k \in Nat, NEW m \in Nat
    PROVE  Part(i, k, m) \in Seq(Spots) /\ Len(Part(i, k, m)) = m
<1> DEFINE part == [n \in 1..m |-> <<i, k + n>>]
<1>1. \A n \in 1..m : <<i, k + n>> \in Spots
  BY DEF Spots
<1>2. part \in [1..m -> Spots]
  BY <1>1
<1> HIDE DEF part
<1>3. part \in Seq(Spots) /\ Len(part) = m
  BY <1>2
<1> QED BY <1>3 DEF Part, part

\* The first characters of a line, and the others.
LEMMA PlacesInLine ==
    ASSUME NEW lines \in PageTexts, NEW last \in 1..Len(lines), NEW i \in 1..last,
           NEW k \in 0..lines[i], NEW m \in 0..(lines[i] - k)
    PROVE  Places(lines, i, k, last) = Part(i, k, m) \o Places(lines, i, k + m, last)
<1> DEFINE part == [n \in 1..m |-> <<i, k + n>>]
           all == Rest(lines, i, k)
           rest == Rest(lines, i, k + m)
           more == FlattenSeq(Following(lines, i, last - i))
<1>0. /\ Len(lines) \in Nat /\ i \in Nat /\ k \in Nat /\ m \in Nat /\ lines[i] \in Nat
      /\ i \in 1..Len(lines) /\ k + m \in 0..lines[i] /\ last \in 0..Len(lines)
      /\ i \in 1..Len(lines) + 1 /\ i <= last
  BY TextType
<1>1. part \in Seq(Spots) /\ Len(part) = m /\ \A n \in 1..m : part[n] = <<i, k + n>>
  <2>1. \A n \in 1..m : <<i, k + n>> \in Spots
    BY <1>0 DEF Spots
  <2>2. part \in [1..m -> Spots]
    BY <2>1
  <2> QED BY <1>0, <2>2
<1>2. all \in Seq(Spots) /\ Len(all) = lines[i] - k
      /\ \A n \in 1..(lines[i] - k) : all[n] = <<i, k + n>>
  BY <1>0, RestType DEF Rest
<1>3. rest \in Seq(Spots) /\ Len(rest) = lines[i] - (k + m)
      /\ \A n \in 1..(lines[i] - (k + m)) : rest[n] = <<i, k + m + n>>
  BY <1>0, RestType DEF Rest
<1>4. /\ Places(lines, i, k, last) = all \o more
      /\ Places(lines, i, k + m, last) = rest \o more
  <2>1. Places(lines, i, k, last) = all \o more
    BY <1>0, PlacesType
  <2> DEFINE q == k + m
  <2>2. q \in 0..lines[i]
    BY <1>0
  <2> HIDE DEF q
  <2>3. Places(lines, i, q, last) = Rest(lines, i, q) \o more
    BY <1>0, <2>2, PlacesType
  <2> QED BY <2>1, <2>3 DEF q
<1>5. more \in Seq(Spots)
  <2>1. last - i \in Nat /\ i + (last - i) <= Len(lines) /\ i \in 0..Len(lines)
    BY <1>0
  <2>2. Following(lines, i, last - i) \in Seq(Seq(Spots))
    BY <2>1, FollowingType
  <2> QED BY <2>2, FlattenType
<1> HIDE DEF part, all, rest, more
<1>6. part \o rest = all
  <2> DEFINE both == part \o rest
  <2>1. both \in Seq(Spots) /\ Len(both) = lines[i] - k
    BY <1>0, <1>1, <1>3
  <2>2. /\ \A n \in 1..m : both[n] = part[n]
        /\ \A n \in 1..Len(rest) : both[m + n] = rest[n]
    <3>1. Joins(both, part, rest)
      BY <1>1, <1>3, Joined
    <3> HIDE DEF both
    <3> QED BY <1>1, <3>1 DEF Joins
  <2> HIDE DEF both
  <2>3. ASSUME NEW n \in 1..(lines[i] - k) PROVE both[n] = all[n]
    <3>1. CASE n <= m
      <4>1. n \in 1..m
        BY <1>0, <3>1
      <4> QED BY <1>1, <1>2, <2>2, <4>1
    <3>2. CASE n > m
      <4> DEFINE x == n - m
      <4>1. x \in 1..Len(rest) /\ x \in 1..(lines[i] - (k + m)) /\ n = m + x /\ k + m + x = k + n
        BY <1>0, <1>3, <3>2
      <4> HIDE DEF x
      <4>2. both[n] = rest[x] /\ rest[x] = <<i, k + m + x>>
        BY <1>3, <2>2, <4>1
      <4> QED BY <1>2, <4>1, <4>2
    <3> QED BY <1>0, <3>1, <3>2
  <2>4. \A n \in 1..Len(both) : both[n] = all[n]
    BY <2>1, <2>3
  <2>5. both = all
    BY <1>2, <2>1, <2>4, SeqEqual
  <2> QED BY <2>5 DEF both
<1>7. all \o more = part \o (rest \o more)
  BY <1>1, <1>3, <1>5, <1>6, Associative
<1>8. Part(i, k, m) = part
  BY DEF Part, part
<1> QED BY <1>4, <1>7, <1>8

-----------------------------------------------------------------------------
(* ResultPages: one page *)

\* A page and the pages its call leads to are the places asked for.
PageTells(page, lines, last, asked) ==
    /\ page.error = "none" /\ ViewAccepted(page)
    /\ page.body \in Seq(Spots) /\ page.next \in Nat /\ page.byte \in Nat
    /\ page.next = NoLine => page.body = asked
    /\ page.next # NoLine =>
          /\ page.next \in 1..last /\ page.body # <<>>
          /\ page.byte % Wide = 0 /\ page.byte \div Wide \in 0..lines[page.next]
          /\ page.body \o Places(lines, page.next, page.byte \div Wide, last) = asked

LEMMA LastType ==
    ASSUME NEW lines \in PageTexts, NEW c, c.end \in Nat
    PROVE  LastRequested(lines, c) \in 0..Len(lines)
  BY TextType DEF LastRequested, NoLine

LEMMA WideParts ==
    \A n \in Nat : /\ Wide * n \in Nat /\ (Wide * n) % Wide = 0 /\ (Wide * n) \div Wide = n
  BY DEF Wide

LEMMA WholeLinesTell ==
    ASSUME NEW lines \in PageTexts, NEW c, c.end \in Nat, NEW i \in 1..LastRequested(lines, c),
           NEW k \in Nat, k < lines[i], NEW n \in 1..(LastRequested(lines, c) - i + 1)
    PROVE  PageTells(WholeLines(lines, c, i, k, n), lines, LastRequested(lines, c),
                     Places(lines, i, k, LastRequested(lines, c)))
<1> DEFINE last == LastRequested(lines, c)
           end == i + n - 1
           page == WholeLines(lines, c, i, k, n)
           body == Places(lines, i, k, end)
<1>0. /\ last \in 1..Len(lines) /\ end \in i..last /\ Len(lines) \in Nat /\ i \in Nat /\ last \in Nat
      /\ end \in 0..Len(lines) /\ end \in Nat /\ i \in 1..Len(lines) + 1 /\ i <= end
      /\ lines[i] \in Nat /\ k \in 0..lines[i] /\ i \in 1..last
  BY LastType, TextType
<1> HIDE DEF last, end
<1>1. body \in Seq(Spots) /\ body # <<>>
  BY <1>0, PlacesType
<1>2. CASE end = last
  <2>1. page = LastPage(body, i, end, Len(lines))
    BY <1>2 DEF WholeLines, last, end
  <2>2. body = Places(lines, i, k, last)
    BY <1>2
  <2> HIDE DEF page, body
  <2>3. /\ page.error = "none" /\ page.body = body /\ page.start = i /\ page.end = end
        /\ page.total = Len(lines) /\ page.next = NoLine /\ page.byte = NoLine /\ page.reasons = {}
    BY <2>1 DEF LastPage, Page
  <2>4. PageTells(page, lines, last, Places(lines, i, k, last))
    BY <1>0, <1>1, <2>2, <2>3 DEF PageTells, ViewAccepted, NoLine
  <2> QED BY <2>4 DEF page, last
<1>3. CASE end # last
  <2> DEFINE why == IF n = MaxPageLines THEN {"lines"} ELSE {"size"}
             rest == Places(lines, end + 1, 0, last)
  <2>1. page = Page(body, i, end, Len(lines), end + 1, NoLine, why)
    BY <1>3 DEF WholeLines, last, end
  <2>2. end \in i..(last - 1) /\ end + 1 \in 1..last /\ end + 1 # NoLine /\ end + 1 \in Nat
        /\ end + 1 \in 1..Len(lines)
    BY <1>0, <1>3 DEF NoLine
  <2>3. Places(lines, i, k, last) = body \o rest
    BY <1>0, <2>2, PlacesAfterLine
  <2>4. NoLine % Wide = 0 /\ NoLine \div Wide = 0 /\ NoLine \in Nat /\ 0 \in 0..lines[end + 1]
    <3>1. 0 \in 0..lines[end + 1]
      BY <2>2, TextType
    <3> QED BY <3>1 DEF NoLine, Wide
  <2> HIDE DEF page, body
  <2>5. /\ page.error = "none" /\ page.body = body /\ page.start = i /\ page.end = end
        /\ page.total = Len(lines) /\ page.next = end + 1 /\ page.byte = NoLine /\ page.reasons = why
    BY <2>1 DEF Page
  <2>6. why # {}
    OBVIOUS
  <2>7. ViewAccepted(page)
    BY <1>0, <2>2, <2>5, <2>6 DEF ViewAccepted
  <2> HIDE DEF why
  <2>8. page.body \o Places(lines, page.next, page.byte \div Wide, last) = Places(lines, i, k, last)
    BY <2>3, <2>4, <2>5
  <2>9. PageTells(page, lines, last, Places(lines, i, k, last))
    BY <1>1, <2>2, <2>4, <2>5, <2>7, <2>8 DEF PageTells
  <2> QED BY <2>9 DEF page, last
<1> QED BY <1>2, <1>3

LEMMA LinePartTells ==
    ASSUME NEW lines \in PageTexts, NEW c, c.end \in Nat, NEW i \in 1..LastRequested(lines, c),
           NEW k \in Nat, k < lines[i]
    PROVE  PageTells(LinePart(lines, c, i, k), lines, LastRequested(lines, c),
                     Places(lines, i, k, LastRequested(lines, c)))
<1> DEFINE last == LastRequested(lines, c)
           fitting == {m \in 1..(lines[i] - k) : PageFits(Part(i, k, m), TRUE)}
           most == Max(fitting)
           page == LinePart(lines, c, i, k)
<1>0. /\ last \in 1..Len(lines) /\ Len(lines) \in Nat /\ i \in Nat /\ last \in Nat
      /\ lines[i] \in Nat /\ k \in 0..lines[i] /\ i \in 1..last /\ lines[i] - k \in Nat \ {0}
  BY LastType, TextType
<1> HIDE DEF last
<1>1. 1 \in fitting
  <2>1. 1 \in 1..(lines[i] - k) /\ 1 \in 0..(lines[i] - k)
    BY <1>0
  <2> DEFINE one == Part(i, k, 1)
  <2>2. Len(one) = 1
    BY <1>0, PartType
  <2> HIDE DEF one
  <2>3. PageFits(one, TRUE)
    BY <2>2, PagesAssumption DEF PageFits
  <2> USE DEF one
  <2> QED BY <2>1, <2>3
<1>2. most \in fitting
  <2>1. fitting \subseteq 0..(lines[i] - k)
    <3>1. fitting \subseteq 1..(lines[i] - k)
      BY Zenon
    <3> HIDE DEF fitting
    <3> QED BY <1>0, <3>1
  <2> HIDE DEF fitting
  <2> QED BY <1>0, <1>1, <2>1, MaxIs
<1>3. most \in 1..(lines[i] - k) /\ most \in 0..(lines[i] - k)
  <2>1. most \in 1..(lines[i] - k)
    <3> HIDE DEF most
    <3> QED BY <1>2
  <2> HIDE DEF most
  <2> QED BY <2>1
<1>4. page = Page(Part(i, k, most), i, i, Len(lines), i, Wide * (k + most), {"size"})
  <2>1. fitting # {}
    BY <1>1
  <2> QED BY <2>1, Zenon DEF LinePart, Part
<1> DEFINE body == Part(i, k, most)
<1> HIDE DEF most
<1>5. /\ body \in Seq(Spots) /\ Len(body) = most
      /\ Places(lines, i, k, last) = body \o Places(lines, i, k + most, last)
  <2>1. body \in Seq(Spots) /\ Len(body) = most
    <3>1. most \in Nat /\ i \in Nat /\ k \in Nat
      BY <1>0, <1>3
    <3> QED BY <3>1, PartType
  <2>2. Places(lines, i, k, last) = body \o Places(lines, i, k + most, last)
    BY <1>0, <1>3, PlacesInLine, Zenon
  <2> QED BY <2>1, <2>2
<1> HIDE DEF page, body, fitting
<1>6. /\ page.error = "none" /\ page.body = body /\ page.start = i /\ page.end = i
      /\ page.total = Len(lines) /\ page.next = i /\ page.byte = Wide * (k + most)
      /\ page.reasons = {"size"}
  BY <1>4 DEF Page, body
<1>7. body # <<>>
  BY <1>3, <1>5
<1>8. i # NoLine
  BY <1>0 DEF NoLine
<1>9. ViewAccepted(page)
  BY <1>0, <1>6, <1>8 DEF ViewAccepted
<1>10. k + most \in Nat /\ k + most \in 0..lines[i]
  BY <1>0, <1>3
<1>11. /\ page.byte \in Nat /\ page.byte % Wide = 0 /\ page.byte \div Wide = k + most
  BY <1>6, <1>10, WideParts
<1>12. PageTells(page, lines, last, Places(lines, i, k, last))
  BY <1>0, <1>5, <1>6, <1>7, <1>8, <1>9, <1>10, <1>11 DEF PageTells
<1> QED BY <1>12 DEF page, last

LEMMA PageFromTells ==
    ASSUME NEW lines \in PageTexts, NEW c, c.end \in Nat, NEW i \in 1..LastRequested(lines, c),
           NEW k \in Nat, k < lines[i]
    PROVE  PageTells(PageFrom(lines, c, i, k), lines, LastRequested(lines, c),
                     Places(lines, i, k, LastRequested(lines, c)))
<1> DEFINE last == LastRequested(lines, c)
           Candidate(n) == PageFits(Places(lines, i, k, i + n - 1), i + n - 1 < last)
           most == Min({MaxPageLines, last - i + 1})
           taken == {n \in 0..most : \A m \in 1..n : Candidate(m)}
           n == Accepted(lines, c, i, k)
<1>0. last \in 1..Len(lines) /\ Len(lines) \in Nat /\ last - i + 1 \in Nat \ {0}
  BY LastType, TextType
<1>1. most \in Nat /\ most <= last - i + 1
  <2> HIDE DEF last
  <2> DEFINE x == last - i + 1
  <2>1. x \in Nat /\ MaxPageLines \in Nat
    BY <1>0, PagesAssumption
  <2> HIDE DEF x
  <2>2. \E y \in {MaxPageLines, x} : \A z \in {MaxPageLines, x} : y <= z
    BY <2>1
  <2>3. Min({MaxPageLines, x}) \in {MaxPageLines, x} /\ Min({MaxPageLines, x}) <= x
    BY <2>2 DEF Min
  <2> QED BY <2>1, <2>3 DEF x
<1>2. n = Max(taken)
  BY DEF Accepted
<1>3. 0 \in taken
  <2>1. 0 \in 0..most /\ 1..0 = {}
    BY <1>1
  <2> HIDE DEF most, Candidate
  <2> QED BY <2>1
<1>4. n \in 0..most
  <2> HIDE DEF most, Candidate, n
  <2>1. taken \subseteq 0..most /\ taken # {}
    BY <1>3
  <2> HIDE DEF taken
  <2>2. Max(taken) \in taken
    BY <1>1, <2>1, MaxIs
  <2> QED BY <1>2, <2>1, <2>2
<1> HIDE DEF most, n
<1>5. CASE n > 0
  <2>1. n \in 1..(last - i + 1)
    BY <1>0, <1>1, <1>4, <1>5
  <2>2. PageFrom(lines, c, i, k) = WholeLines(lines, c, i, k, n)
    BY <1>5 DEF PageFrom, n
  <2> QED BY <2>1, <2>2, WholeLinesTell
<1>6. CASE ~(n > 0)
  <2>1. PageFrom(lines, c, i, k) = LinePart(lines, c, i, k)
    BY <1>6 DEF PageFrom, n
  <2> QED BY <2>1, LinePartTells
<1> QED BY <1>5, <1>6

\* A call that fits its text is answered by such a page.
LEMMA PageTextTells ==
    ASSUME NEW lines \in PageTexts, NEW c, c.end \in Nat, c.start \in Nat \ {0}, c.byte \in Nat,
           c.byte % Wide = 0, SourceExpected(lines, c),
           c.byte # NoLine =>
              /\ c.expected # NoText /\ c.start <= LastRequested(lines, c)
              /\ c.byte \div Wide \in 0..lines[c.start]
    PROVE  PageTells(PageText(lines, c), lines, LastRequested(lines, c),
                     Places(lines, c.start, c.byte \div Wide, LastRequested(lines, c)))
<1> DEFINE last == LastRequested(lines, c)
           k == c.byte \div Wide
           i == c.start
           page == PageText(lines, c)
           asked == Places(lines, i, k, last)
<1>0. last \in 0..Len(lines) /\ Len(lines) \in Nat
  BY LastType, TextType
<1>1. NoLine \div Wide = 0 /\ NoLine = 0
  BY DEF NoLine, Wide
<1>2. k \in Nat
  BY DEF Wide
<1>3. CASE i > last
  <2>1. c.byte = NoLine
    BY <1>0, <1>3
  <2> DEFINE end == Min({Len(lines), i - 1})
  <2>2. page = LastPage(<<>>, i, end, Len(lines))
    BY <1>3, <2>1 DEF PageText
  <2>3. asked = <<>>
    BY <1>3 DEF Places
  <2>4. end <= Len(lines)
    <3> DEFINE x == i - 1
               y == Len(lines)
    <3>1. x \in Nat /\ y \in Nat
      BY <1>0
    <3> HIDE DEF x, y
    <3>2. \E a \in {y, x} : \A z \in {y, x} : a <= z
      BY <3>1
    <3>3. Min({y, x}) <= y
      BY <3>2 DEF Min
    <3> QED BY <3>3 DEF x, y
  <2> HIDE DEF page, asked, end
  <2>5. /\ page.error = "none" /\ page.body = <<>> /\ page.start = i /\ page.end = end
        /\ page.total = Len(lines) /\ page.next = NoLine /\ page.byte = NoLine /\ page.reasons = {}
    BY <2>2 DEF LastPage, Page
  <2>6. ViewAccepted(page)
    BY <2>4, <2>5 DEF ViewAccepted
  <2>7. PageTells(page, lines, last, asked)
    BY <1>1, <2>3, <2>5, <2>6 DEF PageTells
  <2> QED BY <2>7 DEF page, asked
<1>4. CASE i <= last
  <2>0. i \in 1..Len(lines) /\ i \in 1..last /\ lines[i] \in Nat \ {0} /\ ~(i > last) /\ last \in 1..Len(lines)
        /\ i \in 1..Len(lines) + 1
    BY <1>0, <1>4, TextType
  <2>1. k \in 0..lines[i]
    BY <1>1, <2>0
  <2>2. CASE k < lines[i]
    <3>1. page = PageFrom(lines, c, i, k)
      BY <1>1, <2>0, <2>1, <2>2 DEF PageText
    <3>2. i \in 1..LastRequested(lines, c)
      BY <2>0
    <3> HIDE DEF page, k
    <3>3. PageTells(PageFrom(lines, c, i, k), lines, LastRequested(lines, c),
                     Places(lines, i, k, LastRequested(lines, c)))
      BY <1>2, <2>2, <3>2, PageFromTells
    <3> QED BY <3>1, <3>3 DEF page, k
  <2>3. CASE k = lines[i] /\ i = last
    <3>1. page = LastPage(<<>>, i, i, Len(lines))
      BY <1>1, <2>0, <2>1, <2>3 DEF PageText
    <3>2. asked = <<>>
      <4> HIDE DEF k, last
      <4>1. asked = Rest(lines, i, k)
        BY <1>0, <2>0, <2>1, <2>3, PlacesType
      <4> QED BY <2>0, <2>1, <2>3, <4>1, RestType
    <3> HIDE DEF page, asked
    <3>3. /\ page.error = "none" /\ page.body = <<>> /\ page.start = i /\ page.end = i
          /\ page.total = Len(lines) /\ page.next = NoLine /\ page.byte = NoLine /\ page.reasons = {}
      BY <3>1 DEF LastPage, Page
    <3>4. ViewAccepted(page)
      BY <2>0, <3>3 DEF ViewAccepted
    <3>5. PageTells(page, lines, last, asked)
      BY <1>1, <3>2, <3>3, <3>4 DEF PageTells
    <3> QED BY <3>5 DEF page, asked
  <2>4. CASE k = lines[i] /\ i # last
    <3> DEFINE next == i + 1
    <3>1. page = PageFrom(lines, c, next, 0)
      BY <1>1, <2>0, <2>1, <2>4 DEF PageText
    <3>2. next \in 1..last /\ next \in 1..Len(lines) /\ i \in i..(last - 1)
      BY <2>0, <2>4
    <3>3. 0 < lines[next] /\ 0 \in Nat
      BY <3>2, TextType
    <3>4. asked = Places(lines, next, 0, last)
      <4> HIDE DEF k, last, next, i
      <4>1. asked = Places(lines, i, k, i) \o Places(lines, i + 1, 0, last)
        BY <2>0, <2>1, <3>2, PlacesAfterLine, SMTT(60)
      <4>2. Places(lines, i, k, i) = <<>>
        <5>1. i \in 0..Len(lines)
          BY <2>0
        <5>2. Places(lines, i, k, i) = Rest(lines, i, k)
          <6> DEFINE j == i
          <6>1. j \in 0..Len(lines) /\ j = i /\ i \in 1..Len(lines) + 1 /\ k \in 0..lines[i]
            BY <2>0, <2>1, <5>1
          <6> HIDE DEF j
          <6>2. Places(lines, i, k, j) = Rest(lines, i, k)
            BY <6>1, PlacesType
          <6> QED BY <6>1, <6>2
        <5> QED BY <2>0, <2>1, <2>4, <5>2, RestType
      <4>3. Places(lines, next, 0, last) \in Seq(Spots)
        <5>1. next \in 1..Len(lines) + 1 /\ 0 \in 0..lines[next]
          BY <1>0, <3>2, <3>3, TextType
        <5> QED BY <1>0, <5>1, PlacesType
      <4>4. <<>> \o Places(lines, next, 0, last) = Places(lines, next, 0, last)
        BY <4>3, ConcatEmptySeq
      <4> QED BY <4>1, <4>2, <4>4 DEF next
    <3> HIDE DEF page, asked, next
    <3>5. PageTells(PageFrom(lines, c, next, 0), lines, last, Places(lines, next, 0, last))
      BY <3>2, <3>3, PageFromTells
    <3>6. PageTells(page, lines, last, asked)
      BY <3>1, <3>4, <3>5
    <3> QED BY <3>6 DEF page, asked
  <2> QED BY <2>1, <2>2, <2>3, <2>4, <2>0, <1>2
<1> QED BY <1>0, <1>3, <1>4

-----------------------------------------------------------------------------
(* ResultPages: a reading *)

Readings ==
    [pc : {"reading", "complete", "failed"}, kind : {"file", "result"}, start : Nat \ {0},
     first : PageTexts \cup {NoText},
     call : [start : Nat, end : Nat, byte : Nat, expected : PageTexts \cup {NoText}],
     got : Seq(Spots), pages : Nat, error : {"none", "expired", "source_changed"}]

LastPlace == LastRequested(reading.first, reading.call)
PagesAsked == Places(reading.first, reading.start, 0, LastPlace)
Onward == Places(reading.first, reading.call.start, reading.call.byte \div Wide, LastPlace)

\* Before the first page.
Fresh ==
    /\ reading.first = NoText /\ reading.got = <<>>
    /\ reading.pc = "reading" =>
          /\ reading.call.start = reading.start /\ reading.call.byte = NoLine
          /\ reading.call.expected = IF reading.kind = "file" THEN NoText ELSE text.lines

\* What was read, what the next call is about, and all that was asked for.
Begun ==
    /\ reading.first \in PageTexts
    /\ reading.pc = "complete" => reading.got = PagesAsked
    /\ reading.pc = "failed" => \E r \in Seq(Spots) : reading.got \o r = PagesAsked
    /\ reading.pc = "reading" =>
          /\ reading.call.expected = reading.first
          /\ reading.call.start \in 1..LastPlace
          /\ reading.call.byte % Wide = 0
          /\ reading.call.byte \div Wide \in 0..reading.first[reading.call.start]
          /\ reading.got \o Onward = PagesAsked

PagesInv ==
    /\ text \in [lines : PageTexts, edits : 0..MaxTextEdits]
    /\ reading \in Readings
    /\ reading.pages <= 1 + Len(reading.got)
    /\ reading.pc = "reading" => reading.pages <= Len(reading.got)
    /\ IF reading.pages = 0 THEN Fresh ELSE Begun
    /\ reading.error = "source_changed" => text.lines # reading.first
    /\ reading.pc \in {"reading", "complete"} => reading.error = "none"

LEMMA NoLineIs == NoLine = 0 /\ NoLine \in Nat /\ NoLine \div Wide = 0 /\ NoLine % Wide = 0
  BY DEF NoLine, Wide

LEMMA PagesInvInit == PagesInit => PagesInv
<1> SUFFICES ASSUME PagesInit PROVE PagesInv
  OBVIOUS
<1>0. PICK lines \in PageTexts, kind \in {"file", "result"} :
        \E start \in 1..Len(lines) + 1, end \in NoLine..Len(lines) + 1 :
            /\ text = [lines |-> lines, edits |-> 0]
            /\ reading = [pc |-> "reading", kind |-> kind, start |-> start, first |-> NoText,
                          call |-> PageCall(start, end, NoLine,
                                        IF kind = "file" THEN NoText ELSE lines),
                          got |-> <<>>, pages |-> 0, error |-> "none"]
  BY DEF PagesInit
<1>1. PICK start \in 1..Len(lines) + 1, end \in NoLine..Len(lines) + 1 :
            /\ text = [lines |-> lines, edits |-> 0]
            /\ reading = [pc |-> "reading", kind |-> kind, start |-> start, first |-> NoText,
                          call |-> PageCall(start, end, NoLine,
                                        IF kind = "file" THEN NoText ELSE lines),
                          got |-> <<>>, pages |-> 0, error |-> "none"]
  BY <1>0
<1> DEFINE c == PageCall(start, end, NoLine, IF kind = "file" THEN NoText ELSE lines)
<1>2. start \in Nat \ {0} /\ end \in Nat
  BY TextType, NoLineIs
<1>3. /\ c \in [start : Nat, end : Nat, byte : Nat, expected : PageTexts \cup {NoText}]
      /\ c.start = start /\ c.byte = NoLine
      /\ c.expected = IF kind = "file" THEN NoText ELSE lines
  BY <1>2, NoLineIs DEF PageCall
<1> HIDE DEF c
<1>4. reading = [pc |-> "reading", kind |-> kind, start |-> start, first |-> NoText,
                 call |-> c, got |-> <<>>, pages |-> 0, error |-> "none"]
  BY <1>1 DEF c
<1>5. text \in [lines : PageTexts, edits : 0..MaxTextEdits] /\ text.lines = lines
  BY <1>1, PagesAssumption
<1>6. <<>> \in Seq(Spots) /\ Len(<<>>) = 0
  OBVIOUS
<1>7. /\ reading.pc = "reading" /\ reading.kind = kind /\ reading.start = start /\ reading.first = NoText
      /\ reading.call = c /\ reading.got = <<>> /\ reading.pages = 0 /\ reading.error = "none"
  BY <1>4
<1>8. reading \in Readings
  BY <1>2, <1>3, <1>4, <1>6 DEF Readings
<1>9. Fresh
  BY <1>3, <1>5, <1>7 DEF Fresh
<1> QED BY <1>5, <1>6, <1>7, <1>8, <1>9 DEF PagesInv

\* What a call of the model brings.
LEMMA ReadTells ==
    ASSUME PagesInv, reading.pc = "reading"
    PROVE  LET lines == text.lines
               c == reading.call
               page == PageText(lines, c)
           IN  \/ /\ reading.pages = 0 \/ reading.first = lines
                  /\ PageTells(page, lines, LastRequested(lines, c),
                               Places(lines, c.start, c.byte \div Wide, LastRequested(lines, c)))
               \/ /\ page = PageError("source_changed")
                  /\ reading.pages # 0 /\ lines # reading.first
<1> DEFINE lines == text.lines
           c == reading.call
           page == PageText(lines, c)
           last == LastRequested(lines, c)
<1>1. /\ lines \in PageTexts /\ reading.start \in Nat \ {0}
      /\ c.end \in Nat /\ c.start \in Nat /\ c.byte \in Nat /\ reading.pages \in Nat
  BY DEF PagesInv, Readings
<1>2. CASE reading.pages = 0
  <2>1. /\ c.start = reading.start /\ c.byte = NoLine
        /\ c.expected = IF reading.kind = "file" THEN NoText ELSE lines
    BY <1>2 DEF PagesInv, Fresh
  <2>2. SourceExpected(lines, c)
    BY <2>1 DEF SourceExpected
  <2> HIDE DEF c, lines
  <2>3. c.start \in Nat \ {0} /\ c.byte % Wide = 0
    BY <1>1, <2>1, NoLineIs
  <2>4. PageTells(page, lines, last, Places(lines, c.start, c.byte \div Wide, last))
    BY <1>1, <2>1, <2>2, <2>3, PageTextTells
  <2> QED BY <1>2, <2>4 DEF c, lines
<1>3. CASE reading.pages # 0
  <2>1. /\ reading.first \in PageTexts /\ c.expected = reading.first
        /\ c.start \in 1..LastPlace /\ c.byte % Wide = 0
        /\ c.byte \div Wide \in 0..reading.first[c.start]
    BY <1>3 DEF PagesInv, Begun
  <2>2. c.expected # NoText
    BY <2>1, TextType
  <2>3. CASE lines = reading.first
    <3>1. SourceExpected(lines, c)
      BY <2>1, <2>3 DEF SourceExpected
    <3>2. LastPlace = last
      BY <2>3 DEF LastPlace
    <3>3. c.start \in Nat \ {0} /\ c.start <= last
      <4>1. last \in Nat
        BY <1>1, LastType, TextType
      <4> HIDE DEF last, c
      <4> QED BY <2>1, <3>2, <4>1
    <3>4. c.byte \div Wide \in 0..lines[c.start]
      BY <2>1, <2>3
    <3>5. PageTells(page, lines, last, Places(lines, c.start, c.byte \div Wide, last))
      <4> HIDE DEF lines, c
      <4> QED BY <1>1, <2>1, <2>2, <3>1, <3>3, <3>4, PageTextTells
    <3> QED BY <2>3, <3>5
  <2>4. CASE lines # reading.first
    <3>1. ~SourceExpected(lines, c)
      BY <2>1, <2>2, <2>4 DEF SourceExpected
    <3>2. page = PageError("source_changed")
      BY <2>2, <3>1 DEF PageText
    <3> QED BY <1>3, <2>4, <3>2
  <2> QED BY <2>3, <2>4
<1> QED BY <1>1, <1>2, <1>3

LEMMA DeliveredKeeps ==
    ASSUME PagesInv, reading.pc = "reading", NEW page, reading' = Delivered(page), UNCHANGED text,
           reading.pages = 0 \/ reading.first = text.lines,
           PageTells(page, text.lines, LastRequested(text.lines, reading.call),
                     Places(text.lines, reading.call.start, reading.call.byte \div Wide,
                            LastRequested(text.lines, reading.call)))
    PROVE  PagesInv'
<1> DEFINE lines == text.lines
           c == reading.call
           last == LastRequested(lines, c)
           ahead == Places(lines, c.start, c.byte \div Wide, last)
           call == PageCall(page.next, c.end, page.byte, lines)
           pc == IF page.next = NoLine THEN "complete" ELSE "reading"
           got == reading.got \o page.body
           asked == Places(lines, reading.start, 0, last)
<1>1. /\ lines \in PageTexts /\ reading.start \in Nat \ {0}
      /\ c.end \in Nat /\ c.start \in Nat /\ c.byte \in Nat /\ reading.pages \in Nat
      /\ reading.got \in Seq(Spots)
  BY DEF PagesInv, Readings
<1>2. /\ page.error = "none" /\ ViewAccepted(page)
      /\ page.body \in Seq(Spots) /\ page.next \in Nat /\ page.byte \in Nat
      /\ page.next = NoLine => page.body = ahead
      /\ page.next # NoLine =>
            /\ page.next \in 1..last /\ page.body # <<>>
            /\ page.byte % Wide = 0 /\ page.byte \div Wide \in 0..lines[page.next]
            /\ page.body \o Places(lines, page.next, page.byte \div Wide, last) = ahead
  BY DEF PageTells
<1>3. reading.pages = 0 => reading.first = NoText
  BY DEF PagesInv, Fresh
<1>4. (IF reading.first = NoText THEN lines ELSE reading.first) = lines
  <2>1. reading.pages # 0 => reading.first = lines
    OBVIOUS
  <2> QED BY <1>3, <2>1
<1>5. reading' = [reading EXCEPT !.pc = pc, !.first = lines, !.call = call, !.got = got,
                                 !.pages = reading.pages + 1]
  <2>1. reading' = [reading EXCEPT
          !.pc = CASE ~ViewAccepted(page) -> "cut" [] page.next = NoLine -> "complete" [] OTHER -> "reading",
          !.first = IF reading.first = NoText THEN lines ELSE reading.first,
          !.call = call, !.got = got, !.pages = reading.pages + 1]
    BY DEF Delivered, Readings, PagesInv
  <2>2. (CASE ~ViewAccepted(page) -> "cut" [] page.next = NoLine -> "complete" [] OTHER -> "reading") = pc
    BY <1>2
  <2> HIDE DEF pc, call, got, lines
  <2> QED BY <1>4, <2>1, <2>2
<1>6. reading.error = "none"
  BY DEF PagesInv
<1>7. got \in Seq(Spots) /\ Len(got) = Len(reading.got) + Len(page.body)
  BY <1>1, <1>2
<1>8. /\ call \in [start : Nat, end : Nat, byte : Nat, expected : PageTexts \cup {NoText}]
      /\ call.start = page.next /\ call.byte = page.byte /\ call.expected = lines /\ call.end = c.end
  BY <1>1, <1>2 DEF PageCall
<1> HIDE DEF call, got, pc
<1>9. /\ reading'.pc = pc /\ reading'.kind = reading.kind /\ reading'.start = reading.start
      /\ reading'.first = lines /\ reading'.call = call /\ reading'.got = got
      /\ reading'.pages = reading.pages + 1 /\ reading'.error = "none"
  BY <1>5, <1>6 DEF PagesInv, Readings
<1>10. reading' \in Readings
  <2>1. pc \in {"reading", "complete"}
    BY DEF pc
  <2>2. reading.pages + 1 \in Nat
    BY <1>1
  <2> HIDE DEF lines
  <2>3. reading \in Readings
    BY DEF PagesInv
  <2> QED BY <1>1, <1>5, <1>7, <1>8, <2>1, <2>2, <2>3 DEF Readings
<1>11. LastPlace' = last /\ PagesAsked' = asked
  <2>1. LastRequested(lines, call) = last
    BY <1>8 DEF LastRequested
  <2> HIDE DEF asked, last, lines
  <2>2. LastPlace' = last
    BY <1>9, <2>1 DEF LastPlace
  <2> QED BY <1>9, <2>2 DEF PagesAsked, asked
<1>12. reading.got \o ahead = asked
  <2>1. CASE reading.pages = 0
    <3>1. reading.got = <<>> /\ c.start = reading.start /\ c.byte \div Wide = 0
      BY <2>1, NoLineIs DEF PagesInv, Fresh
    <3>2. ahead = asked
      BY <3>1
    <3>3. ahead \in Seq(Spots)
      <4>1. page.next = NoLine => ahead \in Seq(Spots)
        BY <1>2
      <4>2. page.next # NoLine => ahead \in Seq(Spots)
        <5> SUFFICES ASSUME page.next # NoLine PROVE ahead \in Seq(Spots)
          OBVIOUS
        <5> DEFINE next == page.next
                   k == page.byte \div Wide
        <5>1. last \in 0..Len(lines) /\ next \in 1..last /\ k \in 0..lines[next] /\ Len(lines) \in Nat
          BY <1>1, <1>2, LastType, TextType
        <5>2. next \in 1..Len(lines) + 1
          <6> HIDE DEF last, next, lines
          <6> QED BY <5>1
        <5>3. Places(lines, next, k, last) \in Seq(Spots)
          <6> HIDE DEF last, next, k, lines
          <6> QED BY <1>1, <5>1, <5>2, PlacesType
        <5>4. page.body \o Places(lines, next, k, last) = ahead
          BY <1>2
        <5> DEFINE rest == Places(lines, next, k, last)
                   body == page.body
        <5>5. body \in Seq(Spots) /\ rest \in Seq(Spots)
          BY <1>2, <5>3
        <5> HIDE DEF rest, body
        <5>6. body \o rest \in Seq(Spots)
          BY <5>5
        <5> QED BY <5>4, <5>6, Zenon DEF rest, body
      <4> QED BY <4>1, <4>2
    <3> HIDE DEF ahead, asked
    <3> QED BY <3>1, <3>2, <3>3, ConcatEmptySeq
  <2>2. CASE reading.pages # 0
    <3>1. reading.got \o Onward = PagesAsked /\ reading.first = lines
      BY <2>2 DEF PagesInv, Begun
    <3>2. Onward = ahead /\ PagesAsked = asked
      BY <3>1 DEF Onward, PagesAsked, LastPlace
    <3> QED BY <3>1, <3>2
  <2> QED BY <2>1, <2>2
<1>13. Begun'
  <2>1. pc = "complete" => got = asked
    BY <1>2, <1>12 DEF pc, got
  <2>2. pc = "reading" =>
          /\ call.start \in 1..last /\ call.byte % Wide = 0
          /\ call.byte \div Wide \in 0..lines[call.start]
    BY <1>2, <1>8 DEF pc
  <2>3. ASSUME pc = "reading"
        PROVE  got \o Places(lines, call.start, call.byte \div Wide, last) = asked
    <3> DEFINE next == page.next
               k == page.byte \div Wide
               rest == Places(lines, next, k, last)
    <3>0. next # NoLine
      BY <2>3 DEF pc
    <3>1. last \in 0..Len(lines) /\ next \in 1..last /\ k \in 0..lines[next] /\ Len(lines) \in Nat
      BY <1>1, <1>2, <3>0, LastType, TextType
    <3>2. next \in 1..Len(lines) + 1
      <4> HIDE DEF last, next, lines
      <4> QED BY <3>1
    <3>3. rest \in Seq(Spots)
      <4> HIDE DEF last, next, k, lines
      <4> QED BY <1>1, <3>1, <3>2, PlacesType
    <3>4. page.body \o rest = ahead
      BY <1>2, <3>0
    <3> HIDE DEF rest, ahead
    <3>5. (reading.got \o page.body) \o rest = reading.got \o ahead
      BY <1>1, <1>2, <3>3, <3>4, Associative
    <3>6. got \o rest = asked
      BY <1>12, <3>5 DEF got
    <3> QED BY <1>8, <3>6 DEF rest
  <2>4. pc # "failed"
    BY DEF pc
  <2> HIDE DEF lines, last, asked
  <2>5. reading'.pc = "reading" => reading'.got \o Onward' = PagesAsked'
    BY <1>9, <1>11, <2>3 DEF Onward
  <2> QED BY <1>1, <1>8, <1>9, <1>11, <2>1, <2>2, <2>4, <2>5 DEF Begun
<1>14. reading'.pages <= 1 + Len(reading'.got) /\ (reading'.pc = "reading" => reading'.pages <= Len(reading'.got))
  <2>1. reading.pages <= Len(reading.got)
    BY DEF PagesInv
  <2>2. Len(page.body) \in Nat /\ Len(reading.got) \in Nat
    BY <1>1, <1>2
  <2>3. pc = "reading" => Len(page.body) > 0
    <3>1. pc = "reading" => page.body # <<>>
      BY <1>2 DEF pc
    <3> QED BY <1>2, <3>1
  <2> DEFINE before == Len(reading.got)
             more == Len(page.body)
  <2>4. /\ reading'.pages = reading.pages + 1 /\ Len(reading'.got) = before + more
        /\ reading'.pc = "reading" => more > 0
        /\ before \in Nat /\ more \in Nat /\ reading.pages <= before
    BY <1>7, <1>9, <2>1, <2>2, <2>3
  <2> HIDE DEF before, more
  <2>5. reading.pages + 1 <= 1 + (before + more) /\ (more > 0 => reading.pages + 1 <= before + more)
    BY <1>1, <2>4
  <2> QED BY <2>4, <2>5
<1>15. reading'.pages # 0
  BY <1>1, <1>9
<1>16. (text \in [lines : PageTexts, edits : 0..MaxTextEdits])'
  BY DEF PagesInv
<1>17. reading'.error = "none"
  BY <1>9
<1> QED BY <1>10, <1>13, <1>14, <1>15, <1>16, <1>17 DEF PagesInv

\* A reading that ends early has what it has.
LEMMA FailedKeeps ==
    ASSUME PagesInv, reading.pc = "reading", NEW why \in {"expired", "source_changed"},
           why = "source_changed" => text.lines # reading.first,
           reading' = [reading EXCEPT !.pc = "failed", !.error = why], UNCHANGED text
    PROVE  PagesInv'
<1>1. /\ reading'.pc = "failed" /\ reading'.kind = reading.kind /\ reading'.start = reading.start
      /\ reading'.first = reading.first /\ reading'.call = reading.call /\ reading'.got = reading.got
      /\ reading'.pages = reading.pages /\ reading'.error = why
  BY DEF PagesInv, Readings
<1>2. reading' \in Readings
  BY DEF PagesInv, Readings
<1>3. reading.pages = 0 => Fresh'
  BY <1>1 DEF PagesInv, Fresh
<1>4. ASSUME reading.pages # 0 PROVE Begun'
  <2>1. Begun
    BY <1>4 DEF PagesInv
  <2>2. PagesAsked' = PagesAsked
    BY <1>1 DEF PagesAsked, LastPlace
  <2>3. Onward \in Seq(Spots)
    <3> DEFINE lines == reading.first
               next == reading.call.start
               k == reading.call.byte \div Wide
    <3>1. lines \in PageTexts /\ next \in 1..LastPlace /\ k \in 0..lines[next]
      BY <2>1 DEF Begun
    <3>2. LastPlace \in 0..Len(lines) /\ Len(lines) \in Nat
      BY <3>1, LastType, TextType DEF LastPlace, PagesInv, Readings
    <3>3. next \in 1..Len(lines) + 1
      <4> HIDE DEF next, lines
      <4> QED BY <3>1, <3>2
    <3>4. Places(lines, next, k, LastPlace) \in Seq(Spots)
      <4> HIDE DEF next, k, lines
      <4> QED BY <3>1, <3>2, <3>3, PlacesType
    <3> QED BY <3>4 DEF Onward
  <2>4. \E r \in Seq(Spots) : reading.got \o r = PagesAsked
    BY <2>1, <2>3 DEF Begun
  <2> QED BY <1>1, <2>1, <2>2, <2>4 DEF Begun
<1> QED BY <1>1, <1>2, <1>3, <1>4 DEF PagesInv

LEMMA PagesInvNext == PagesInv /\ [PagesNext]_pagesVars => PagesInv'
<1> SUFFICES ASSUME PagesInv, [PagesNext]_pagesVars PROVE PagesInv'
  OBVIOUS
<1>1. CASE ReadPage
  <2> DEFINE page == PageText(text.lines, reading.call)
  <2>1. /\ reading.pc = "reading" /\ UNCHANGED text
        /\ reading' = IF page.error = "none" THEN Delivered(page)
                      ELSE [reading EXCEPT !.pc = "failed", !.error = page.error]
    BY <1>1 DEF ReadPage
  <2>2. CASE page.error = "none"
    <3>1. page # PageError("source_changed")
      <4>1. PageError("source_changed").error = "source_changed"
        BY DEF PageError
      <4> HIDE DEF page
      <4> QED BY <2>2, <4>1
    <3>2. /\ reading.pages = 0 \/ reading.first = text.lines
          /\ PageTells(page, text.lines, LastRequested(text.lines, reading.call),
                       Places(text.lines, reading.call.start, reading.call.byte \div Wide,
                              LastRequested(text.lines, reading.call)))
      BY <2>1, <3>1, ReadTells
    <3>3. reading' = Delivered(page)
      BY <2>1, <2>2
    <3> HIDE DEF page
    <3> QED BY <2>1, <3>2, <3>3, DeliveredKeeps
  <2>3. CASE page.error # "none"
    <3>1. ~PageTells(page, text.lines, LastRequested(text.lines, reading.call),
                       Places(text.lines, reading.call.start, reading.call.byte \div Wide,
                              LastRequested(text.lines, reading.call)))
      BY <2>3 DEF PageTells
    <3>2. page = PageError("source_changed") /\ text.lines # reading.first
      BY <2>1, <3>1, ReadTells
    <3>3. reading' = [reading EXCEPT !.pc = "failed", !.error = "source_changed"]
      BY <2>1, <2>3, <3>2 DEF PageError
    <3> QED BY <2>1, <3>2, <3>3, FailedKeeps
  <2> QED BY <2>2, <2>3
<1>2. CASE ExpireResult
  BY <1>2, FailedKeeps DEF ExpireResult
<1>3. CASE EditText
  <2>1. PICK lines \in PageTexts : text' = [lines |-> lines, edits |-> text.edits + 1]
    BY <1>3 DEF EditText
  <2>2. reading' = reading /\ reading.pc = "reading" /\ reading.kind = "file" /\ text.edits < MaxTextEdits
    BY <1>3 DEF EditText
  <2>3. text' \in [lines : PageTexts, edits : 0..MaxTextEdits]
    <3>1. text.edits + 1 \in 0..MaxTextEdits
      BY <2>2, PagesAssumption DEF PagesInv
    <3> QED BY <2>1, <3>1
  <2>4. Fresh => Fresh'
    BY <2>2 DEF Fresh
  <2>5. Begun => Begun'
    <3>1. PagesAsked' = PagesAsked /\ Onward' = Onward /\ LastPlace' = LastPlace
      BY <2>2 DEF PagesAsked, Onward, LastPlace
    <3> QED BY <2>2, <3>1 DEF Begun
  <2>6. reading.error = "none"
    BY <2>2 DEF PagesInv
  <2> QED BY <2>2, <2>3, <2>4, <2>5, <2>6 DEF PagesInv
<1>4. CASE UNCHANGED pagesVars
  <2>1. text' = text /\ reading' = reading
    BY <1>4 DEF pagesVars
  <2>2. (Fresh => Fresh') /\ (Begun => Begun')
    BY <2>1 DEF Fresh, Begun, PagesAsked, Onward, LastPlace
  <2> QED BY <2>1, <2>2 DEF PagesInv
<1> QED BY <1>1, <1>2, <1>3, <1>4 DEF PagesNext

LEMMA PrefixOf ==
    ASSUME NEW A, NEW s \in Seq(A), NEW r \in Seq(A)
    PROVE  IsPrefix(s, s \o r)
<1> DEFINE t == s \o r
           n == Len(s)
           front == SubSeq(t, 1, n)
           same == SubSeq(s, 1, n)
<1>1. t \in Seq(A) /\ n \in Nat /\ Len(t) = n + Len(r) /\ n <= Len(t)
      /\ \A i \in 1..n : t[i] = s[i]
  OBVIOUS
<1> HIDE DEF t
<1>2. same = s
  BY SubSeqFull
<1>3. front = s
  <2>1. front \in Seq(A) /\ Len(front) = n /\ \A i \in 1..n : front[i] = t[i]
    BY <1>1
  <2> HIDE DEF front
  <2> QED BY <1>1, <2>1, SeqEqual
<1> QED BY <1>1, <1>2, <1>3 DEF IsPrefix, t

LEMMA PagesInvTells ==
    PagesInv => PagesTypeOK /\ PagesTellTheText /\ PagesCanBeFollowed
<1> SUFFICES ASSUME PagesInv PROVE PagesTypeOK /\ PagesTellTheText /\ PagesCanBeFollowed
  OBVIOUS
<1>1. PagesTypeOK
  BY DEF PagesInv, PagesTypeOK, Readings
<1>2. PagesCanBeFollowed
  BY DEF PagesInv, PagesCanBeFollowed, Readings
<1>3. ASSUME reading.pages > 0
      PROVE  IsPrefix(reading.got, PagesAsked) /\ (reading.pc = "complete" => reading.got = PagesAsked)
  <2>1. Begun /\ reading.got \in Seq(Spots) /\ reading.pc \in {"reading", "complete", "failed"}
    BY <1>3 DEF PagesInv, Readings
  <2>2. CASE reading.pc = "complete"
    <3>1. reading.got = PagesAsked
      BY <2>1, <2>2 DEF Begun
    <3> QED BY <2>1, <3>1 DEF IsPrefix
  <2>3. CASE reading.pc = "failed"
    <3>1. PICK r \in Seq(Spots) : reading.got \o r = PagesAsked
      BY <2>1, <2>3 DEF Begun
    <3>2. IsPrefix(reading.got, reading.got \o r)
      BY <2>1, PrefixOf
    <3> QED BY <2>3, <3>1, <3>2
  <2>4. CASE reading.pc = "reading"
    <3> DEFINE lines == reading.first
               next == reading.call.start
               k == reading.call.byte \div Wide
    <3>1. lines \in PageTexts /\ next \in 1..LastPlace /\ k \in 0..lines[next]
          /\ reading.got \o Onward = PagesAsked
      BY <2>1, <2>4 DEF Begun
    <3>2. LastPlace \in 0..Len(lines) /\ Len(lines) \in Nat
      BY <3>1, LastType, TextType DEF LastPlace, PagesInv, Readings
    <3>3. next \in 1..Len(lines) + 1
      <4> HIDE DEF next, lines
      <4> QED BY <3>1, <3>2
    <3>4. Places(lines, next, k, LastPlace) \in Seq(Spots)
      <4> HIDE DEF next, k, lines
      <4> QED BY <3>1, <3>2, <3>3, PlacesType
    <3>5. Onward \in Seq(Spots)
      BY <3>4 DEF Onward
    <3>6. IsPrefix(reading.got, reading.got \o Onward)
      BY <2>1, <3>5, PrefixOf
    <3> QED BY <2>4, <3>1, <3>6
  <2> QED BY <2>1, <2>2, <2>3, <2>4
<1>4. PagesTellTheText
  BY <1>3 DEF PagesTellTheText, PagesAsked, LastPlace
<1> QED BY <1>1, <1>2, <1>4

-----------------------------------------------------------------------------
(* InputQueue and the worker threads of repl.py.                            *)

Asking == {"ready", "wake", "refuse", "answer"}
WorkerPlaces == Asking \cup {"none", "start", "turn", "next", "finish"}
TerminalPlaces == {"loop", "look", "prompt", "route", "judge", "answer", "deny", "clear",
                   "clearAndClose", "submit", "starting", "closing", "wait", "gone"}

QueueType == [pending : Seq(Nat), busy : BOOLEAN, closing : BOOLEAN, terminal : BOOLEAN,
              confirmation : Nat, answered : SUBSET Nat, accepted : SUBSET Nat]
WorkerType == [at : WorkerPlaces, input : Nat, request : Nat]
TerminalType == [at : TerminalPlaces, interface : {"plain", "tui"},
                 typed : {"", "yes", "text", "clear", "exit", "local"},
                 shown : Nat, woken : BOOLEAN, lines : Nat]
ToldType == [submitted : Nat, taken : Seq(Nat), dropped : SUBSET Nat, asked : Nat,
             yes : SUBSET Nat, granted : SUBSET Nat, uiFailed : BOOLEAN]

QueueTyped ==
    /\ inputs \in QueueType
    /\ worker \in WorkerType
    /\ terminal \in TerminalType
    /\ told \in ToldType

\* A pending request is the one the turn asks, and what the turn asks is pending
\* or answered.
InputsPending ==
    /\ inputs.confirmation # NoRequest =>
          worker.at \in Asking /\ inputs.confirmation = worker.request
    /\ worker.at \in Asking => worker.request \in {inputs.confirmation} \cup inputs.answered
    /\ worker.at \in Asking => worker.request # NoRequest
    /\ inputs.confirmation # NoRequest => inputs.confirmation \notin inputs.answered
    /\ inputs.confirmation <= told.asked
    /\ \A q \in inputs.answered : q <= told.asked

\* There is one worker, and a turn is started only when there is none.
OneWorker ==
    /\ worker.at # "none" => inputs.busy
    /\ terminal.at = "starting" => inputs.busy /\ worker.at = "none"

InputsClosed ==
    /\ inputs.closing => inputs.confirmation = NoRequest
    /\ terminal.at \in {"wait", "gone"} => inputs.closing

\* What is on the screen is pending as long as the line for it is on its way.
AnswersShown ==
    /\ worker.at = "refuse" => told.uiFailed
    /\ terminal.at = "answer" => terminal.shown # NoRequest
    /\ \/ told.uiFailed
       \/ /\ terminal.at \in {"prompt", "route", "answer"} /\ terminal.shown # NoRequest =>
                inputs.confirmation = terminal.shown
          /\ inputs.accepted \subseteq told.yes
          /\ told.granted \subseteq told.yes

QueueInv == QueueTyped /\ InputsPending /\ OneWorker /\ InputsClosed /\ AnswersShown

\* The invariant holds of an empty queue.
LEMMA QueueInvInit == InputInit => QueueInv
<1> SUFFICES ASSUME InputInit PROVE QueueInv
  OBVIOUS
<1>1. inputs = [pending |-> << >>, busy |-> FALSE, closing |-> FALSE, terminal |-> FALSE,
                confirmation |-> NoRequest, answered |-> {}, accepted |-> {}]
      /\ worker = [at |-> "none", input |-> 0, request |-> NoRequest]
  BY DEF InputInit, Free
<1>2. told = [submitted |-> 0, taken |-> << >>, dropped |-> {}, asked |-> 0,
              yes |-> {}, granted |-> {}, uiFailed |-> FALSE]
  BY DEF InputInit
<1>3. PICK interface \in {"plain", "tui"} :
         terminal = [at |-> "loop", interface |-> interface, typed |-> "",
                     shown |-> NoRequest, woken |-> FALSE, lines |-> 0]
  BY DEF InputInit
<1>4. << >> \in Seq(Nat) /\ {} \in SUBSET Nat /\ 0 \in Nat
  OBVIOUS
<1>5. inputs \in QueueType
  BY <1>1, <1>4 DEF NoRequest, QueueType
<1>6. worker \in WorkerType
  BY <1>1, <1>4 DEF NoRequest, WorkerPlaces, WorkerType
<1>7. terminal \in TerminalType
  BY <1>3, <1>4 DEF NoRequest, TerminalPlaces, TerminalType
<1>8. told \in ToldType
  BY <1>2, <1>4 DEF ToldType
<1>9. /\ inputs.confirmation = NoRequest /\ ~inputs.closing /\ inputs.accepted = {}
      /\ inputs.answered = {} /\ told.asked = 0
      /\ worker.at = "none" /\ terminal.at = "loop" /\ told.granted = {}
  BY <1>1, <1>2, <1>3
<1> QED BY <1>5, <1>6, <1>7, <1>8, <1>9 DEF QueueInv, QueueTyped, InputsPending, OneWorker, NoRequest, InputsClosed, AnswersShown, Asking

\* What an answer does to the queue.
LEMMA AnsweringFields ==
    ASSUME QueueTyped, NEW accepted \in BOOLEAN
    PROVE  LET q == Answering(inputs, accepted)
           IN  /\ q \in QueueType
               /\ q.confirmation = NoRequest /\ q.closing = inputs.closing
               /\ q.busy = inputs.busy
               /\ q.answered \subseteq inputs.answered \cup {inputs.confirmation}
               /\ inputs.confirmation # NoRequest => inputs.confirmation \in q.answered
               /\ inputs.answered \subseteq q.answered
               /\ q.accepted \subseteq inputs.accepted \cup {inputs.confirmation}
               /\ ~accepted => q.accepted = inputs.accepted
               /\ inputs.confirmation = NoRequest => q = inputs
<1>1. CASE inputs.confirmation = NoRequest
  BY <1>1 DEF Answering, QueueTyped
<1>2. CASE inputs.confirmation # NoRequest
  <2> DEFINE answered == inputs.answered \cup {inputs.confirmation}
             yes == IF accepted THEN inputs.accepted \cup {inputs.confirmation} ELSE inputs.accepted
             q == [inputs EXCEPT !.confirmation = NoRequest, !.answered = answered, !.accepted = yes]
  <2>1. Answering(inputs, accepted) = q
    BY <1>2 DEF Answering
  <2>2. answered \in SUBSET Nat /\ yes \in SUBSET Nat /\ NoRequest \in Nat
    BY DEF QueueTyped, QueueType, WorkerType, TerminalType, ToldType, NoRequest
  <2>3. q \in QueueType
    BY <2>2 DEF QueueTyped, QueueType, WorkerType, TerminalType, ToldType
  <2>4. q.confirmation = NoRequest
    BY DEF QueueTyped, QueueType, WorkerType, TerminalType, ToldType
  <2>5. q.closing = inputs.closing
    BY DEF QueueTyped, QueueType, WorkerType, TerminalType, ToldType
  <2>6. q.answered = answered
    BY DEF QueueTyped, QueueType, WorkerType, TerminalType, ToldType
  <2>7. q.accepted = yes
    BY DEF QueueTyped, QueueType, WorkerType, TerminalType, ToldType
  <2>8. q.busy = inputs.busy
    BY DEF QueueTyped, QueueType, WorkerType, TerminalType, ToldType
  <2> HIDE DEF q
  <2> QED BY <1>2, <2>1, <2>3, <2>4, <2>5, <2>6, <2>7, <2>8
<1> QED BY <1>1, <1>2

\* The thread of the interface moves on.
LEMMA GoesFields ==
    ASSUME QueueTyped, NEW place \in TerminalPlaces, Goes(place)
    PROVE  /\ terminal' \in TerminalType
           /\ terminal'.at = place /\ terminal'.shown = terminal.shown
BY DEF QueueTyped, QueueType, WorkerType, TerminalType, ToldType, Goes

\* So does the worker.
LEMMA WorksFields ==
    ASSUME QueueTyped, NEW place \in WorkerPlaces, Works(place)
    PROVE  /\ worker' \in WorkerType
           /\ worker'.at = place /\ worker'.request = worker.request
BY DEF QueueTyped, QueueType, WorkerType, TerminalType, ToldType, Works

\* Dropping inputs is all that happens to what was told.
LEMMA DroppingFields ==
    ASSUME QueueTyped, Dropping
    PROVE  /\ told' \in ToldType
           /\ told'.yes = told.yes /\ told'.granted = told.granted /\ told'.uiFailed = told.uiFailed
           /\ told'.asked = told.asked
<1>1. told \in ToldType /\ inputs.pending \in Seq(Nat)
  BY DEF QueueTyped, QueueType
<1>2. ToSet(inputs.pending) \subseteq Nat
  BY <1>1 DEF ToSet
<1>3. told' = [told EXCEPT !.dropped = told.dropped \cup ToSet(inputs.pending)]
  BY DEF Dropping
<1>4. told.dropped \cup ToSet(inputs.pending) \in SUBSET Nat
  BY <1>1, <1>2 DEF ToldType
<1> QED BY <1>1, <1>3, <1>4 DEF ToldType

\* The thread of the interface goes where nothing of a request matters, or
\* shows what is pending.
LEMMA TerminalKeeps ==
    ASSUME QueueInv, UNCHANGED <<inputs, worker, told>>,
           terminal' \in TerminalType,
           terminal'.at # "starting",
           terminal'.at \in {"wait", "gone"} => inputs.closing,
           terminal'.at = "answer" => terminal'.shown # NoRequest,
           terminal'.at \in {"prompt", "route", "answer"} /\ terminal'.shown # NoRequest =>
               inputs.confirmation = terminal'.shown \/ told.uiFailed
    PROVE  QueueInv'
BY DEF QueueInv, QueueTyped, InputsPending, OneWorker, InputsClosed, AnswersShown

\* The steps of the interface that only move it keep the invariant.
LEMMA TerminalMoves ==
    ASSUME QueueInv,
           \/ SeeTerminal \/ ShowPrompt \/ EndOfInput \/ InterruptLoop \/ LeavePrompt
           \/ RouteLine \/ JudgeLine \/ CloseReturns
           \/ \E line \in {"yes", "text", "clear", "exit", "local"} : TypeLine(line)
    PROVE  QueueInv'
<1>1. QueueTyped /\ UNCHANGED <<inputs, worker, told>>
  BY DEF QueueInv, SeeTerminal, ShowPrompt, EndOfInput, InterruptLoop, LeavePrompt,
         RouteLine, JudgeLine, CloseReturns, TypeLine
<1>2. ASSUME NEW place \in {"loop", "look", "closing", "judge", "submit", "clear", "clearAndClose", "deny"}, Goes(place)
      PROVE  QueueInv'
  <2>1. place \in TerminalPlaces
    BY DEF TerminalPlaces
  <2> QED BY <1>1, <1>2, <2>1, GoesFields, TerminalKeeps
<1>3. CASE SeeTerminal
  BY <1>2, <1>3 DEF SeeTerminal
<1>4. CASE ShowPrompt
  <2>1. /\ terminal' \in TerminalType
        /\ terminal'.at = "prompt" /\ terminal'.shown = inputs.confirmation
    BY <1>1, <1>4 DEF ShowPrompt, QueueTyped, QueueType, TerminalType, TerminalPlaces
  <2> QED BY <1>1, <2>1, TerminalKeeps
<1>5. CASE EndOfInput \/ LeavePrompt
  BY <1>2, <1>5 DEF EndOfInput, LeavePrompt
<1>6. CASE InterruptLoop
  <2>1. PICK place \in {"deny", "loop", "closing"} :
           terminal' = [terminal EXCEPT !.lines = terminal.lines + 1, !.at = place]
    BY <1>6 DEF InterruptLoop
  <2>2. terminal \in TerminalType /\ terminal.lines + 1 \in Nat
    <3>1. terminal \in TerminalType
      BY <1>1 DEF QueueTyped
    <3>2. terminal.lines \in Nat
      BY <3>1 DEF TerminalType
    <3> QED BY <3>1, <3>2
  <2>3. /\ terminal' \in TerminalType
        /\ terminal'.at = place
    BY <2>1, <2>2 DEF TerminalType, TerminalPlaces
  <2> QED BY <1>1, <2>3, TerminalKeeps
<1>7. CASE RouteLine
  <2>1. CASE inputs.confirmation = NoRequest \/ terminal.shown = NoRequest
    BY <1>2, <1>7, <2>1 DEF RouteLine
  <2>2. CASE inputs.confirmation # NoRequest /\ terminal.shown # NoRequest
    <3>1. Goes("answer") /\ terminal.at = "route"
      BY <1>7, <2>2 DEF RouteLine
    <3>2. /\ terminal' \in TerminalType
          /\ terminal'.at = "answer" /\ terminal'.shown = terminal.shown
      BY <1>1, <3>1, GoesFields DEF TerminalPlaces
    <3>3. inputs.confirmation = terminal.shown \/ told.uiFailed
      BY <2>2, <3>1 DEF QueueInv, AnswersShown
    <3> QED BY <1>1, <2>2, <3>2, <3>3, TerminalKeeps
  <2> QED BY <2>1, <2>2
<1>8. CASE JudgeLine
  BY <1>2, <1>8 DEF JudgeLine
<1>9. CASE CloseReturns
  <2>1. /\ terminal' \in TerminalType
        /\ terminal'.at = "gone" /\ terminal.at = "wait"
    BY <1>1, <1>9, GoesFields DEF CloseReturns, TerminalPlaces
  <2> QED BY <1>1, <2>1, TerminalKeeps DEF QueueInv, InputsClosed
<1>10. ASSUME NEW line \in {"yes", "text", "clear", "exit", "local"}, TypeLine(line)
       PROVE  QueueInv'
  <2>1. terminal' = [terminal EXCEPT !.at = "route", !.typed = line, !.lines = terminal.lines + 1]
        /\ terminal.at = "prompt"
    BY <1>10 DEF TypeLine
  <2>2. terminal \in TerminalType /\ terminal.lines + 1 \in Nat
    <3>1. terminal \in TerminalType
      BY <1>1 DEF QueueTyped
    <3>2. terminal.lines \in Nat
      BY <3>1 DEF TerminalType
    <3> QED BY <3>1, <3>2
  <2>3. /\ terminal' \in TerminalType
        /\ terminal'.at = "route" /\ terminal'.shown = terminal.shown
    BY <2>1, <2>2 DEF TerminalType, TerminalPlaces
  <2> QED BY <1>1, <2>1, <2>3, TerminalKeeps DEF QueueInv, AnswersShown
<1> QED BY <1>3, <1>4, <1>5, <1>6, <1>7, <1>8, <1>9, <1>10

\* The interface answers, drops, starts a turn or closes.
LEMMA TerminalWrites ==
    ASSUME QueueInv,
           DenyInterrupted \/ ClearQueue \/ AnswerConfirmation \/ Submit \/ StartWorker \/ CloseQueue
    PROVE  QueueInv'
<1>1. /\ QueueTyped /\ InputsPending /\ OneWorker /\ InputsClosed /\ AnswersShown
      /\ inputs \in QueueType /\ worker \in WorkerType /\ terminal \in TerminalType /\ told \in ToldType
  BY DEF QueueInv, QueueTyped
<1>2. ASSUME NEW place \in TerminalPlaces, Goes(place)
      PROVE  terminal' \in TerminalType /\ terminal'.at = place
  BY <1>1, <1>2, GoesFields
<1>3. CASE DenyInterrupted
  <2>1. inputs' = Answering(inputs, FALSE) /\ UNCHANGED <<worker, told>> /\ Goes("clear")
    BY <1>3 DEF DenyInterrupted
  <2>2. /\ inputs' \in QueueType
        /\ inputs'.confirmation = NoRequest /\ inputs'.closing = inputs.closing
        /\ inputs'.busy = inputs.busy
        /\ inputs'.answered \subseteq inputs.answered \cup {inputs.confirmation}
        /\ inputs.confirmation # NoRequest => inputs.confirmation \in inputs'.answered
        /\ inputs.answered \subseteq inputs'.answered
        /\ inputs'.accepted = inputs.accepted
    BY <1>1, <2>1, AnsweringFields
  <2>3. terminal' \in TerminalType /\ terminal'.at = "clear"
    BY <1>2, <2>1 DEF TerminalPlaces
  <2>4. QueueTyped'
    BY <1>1, <2>1, <2>2, <2>3 DEF QueueTyped
  <2>5. InputsPending'
    <3>1. worker' = worker /\ told' = told /\ told.asked \in Nat
      BY <1>1, <2>1 DEF ToldType
    <3> QED BY <1>1, <2>2, <3>1 DEF InputsPending, NoRequest
  <2> QED BY <1>1, <2>1, <2>2, <2>3, <2>4, <2>5 DEF QueueInv, OneWorker, InputsClosed, AnswersShown
<1>4. CASE ClearQueue
  <2>1. inputs' = [inputs EXCEPT !.pending = << >>] /\ Dropping /\ UNCHANGED worker
    BY <1>4 DEF ClearQueue
  <2>2. /\ inputs' \in QueueType
        /\ inputs'.confirmation = inputs.confirmation /\ inputs'.closing = inputs.closing
        /\ inputs'.busy = inputs.busy /\ inputs'.answered = inputs.answered
        /\ inputs'.accepted = inputs.accepted
    <3>1. << >> \in Seq(Nat)
      OBVIOUS
    <3> QED BY <1>1, <2>1, <3>1 DEF QueueType
  <2>3. terminal' \in TerminalType /\ terminal'.at \in {"loop", "closing"}
    BY <1>2, <1>4 DEF ClearQueue, TerminalPlaces
  <2>4. /\ told' \in ToldType /\ told'.yes = told.yes /\ told'.granted = told.granted
        /\ told'.uiFailed = told.uiFailed /\ told'.asked = told.asked
    BY <1>1, <2>1, DroppingFields
  <2> QED BY <1>1, <2>1, <2>2, <2>3, <2>4 DEF QueueInv, QueueTyped, InputsPending, OneWorker, InputsClosed, AnswersShown
<1>5. CASE AnswerConfirmation
  <2>1. /\ inputs' = Answering(inputs, terminal.typed = "yes") /\ UNCHANGED worker
        /\ told' = [told EXCEPT !.yes = IF terminal.typed = "yes"
                                        THEN told.yes \cup {terminal.shown} ELSE told.yes]
        /\ Goes("loop") /\ terminal.at = "answer"
    BY <1>5 DEF AnswerConfirmation
  <2>2. /\ inputs' \in QueueType
        /\ inputs'.confirmation = NoRequest /\ inputs'.closing = inputs.closing
        /\ inputs'.busy = inputs.busy
        /\ inputs'.answered \subseteq inputs.answered \cup {inputs.confirmation}
        /\ inputs.confirmation # NoRequest => inputs.confirmation \in inputs'.answered
        /\ inputs.answered \subseteq inputs'.answered
        /\ inputs'.accepted \subseteq inputs.accepted \cup {inputs.confirmation}
        /\ terminal.typed # "yes" => inputs'.accepted = inputs.accepted
    BY <1>1, <2>1, AnsweringFields
  <2>3. terminal' \in TerminalType /\ terminal'.at = "loop"
    BY <1>2, <2>1 DEF TerminalPlaces
  <2>4. /\ told' \in ToldType /\ told'.granted = told.granted
        /\ told'.uiFailed = told.uiFailed /\ told'.asked = told.asked
        /\ told.yes \subseteq told'.yes
        /\ terminal.typed = "yes" => terminal.shown \in told'.yes
    BY <1>1, <2>1 DEF ToldType, TerminalType
  <2>5. QueueTyped'
    BY <1>1, <2>1, <2>2, <2>3, <2>4 DEF QueueTyped
  <2>6. InputsPending'
    BY <1>1, <2>1, <2>2, <2>4 DEF InputsPending, NoRequest, ToldType
  <2>7. AnswersShown'
    BY <1>1, <2>1, <2>2, <2>3, <2>4 DEF AnswersShown
  <2> QED BY <1>1, <2>1, <2>2, <2>3, <2>5, <2>6, <2>7 DEF QueueInv, OneWorker, InputsClosed
<1>6. CASE Submit
  <2>1. UNCHANGED worker
    BY <1>6 DEF Submit
  <2>2. told.submitted + 1 \in Nat
    BY <1>1 DEF ToldType
  <2>3. CASE Goes("loop") /\ UNCHANGED <<inputs, told>>
    BY <1>1, <1>2, <2>1, <2>3, TerminalKeeps DEF TerminalPlaces
  <2>4. CASE /\ inputs' = [inputs EXCEPT !.pending = Append(inputs.pending, told.submitted + 1)]
             /\ told' = [told EXCEPT !.submitted = told.submitted + 1] /\ Goes("loop")
    <3>1. /\ inputs' \in QueueType
          /\ inputs'.confirmation = inputs.confirmation /\ inputs'.closing = inputs.closing
          /\ inputs'.busy = inputs.busy /\ inputs'.answered = inputs.answered
          /\ inputs'.accepted = inputs.accepted
      <4>1. Append(inputs.pending, told.submitted + 1) \in Seq(Nat)
        BY <1>1, <2>2 DEF QueueType
      <4> QED BY <1>1, <2>4, <4>1 DEF QueueType
    <3>2. /\ told' \in ToldType /\ told'.yes = told.yes /\ told'.granted = told.granted
          /\ told'.uiFailed = told.uiFailed /\ told'.asked = told.asked
      BY <1>1, <2>2, <2>4 DEF ToldType
    <3>3. terminal' \in TerminalType /\ terminal'.at = "loop"
      BY <1>2, <2>4 DEF TerminalPlaces
    <3> QED BY <1>1, <2>1, <3>1, <3>2, <3>3 DEF QueueInv, QueueTyped, InputsPending, OneWorker, InputsClosed, AnswersShown
  <2>5. CASE /\ inputs' = [inputs EXCEPT !.busy = TRUE] /\ ~inputs.busy
             /\ told' = [told EXCEPT !.submitted = told.submitted + 1] /\ Goes("starting")
    <3>1. /\ inputs' \in QueueType
          /\ inputs'.confirmation = inputs.confirmation /\ inputs'.closing = inputs.closing
          /\ inputs'.busy /\ inputs'.answered = inputs.answered
          /\ inputs'.accepted = inputs.accepted
      BY <1>1, <2>5 DEF QueueType
    <3>2. /\ told' \in ToldType /\ told'.yes = told.yes /\ told'.granted = told.granted
          /\ told'.uiFailed = told.uiFailed /\ told'.asked = told.asked
      BY <1>1, <2>2, <2>5 DEF ToldType
    <3>3. terminal' \in TerminalType /\ terminal'.at = "starting"
      BY <1>2, <2>5 DEF TerminalPlaces
    <3>4. worker.at = "none"
      BY <1>1, <2>5 DEF OneWorker
    <3> QED BY <1>1, <2>1, <3>1, <3>2, <3>3, <3>4 DEF QueueInv, QueueTyped, InputsPending, OneWorker, InputsClosed, AnswersShown
  <2> QED BY <1>6, <2>3, <2>4, <2>5 DEF Submit, SubmitResult
<1>7. CASE StartWorker
  <2>1. terminal.at = "starting" /\ inputs.busy /\ worker.at = "none" /\ inputs.confirmation = NoRequest
    BY <1>1, <1>7 DEF StartWorker, OneWorker, InputsPending, Asking
  <2>2. CASE /\ worker' = [Free EXCEPT !.at = "start", !.input = told.submitted]
             /\ told' = [told EXCEPT !.taken = Append(told.taken, told.submitted)]
             /\ Goes("loop") /\ UNCHANGED inputs
    <3>1. worker' \in WorkerType /\ worker'.at = "start"
      BY <1>1, <2>2 DEF Free, WorkerType, WorkerPlaces, NoRequest, ToldType
    <3>2. /\ told' \in ToldType /\ told'.yes = told.yes /\ told'.granted = told.granted
          /\ told'.uiFailed = told.uiFailed /\ told'.asked = told.asked
      <4>1. Append(told.taken, told.submitted) \in Seq(Nat)
        BY <1>1 DEF ToldType
      <4> QED BY <1>1, <2>2, <4>1 DEF ToldType
    <3>3. terminal' \in TerminalType /\ terminal'.at = "loop"
      BY <1>2, <2>2 DEF TerminalPlaces
    <3> QED BY <1>1, <2>1, <2>2, <3>1, <3>2, <3>3 DEF QueueInv, QueueTyped, InputsPending, OneWorker, InputsClosed, AnswersShown, Asking
  <2>3. CASE /\ inputs' = [inputs EXCEPT !.busy = FALSE]
             /\ told' = [told EXCEPT !.dropped = told.dropped \cup {told.submitted}]
             /\ Goes("closing") /\ UNCHANGED worker
    <3>1. /\ inputs' \in QueueType
          /\ inputs'.confirmation = inputs.confirmation /\ inputs'.closing = inputs.closing
          /\ inputs'.answered = inputs.answered /\ inputs'.accepted = inputs.accepted
      BY <1>1, <2>3 DEF QueueType
    <3>2. /\ told' \in ToldType /\ told'.yes = told.yes /\ told'.granted = told.granted
          /\ told'.uiFailed = told.uiFailed /\ told'.asked = told.asked
      BY <1>1, <2>3 DEF ToldType
    <3>3. terminal' \in TerminalType /\ terminal'.at = "closing"
      BY <1>2, <2>3 DEF TerminalPlaces
    <3> QED BY <1>1, <2>1, <2>3, <3>1, <3>2, <3>3 DEF QueueInv, QueueTyped, InputsPending, OneWorker, InputsClosed, AnswersShown
  <2> QED BY <1>7, <2>2, <2>3 DEF StartWorker
<1>8. CASE CloseQueue
  <2> DEFINE q == Answering(inputs, FALSE)
  <2>1. /\ inputs' = [q EXCEPT !.closing = TRUE, !.pending = << >>]
        /\ Dropping /\ Goes("wait") /\ UNCHANGED worker
    BY <1>8 DEF CloseQueue
  <2>2. /\ q \in QueueType
        /\ q.confirmation = NoRequest /\ q.busy = inputs.busy
        /\ q.answered \subseteq inputs.answered \cup {inputs.confirmation}
        /\ inputs.confirmation # NoRequest => inputs.confirmation \in q.answered
        /\ inputs.answered \subseteq q.answered
        /\ q.accepted = inputs.accepted
    BY <1>1, AnsweringFields
  <2> HIDE DEF q
  <2>3. /\ inputs' \in QueueType
        /\ inputs'.confirmation = q.confirmation /\ inputs'.closing
        /\ inputs'.busy = q.busy /\ inputs'.answered = q.answered
        /\ inputs'.accepted = q.accepted
    <3> DEFINE empty == << >>
               new == [q EXCEPT !.closing = TRUE, !.pending = empty]
    <3>1. empty \in Seq(Nat)
      OBVIOUS
    <3>2. inputs' = new
      BY <2>1
    <3> HIDE DEF empty
    <3>3. new \in QueueType
      BY <2>2, <3>1 DEF QueueType
    <3>4. /\ new.confirmation = q.confirmation /\ new.closing
          /\ new.busy = q.busy /\ new.answered = q.answered
          /\ new.accepted = q.accepted
      BY <2>2 DEF QueueType
    <3> QED BY <3>2, <3>3, <3>4
  <2>4. terminal' \in TerminalType /\ terminal'.at = "wait"
    BY <1>2, <2>1 DEF TerminalPlaces
  <2>5. /\ told' \in ToldType /\ told'.yes = told.yes /\ told'.granted = told.granted
        /\ told'.uiFailed = told.uiFailed /\ told'.asked = told.asked
    BY <1>1, <2>1, DroppingFields
  <2>6. InputsPending'
    BY <1>1, <2>1, <2>2, <2>3, <2>5 DEF InputsPending, NoRequest, ToldType
  <2> QED BY <1>1, <2>1, <2>2, <2>3, <2>4, <2>5, <2>6 DEF QueueInv, QueueTyped, OneWorker, InputsClosed, AnswersShown
<1> QED BY <1>3, <1>4, <1>5, <1>6, <1>7, <1>8

\* The worker moves on without touching the queue or what was granted.
LEMMA WorkerKeeps ==
    ASSUME QueueInv, UNCHANGED inputs, worker.at # "none",
           worker' \in WorkerType, worker'.at # "none",
           worker'.at \in Asking => worker.at \in Asking /\ worker'.request = worker.request,
           inputs.confirmation # NoRequest => worker'.at \in Asking,
           told' \in ToldType, told'.yes = told.yes, told'.granted = told.granted,
           told'.asked = told.asked, told.uiFailed => told'.uiFailed,
           worker'.at = "refuse" => told'.uiFailed,
           terminal' \in TerminalType, terminal'.at = terminal.at, terminal'.shown = terminal.shown
    PROVE  QueueInv'
BY DEF QueueInv, QueueTyped, InputsPending, OneWorker, InputsClosed, AnswersShown

\* A prompt that is woken stays where it is.
LEMMA WakesFields ==
    ASSUME terminal \in TerminalType, Wakes \/ UNCHANGED terminal
    PROVE  terminal' \in TerminalType /\ terminal'.at = terminal.at /\ terminal'.shown = terminal.shown
BY DEF Wakes, TerminalType

\* The steps of the worker that only move it keep the invariant.
LEMMA WorkerMoves ==
    ASSUME QueueInv, TurnStarts \/ RequestShown \/ PromptWoken \/ TurnEnds
    PROVE  QueueInv'
<1>1. /\ QueueTyped /\ InputsPending /\ terminal \in TerminalType /\ worker \in WorkerType /\ told \in ToldType
      /\ UNCHANGED inputs /\ worker.at # "none"
  BY DEF QueueInv, QueueTyped, TurnStarts, RequestShown, PromptWoken, TurnEnds
<1>2. ASSUME NEW place \in {"turn", "finish", "next"}, Works(place), UNCHANGED <<terminal, told>>,
             worker.at \in {"start", "turn"}
      PROVE  QueueInv'
  <2>1. worker' \in WorkerType /\ worker'.at = place
    BY <1>1, <1>2, WorksFields DEF WorkerPlaces
  <2>2. inputs.confirmation = NoRequest
    BY <1>1, <1>2 DEF InputsPending, Asking
  <2> QED BY <1>1, <1>2, <2>1, <2>2, WorkerKeeps DEF Asking
<1>3. ASSUME NEW place \in {"wake", "answer"}, UiCall(place), worker.at \in {"ready", "wake"},
             terminal' \in TerminalType, terminal'.at = terminal.at, terminal'.shown = terminal.shown
      PROVE  QueueInv'
  <2>1. CASE Works(place) /\ UNCHANGED told
    <3>1. worker' \in WorkerType /\ worker'.at = place /\ worker'.request = worker.request
      BY <1>1, <2>1, WorksFields DEF WorkerPlaces, Asking
    <3> QED BY <1>1, <1>3, <2>1, <3>1, WorkerKeeps DEF Asking
  <2>2. CASE Works("refuse") /\ told' = [told EXCEPT !.uiFailed = TRUE]
    <3>1. worker' \in WorkerType /\ worker'.at = "refuse" /\ worker'.request = worker.request
      BY <1>1, <2>2, WorksFields DEF WorkerPlaces, Asking
    <3>2. /\ told' \in ToldType /\ told'.yes = told.yes /\ told'.granted = told.granted
          /\ told'.asked = told.asked /\ told'.uiFailed
      BY <1>1, <2>2 DEF ToldType
    <3> QED BY <1>1, <1>3, <3>1, <3>2, WorkerKeeps DEF Asking
  <2> QED BY <1>3, <2>1, <2>2 DEF UiCall
<1>4. CASE TurnStarts
  BY <1>2, <1>4 DEF TurnStarts
<1>5. CASE TurnEnds
  BY <1>2, <1>5 DEF TurnEnds
<1>6. CASE RequestShown
  BY <1>1, <1>3, <1>6 DEF RequestShown
<1>7. CASE PromptWoken
  <2>1. UiCall("answer") /\ worker.at = "wake" /\ (Wakes \/ UNCHANGED terminal)
    BY <1>7 DEF PromptWoken
  <2> QED BY <1>1, <1>3, <2>1, WakesFields
<1> QED BY <1>4, <1>5, <1>6, <1>7

\* The worker asks, hears, takes the next input or leaves.
LEMMA WorkerWrites ==
    ASSUME QueueInv, Confirm \/ RefuseUnshown \/ Confirmed \/ TakeNext \/ FinishInput
    PROVE  QueueInv'
<1>1. /\ QueueTyped /\ InputsPending /\ OneWorker /\ InputsClosed /\ AnswersShown
      /\ inputs \in QueueType /\ worker \in WorkerType /\ terminal \in TerminalType /\ told \in ToldType
      /\ worker.at # "none" /\ terminal.at # "starting"
  BY DEF QueueInv, QueueTyped, OneWorker, Confirm, RefuseUnshown, Confirmed, TakeNext, FinishInput
<1>2. CASE Confirm
  <2>1. told.asked \in Nat /\ inputs.confirmation = NoRequest /\ UNCHANGED terminal
    BY <1>1, <1>2 DEF Confirm, ToldType, InputsPending, Asking
  <2>2. told' = [told EXCEPT !.asked = told.asked + 1]
    BY <1>2 DEF Confirm
  <2>3. /\ told' \in ToldType /\ told'.yes = told.yes /\ told'.granted = told.granted
        /\ told'.uiFailed = told.uiFailed /\ told'.asked = told.asked + 1
    <3> DEFINE n == told.asked + 1
    <3>1. n \in Nat
      BY <2>1
    <3>2. told' = [told EXCEPT !.asked = n]
      BY <2>2
    <3> HIDE DEF n
    <3>3. /\ told' \in ToldType /\ told'.yes = told.yes /\ told'.granted = told.granted
          /\ told'.uiFailed = told.uiFailed /\ told'.asked = n
      BY <1>1, <3>1, <3>2 DEF ToldType
    <3> QED BY <3>3 DEF n
  <2>4. CASE UNCHANGED <<inputs, worker>>
    <3>1. \A q \in Nat : q <= told.asked => q <= told.asked + 1
      BY <2>1
    <3>2. inputs.confirmation \in Nat /\ inputs.answered \subseteq Nat
      BY <1>1 DEF QueueType
    <3>3. InputsPending'
      BY <1>1, <2>1, <2>3, <2>4, <3>1, <3>2 DEF InputsPending
    <3> QED BY <1>1, <2>1, <2>3, <2>4, <3>3 DEF QueueInv, QueueTyped, OneWorker, InputsClosed, AnswersShown
  <2>5. CASE /\ ~inputs.closing /\ inputs' = [inputs EXCEPT !.confirmation = told'.asked]
             /\ worker' = [worker EXCEPT !.at = "ready", !.request = told'.asked]
    <3>1. /\ inputs' \in QueueType /\ inputs'.confirmation = told.asked + 1
          /\ inputs'.closing = inputs.closing /\ inputs'.busy = inputs.busy
          /\ inputs'.answered = inputs.answered /\ inputs'.accepted = inputs.accepted
      BY <1>1, <2>1, <2>3, <2>5, SMTT(30) DEF QueueType
    <3>2. worker' \in WorkerType /\ worker'.at = "ready" /\ worker'.request = told.asked + 1
      <4>1. told'.asked \in Nat
        BY <2>3 DEF ToldType
      <4> QED BY <1>1, <2>3, <2>5, <4>1 DEF WorkerType, WorkerPlaces, Asking
    <3>3. told.asked + 1 # NoRequest /\ told.asked + 1 \notin inputs.answered
          /\ \A q \in inputs.answered : q <= told.asked + 1
      BY <1>1, <2>1 DEF InputsPending, NoRequest, QueueType
    <3>4. InputsPending'
      BY <2>1, <2>3, <3>1, <3>2, <3>3 DEF InputsPending, Asking
    <3>5. InputsClosed' /\ OneWorker'
      BY <1>1, <2>1, <2>5, <3>1, <3>2 DEF InputsClosed, OneWorker
    <3>6. AnswersShown'
      BY <1>1, <2>1, <2>3, <3>1, <3>2 DEF AnswersShown
    <3> QED BY <1>1, <2>1, <2>3, <3>1, <3>2, <3>4, <3>5, <3>6 DEF QueueInv, QueueTyped
  <2> QED BY <1>2, <2>1, <2>4, <2>5 DEF Confirm
<1>3. CASE RefuseUnshown
  <2>1. inputs' = Answering(inputs, FALSE) /\ Works("turn")
    BY <1>3 DEF RefuseUnshown
  <2>2. terminal' = terminal /\ told' = told /\ worker.at = "refuse" /\ told.asked \in Nat
    BY <1>1, <1>3 DEF RefuseUnshown, ToldType
  <2>3. /\ inputs' \in QueueType
        /\ inputs'.confirmation = NoRequest /\ inputs'.closing = inputs.closing
        /\ inputs'.busy = inputs.busy
        /\ inputs'.answered \subseteq inputs.answered \cup {inputs.confirmation}
        /\ inputs'.accepted = inputs.accepted
    BY <1>1, <2>1, AnsweringFields
  <2>4. worker' \in WorkerType /\ worker'.at = "turn"
    BY <1>1, <2>1, WorksFields DEF WorkerPlaces
  <2>5. told.uiFailed
    BY <1>1, <2>2 DEF AnswersShown
  <2>6. InputsPending'
    BY <1>1, <2>2, <2>3, <2>4 DEF InputsPending, NoRequest, Asking
  <2> QED BY <1>1, <2>2, <2>3, <2>4, <2>5, <2>6 DEF QueueInv, QueueTyped, OneWorker, InputsClosed, AnswersShown
<1>4. CASE Confirmed
  <2>1. /\ Works("turn") /\ worker.request \in inputs.answered /\ worker.at = "answer"
        /\ inputs' = inputs /\ terminal' = terminal
    BY <1>4 DEF Confirmed
  <2>2. told' = [told EXCEPT !.granted = IF worker.request \in inputs.accepted
                                         THEN told.granted \cup {worker.request} ELSE told.granted]
    BY <1>4 DEF Confirmed
  <2>3. /\ told' \in ToldType /\ told'.yes = told.yes /\ told'.asked = told.asked
        /\ told'.uiFailed = told.uiFailed
        /\ told'.granted \subseteq told.granted \cup inputs.accepted
    <3>1. worker.request \in Nat
      BY <1>1 DEF WorkerType
    <3> QED BY <1>1, <2>2, <3>1 DEF ToldType
  <2>4. worker' \in WorkerType /\ worker'.at = "turn"
    BY <1>1, <2>1, WorksFields DEF WorkerPlaces
  <2>5. inputs.confirmation = NoRequest
    BY <1>1, <2>1 DEF InputsPending, Asking
  <2>6. InputsPending'
    BY <1>1, <2>1, <2>3, <2>4, <2>5 DEF InputsPending, Asking
  <2>7. AnswersShown'
    BY <1>1, <2>1, <2>3, <2>4 DEF AnswersShown
  <2> QED BY <1>1, <2>1, <2>3, <2>4, <2>6, <2>7 DEF QueueInv, QueueTyped, OneWorker, InputsClosed
<1>5. CASE TakeNext
  <2>1. inputs.confirmation = NoRequest /\ UNCHANGED terminal
    BY <1>1, <1>5 DEF TakeNext, InputsPending, Asking
  <2>2. CASE /\ inputs.pending # << >>
             /\ inputs' = [inputs EXCEPT !.pending = Tail(inputs.pending)]
             /\ worker' = [Free EXCEPT !.at = "start", !.input = Head(inputs.pending)]
             /\ told' = [told EXCEPT !.taken = Append(told.taken, Head(inputs.pending))]
    <3>1. Head(inputs.pending) \in Nat /\ Tail(inputs.pending) \in Seq(Nat)
      BY <1>1, <2>2 DEF QueueType
    <3>2. /\ inputs' \in QueueType
          /\ inputs'.confirmation = inputs.confirmation /\ inputs'.closing = inputs.closing
          /\ inputs'.busy = inputs.busy /\ inputs'.answered = inputs.answered
          /\ inputs'.accepted = inputs.accepted
      BY <1>1, <2>2, <3>1 DEF QueueType
    <3>3. worker' \in WorkerType /\ worker'.at = "start"
      BY <2>2, <3>1 DEF Free, WorkerType, WorkerPlaces, NoRequest
    <3>4. /\ told' \in ToldType /\ told'.yes = told.yes /\ told'.granted = told.granted
          /\ told'.uiFailed = told.uiFailed /\ told'.asked = told.asked
      <4>1. Append(told.taken, Head(inputs.pending)) \in Seq(Nat)
        BY <1>1, <3>1 DEF ToldType
      <4> QED BY <1>1, <2>2, <4>1 DEF ToldType
    <3> QED BY <1>1, <2>1, <3>2, <3>3, <3>4 DEF QueueInv, QueueTyped, InputsPending, OneWorker, InputsClosed, AnswersShown, Asking
  <2>3. CASE inputs' = [inputs EXCEPT !.busy = FALSE] /\ worker' = Free /\ UNCHANGED told
    <3>1. /\ inputs' \in QueueType
          /\ inputs'.confirmation = inputs.confirmation /\ inputs'.closing = inputs.closing
          /\ inputs'.answered = inputs.answered /\ inputs'.accepted = inputs.accepted
      BY <1>1, <2>3 DEF QueueType
    <3>2. worker' \in WorkerType /\ worker'.at = "none"
      BY <2>3 DEF Free, WorkerType, WorkerPlaces, NoRequest
    <3> QED BY <1>1, <2>1, <2>3, <3>1, <3>2 DEF QueueInv, QueueTyped, InputsPending, OneWorker, InputsClosed, AnswersShown, Asking
  <2> QED BY <1>5, <2>2, <2>3 DEF TakeNext
<1>6. CASE FinishInput
  <2>1. /\ inputs' = [inputs EXCEPT !.terminal = TRUE, !.pending = << >>, !.busy = FALSE]
        /\ Dropping /\ worker' = Free /\ (Wakes \/ UNCHANGED terminal)
        /\ inputs.confirmation = NoRequest
    BY <1>1, <1>6 DEF FinishInput, InputsPending, Asking
  <2>2. /\ inputs' \in QueueType
        /\ inputs'.confirmation = inputs.confirmation /\ inputs'.closing = inputs.closing
        /\ inputs'.answered = inputs.answered /\ inputs'.accepted = inputs.accepted
    <3> DEFINE empty == << >>
               new == [inputs EXCEPT !.terminal = TRUE, !.pending = empty, !.busy = FALSE]
    <3>1. empty \in Seq(Nat)
      OBVIOUS
    <3>2. inputs' = new
      BY <2>1
    <3> HIDE DEF empty
    <3>3. new \in QueueType
      BY <1>1, <3>1 DEF QueueType
    <3>4. /\ new.confirmation = inputs.confirmation /\ new.closing = inputs.closing
          /\ new.answered = inputs.answered /\ new.accepted = inputs.accepted
      BY <1>1 DEF QueueType
    <3> QED BY <3>2, <3>3, <3>4
  <2>3. worker' \in WorkerType /\ worker'.at = "none"
    BY <2>1 DEF Free, WorkerType, WorkerPlaces, NoRequest
  <2>4. /\ told' \in ToldType /\ told'.yes = told.yes /\ told'.granted = told.granted
        /\ told'.uiFailed = told.uiFailed /\ told'.asked = told.asked
    BY <1>1, <2>1, DroppingFields
  <2>5. terminal' \in TerminalType /\ terminal'.at = terminal.at /\ terminal'.shown = terminal.shown
    BY <1>1, <2>1, WakesFields
  <2> QED BY <1>1, <2>1, <2>2, <2>3, <2>4, <2>5 DEF QueueInv, QueueTyped, InputsPending, OneWorker, InputsClosed, AnswersShown, Asking
<1> QED BY <1>2, <1>3, <1>4, <1>5, <1>6

\* Every step keeps the invariant.
LEMMA QueueInvNext ==
    ASSUME QueueInv, [InputNext]_inputVars
    PROVE  QueueInv'
<1>1. CASE UNCHANGED inputVars
  BY <1>1 DEF inputVars, QueueInv, QueueTyped, InputsPending, OneWorker, InputsClosed, AnswersShown
<1>2. CASE TerminalNext
  BY <1>2, TerminalMoves, TerminalWrites DEF TerminalNext
<1>3. CASE WorkerNext
  BY <1>3, WorkerMoves, WorkerWrites DEF WorkerNext
<1> QED BY <1>1, <1>2, <1>3 DEF InputNext

\* It says what the run checks of confirmations.
LEMMA QueueInvSafe == QueueInv => NobodyWaitsClosed /\ GrantedAsShown
  BY DEF QueueInv, InputsPending, InputsClosed, AnswersShown, Asking, NobodyWaitsClosed, GrantedAsShown

\* Closing never meets a turn that waits for an answer, and an operation goes
\* ahead only after a yes to the request that was on the screen, for any number
\* of inputs and requests (InputQueue.confirm, answer, close).
THEOREM ConfirmationsAreSafe == InputSpec => [](NobodyWaitsClosed /\ GrantedAsShown)
<1> QED BY QueueInvSafe, QueueInvInit, QueueInvNext, PTL DEF InputSpec

-----------------------------------------------------------------------------
(* Every input is taken in order, dropped, or has a worker.                 *)

\* What becomes of the inputs 1..n: they are kept, in this order, or were
\* dropped; the last one may still be open, its worker being started.
Account(kept, dropped, n, open) ==
    /\ \A i, j \in 1..Len(kept) : i < j => kept[i] < kept[j]
    /\ \A i \in 1..Len(kept) : kept[i] \in 1..n /\ kept[i] \notin dropped /\ (open => kept[i] # n)
    /\ dropped \subseteq 1..n
    /\ open => n > 0 /\ n \notin dropped
    /\ \A m \in 1..n : m \in dropped \/ (open /\ m = n) \/ \E i \in 1..Len(kept) : kept[i] = m

InputsInv ==
    /\ Account(told.taken \o inputs.pending, told.dropped, told.submitted, terminal.at = "starting")
    /\ terminal.at = "starting" \/ inputs.closing => inputs.pending = << >>
    /\ inputs.pending # << >> => inputs.busy

\* The next input is open,
LEMMA AccountOpens ==
    ASSUME NEW kept \in Seq(Nat), NEW dropped, NEW n \in Nat, Account(kept, dropped, n, FALSE)
    PROVE  Account(kept, dropped, n + 1, TRUE)
<1>1. \A i \in 1..Len(kept) : kept[i] \in 1..n
  BY DEF Account
<1>2. \A m \in 1..n : m \in 1..(n + 1) /\ m # n + 1
  OBVIOUS
<1>3. \A m \in 1..(n + 1) : m \in 1..n \/ m = n + 1
  OBVIOUS
<1>4. n + 1 > 0 /\ n + 1 \notin 1..n
  OBVIOUS
<1> QED BY <1>1, <1>2, <1>3, <1>4 DEF Account

\* and kept,
LEMMA AccountKeeps ==
    ASSUME NEW kept \in Seq(Nat), NEW dropped, NEW n \in Nat, Account(kept, dropped, n, TRUE)
    PROVE  Account(Append(kept, n), dropped, n, FALSE)
<1> DEFINE new == Append(kept, n)
<1>1. /\ Len(new) = Len(kept) + 1 /\ Len(kept) \in Nat
      /\ new[Len(kept) + 1] = n
      /\ \A i \in 1..Len(kept) : new[i] = kept[i]
  OBVIOUS
<1>2. \A i \in 1..Len(new) : i \in 1..Len(kept) \/ i = Len(kept) + 1
  BY <1>1
<1>3. \A i \in 1..Len(kept) : i \in 1..Len(new)
  BY <1>1
<1>4. \A i \in 1..Len(kept) : kept[i] \in 1..n /\ kept[i] # n /\ kept[i] < n
  BY DEF Account
<1>5. n \in 1..n /\ n \notin dropped /\ Len(kept) + 1 \in 1..Len(new)
  BY <1>1 DEF Account
<1> HIDE DEF new
<1>6. \A i, j \in 1..Len(new) : i < j => new[i] < new[j]
  BY <1>1, <1>2, <1>4 DEF Account
<1>7. \A i \in 1..Len(new) : new[i] \in 1..n /\ new[i] \notin dropped
  BY <1>1, <1>2, <1>4, <1>5 DEF Account
<1>8. \A m \in 1..n : m \in dropped \/ \E i \in 1..Len(new) : new[i] = m
  BY <1>1, <1>3, <1>5 DEF Account
<1>9. Account(new, dropped, n, FALSE)
  BY <1>6, <1>7, <1>8 DEF Account
<1> QED BY <1>9 DEF new

\* or dropped;
LEMMA AccountGivesUp ==
    ASSUME NEW kept \in Seq(Nat), NEW dropped, NEW n \in Nat, Account(kept, dropped, n, TRUE)
    PROVE  Account(kept, dropped \cup {n}, n, FALSE)
<1>1. n \in 1..n
  BY DEF Account
<1> QED BY <1>1 DEF Account

\* and what waits can be dropped as a whole.
LEMMA AccountForgets ==
    ASSUME NEW taken \in Seq(Nat), NEW pending \in Seq(Nat), NEW dropped, NEW n \in Nat,
           Account(taken \o pending, dropped, n, FALSE)
    PROVE  Account(taken, dropped \cup ToSet(pending), n, FALSE)
<1> DEFINE kept == taken \o pending
<1>1. /\ kept \in Seq(Nat) /\ Len(kept) = Len(taken) + Len(pending)
      /\ Len(taken) \in Nat /\ Len(pending) \in Nat
      /\ \A i \in 1..Len(taken) : i \in 1..Len(kept) /\ kept[i] = taken[i]
      /\ \A i \in 1..Len(pending) : Len(taken) + i \in 1..Len(kept) /\ kept[Len(taken) + i] = pending[i]
  BY ConcatProperties, LenProperties
<1>2. ToSet(pending) = {pending[i] : i \in 1..Len(pending)}
  BY LenProperties DEF ToSet
<1>3. Account(kept, dropped, n, FALSE)
  OBVIOUS
<1>4. \A i \in 1..Len(kept) : i \in 1..Len(taken) \/ \E j \in 1..Len(pending) : i = Len(taken) + j
  <2> SUFFICES ASSUME NEW i \in 1..Len(kept), i \notin 1..Len(taken)
               PROVE  \E j \in 1..Len(pending) : i = Len(taken) + j
    OBVIOUS
  <2>1. i - Len(taken) \in 1..Len(pending) /\ i = Len(taken) + (i - Len(taken))
    BY <1>1
  <2> QED BY <2>1
<1>5. \A i \in 1..Len(taken), j \in 1..Len(pending) : i < Len(taken) + j
  BY <1>1
<1>6. \A i \in 1..Len(taken), j \in 1..Len(pending) : taken[i] # pending[j]
  <2> TAKE i \in 1..Len(taken), j \in 1..Len(pending)
  <2>1. kept[i] < kept[Len(taken) + j] /\ kept[i] \in Nat /\ kept[Len(taken) + j] \in Nat
    BY <1>1, <1>3, <1>5, ElementOfSeq DEF Account
  <2> QED BY <1>1, <2>1
<1> HIDE DEF kept
<1>7. \A i, j \in 1..Len(taken) : i < j => taken[i] < taken[j]
  BY <1>1, <1>3 DEF Account
<1>8. \A i \in 1..Len(taken) : taken[i] \in 1..n /\ taken[i] \notin dropped \cup ToSet(pending)
  BY <1>1, <1>2, <1>3, <1>6 DEF Account
<1>9. dropped \cup ToSet(pending) \subseteq 1..n
  <2>1. \A j \in 1..Len(pending) : pending[j] \in 1..n
    BY <1>1, <1>3 DEF Account
  <2> QED BY <1>2, <1>3, <2>1 DEF Account
<1>10. ASSUME NEW m \in 1..n, m \notin dropped, m \notin ToSet(pending)
       PROVE  \E i \in 1..Len(taken) : taken[i] = m
  <2>1. PICK i \in 1..Len(kept) : kept[i] = m
    BY <1>3, <1>10 DEF Account
  <2>2. ASSUME NEW j \in 1..Len(pending) PROVE i # Len(taken) + j
    BY <1>1, <1>2, <1>10, <2>1, <2>2
  <2>3. i \in 1..Len(taken)
    BY <1>4, <2>2
  <2> QED BY <1>1, <2>1, <2>3
<1> QED BY <1>7, <1>8, <1>9, <1>10 DEF Account

\* How the two sequences follow each other.
LEMMA KeptSequences ==
    ASSUME NEW taken \in Seq(Nat), NEW pending \in Seq(Nat), NEW n \in Nat
    PROVE  /\ taken \o pending \in Seq(Nat) /\ taken \o << >> = taken
           /\ taken \o Append(pending, n) = Append(taken \o pending, n)
           /\ pending # << >> => Append(taken, Head(pending)) \o Tail(pending) = taken \o pending
<1>1. taken \o pending \in Seq(Nat) /\ taken \o << >> = taken
  BY ConcatProperties, ConcatEmptySeq
<1>2. taken \o Append(pending, n) = Append(taken \o pending, n)
  <2>1. Append(pending, n) \in Seq(Nat)
    OBVIOUS
  <2>2. taken \o Append(pending, n) \in Seq(Nat) /\ Append(taken \o pending, n) \in Seq(Nat)
    BY <1>1, <2>1, ConcatProperties
  <2> QED BY <1>1, <2>1, <2>2, ConcatProperties, SeqEqual
<1>3. ASSUME pending # << >>
      PROVE  Append(taken, Head(pending)) \o Tail(pending) = taken \o pending
  <2>1. /\ Head(pending) \in Nat /\ Tail(pending) \in Seq(Nat) /\ Head(pending) = pending[1]
        /\ Len(Tail(pending)) = Len(pending) - 1 /\ Len(pending) \in Nat /\ Len(taken) \in Nat
        /\ \A i \in 1..Len(Tail(pending)) : Tail(pending)[i] = pending[i + 1]
    BY <1>3, HeadTailProperties, LenProperties
  <2> DEFINE more == Append(taken, Head(pending))
             rest == Tail(pending)
  <2>2. /\ more \in Seq(Nat) /\ Len(more) = Len(taken) + 1 /\ more[Len(taken) + 1] = pending[1]
        /\ \A i \in 1..Len(taken) : more[i] = taken[i]
    BY <2>1
  <2>3. rest \in Seq(Nat) /\ Len(rest) = Len(pending) - 1
        /\ \A i \in 1..Len(rest) : rest[i] = pending[i + 1]
    BY <2>1
  <2> HIDE DEF more, rest
  <2>4. /\ more \o rest \in Seq(Nat) /\ Len(more \o rest) = Len(taken) + Len(pending)
        /\ Len(taken \o pending) = Len(taken) + Len(pending)
    <3>1. more \o rest \in Seq(Nat) /\ Len(more \o rest) = Len(more) + Len(rest)
      BY <2>2, <2>3, ConcatProperties
    <3>2. Len(more) + Len(rest) = Len(taken) + Len(pending)
      BY <2>1, <2>2, <2>3
    <3>3. Len(taken \o pending) = Len(taken) + Len(pending)
      BY ConcatProperties
    <3> QED BY <3>1, <3>2, <3>3
  <2>5. ASSUME NEW i \in 1..Len(more \o rest)
        PROVE  (more \o rest)[i] = (taken \o pending)[i]
    <3>1. (more \o rest)[i] = IF i <= Len(more) THEN more[i] ELSE rest[i - Len(more)]
      BY <2>2, <2>3, <2>4, <2>1, ConcatProperties, SMTT(30)
    <3>2. (taken \o pending)[i] = IF i <= Len(taken) THEN taken[i] ELSE pending[i - Len(taken)]
      BY <2>4, ConcatProperties
    <3>3. CASE i <= Len(taken)
      BY <2>1, <2>2, <3>1, <3>2, <3>3, SMTT(30)
    <3>4. CASE i = Len(taken) + 1
      BY <2>1, <2>2, <3>1, <3>2, <3>4
    <3>5. CASE i > Len(taken) + 1
      <4>1. i \in 1..(Len(taken) + Len(pending))
        BY <2>4
      <4>2. i - Len(more) \in 1..Len(rest) /\ (i - Len(more)) + 1 = i - Len(taken)
            /\ ~(i <= Len(more)) /\ ~(i <= Len(taken))
        BY <2>1, <2>2, <2>3, <3>5, <4>1, SMTT(30)
      <4>3. rest[i - Len(more)] = pending[(i - Len(more)) + 1]
        BY <2>3, <4>2
      <4> QED BY <3>1, <3>2, <4>2, <4>3
    <3>6. i \in Nat
      BY <2>1, <2>4
    <3>7. i <= Len(taken) \/ i = Len(taken) + 1 \/ i > Len(taken) + 1
      BY <2>1, <3>6
    <3> QED BY <3>3, <3>4, <3>5, <3>7
  <2> QED BY <1>1, <2>4, <2>5, SeqEqual DEF more, rest
<1> QED BY <1>1, <1>2, <1>3

\* Nothing was submitted when the interface starts.
LEMMA InputsInvInit == InputInit => InputsInv
<1> SUFFICES ASSUME InputInit PROVE InputsInv
  OBVIOUS
<1>1. /\ inputs.pending = << >> /\ told.taken = << >> /\ told.dropped = {} /\ told.submitted = 0
      /\ terminal.at = "loop"
  <2>1. told = [submitted |-> 0, taken |-> << >>, dropped |-> {}, asked |-> 0,
                yes |-> {}, granted |-> {}, uiFailed |-> FALSE]
        /\ inputs = [pending |-> << >>, busy |-> FALSE, closing |-> FALSE, terminal |-> FALSE,
                     confirmation |-> NoRequest, answered |-> {}, accepted |-> {}]
    BY DEF InputInit
  <2>2. PICK interface \in {"plain", "tui"} :
           terminal = [at |-> "loop", interface |-> interface, typed |-> "",
                       shown |-> NoRequest, woken |-> FALSE, lines |-> 0]
    BY DEF InputInit
  <2> QED BY <2>1, <2>2
<1>2. << >> \o << >> = << >> /\ << >> \in Seq(Nat)
  BY KeptSequences
<1> QED BY <1>1, <1>2 DEF InputsInv, Account

\* Every step accounts for the inputs.
LEMMA InputsInvNext == QueueInv /\ InputsInv /\ [InputNext]_inputVars => InputsInv'
<1> SUFFICES ASSUME QueueInv, InputsInv, [InputNext]_inputVars PROVE InputsInv'
  OBVIOUS
<1>1. /\ inputs \in QueueType /\ worker \in WorkerType /\ terminal \in TerminalType /\ told \in ToldType
      /\ inputs.pending \in Seq(Nat) /\ told.taken \in Seq(Nat) /\ told.submitted \in Nat
      /\ inputs.pending # << >> => inputs.busy
      /\ OneWorker /\ QueueTyped
  BY DEF QueueInv, QueueTyped, QueueType, ToldType, InputsInv
<1> DEFINE taken == told.taken
           pending == inputs.pending
           n == told.submitted
           kept == taken \o pending
           starting == terminal.at = "starting"
<1>2. /\ kept \in Seq(Nat) /\ taken \o << >> = taken
      /\ Account(kept, told.dropped, n, starting)
      /\ starting \/ inputs.closing => pending = << >>
  BY <1>1, KeptSequences DEF InputsInv

\* The four ways the account changes, or does not.
<1>3. ASSUME told'.taken = taken, inputs'.pending = pending, told'.dropped = told.dropped,
             told'.submitted = n, ~starting, terminal'.at # "starting",
             inputs'.closing => inputs.closing, inputs'.busy \/ ~inputs.busy \/ pending = << >>
      PROVE  InputsInv'
  BY <1>1, <1>2, <1>3 DEF InputsInv
<1>4. ASSUME told'.taken = taken, inputs'.pending = << >>, told' .submitted = n, ~starting,
             terminal'.at # "starting", told'.dropped = told.dropped \cup ToSet(pending)
      PROVE  InputsInv'
  <2>1. Account(taken, told.dropped \cup ToSet(pending), n, FALSE)
    BY <1>1, <1>2, <1>4, AccountForgets
  <2> QED BY <1>2, <1>4, <2>1 DEF InputsInv
<1>5. ASSUME NEW place \in TerminalPlaces, Goes(place)
      PROVE  terminal'.at = place
  BY <1>1, <1>5, GoesFields
<1>6. CASE UNCHANGED inputVars
  BY <1>6 DEF inputVars, InputsInv
<1>7. CASE \/ SeeTerminal \/ ShowPrompt \/ EndOfInput \/ InterruptLoop \/ LeavePrompt
           \/ RouteLine \/ JudgeLine \/ CloseReturns
           \/ \E line \in {"yes", "text", "clear", "exit", "local"} : TypeLine(line)
  <2>1. UNCHANGED <<inputs, told>> /\ ~starting
    BY <1>7 DEF SeeTerminal, ShowPrompt, EndOfInput, InterruptLoop, LeavePrompt, RouteLine, JudgeLine,
                CloseReturns, TypeLine
  <2>2. terminal'.at # "starting"
    BY <1>1, <1>7 DEF SeeTerminal, ShowPrompt, EndOfInput, InterruptLoop, LeavePrompt, RouteLine, JudgeLine,
                CloseReturns, TypeLine, Goes, TerminalType
  <2> QED BY <1>3, <2>1, <2>2
<1>8. CASE DenyInterrupted \/ AnswerConfirmation
  <2>1. PICK accepted \in BOOLEAN : inputs' = Answering(inputs, accepted)
    BY <1>8 DEF DenyInterrupted, AnswerConfirmation
  <2>2. /\ inputs'.pending = pending /\ inputs'.closing = inputs.closing /\ inputs'.busy = inputs.busy
    BY <1>1, <2>1 DEF Answering, QueueType
  <2>3. told'.taken = taken /\ told'.dropped = told.dropped /\ told'.submitted = n
    BY <1>1, <1>8 DEF DenyInterrupted, AnswerConfirmation, ToldType
  <2>4. terminal'.at # "starting" /\ ~starting
    BY <1>5, <1>8 DEF DenyInterrupted, AnswerConfirmation, TerminalPlaces
  <2> QED BY <1>3, <2>2, <2>3, <2>4
<1>9. CASE ClearQueue
  <2>1. told'.taken = taken /\ told'.dropped = told.dropped \cup ToSet(pending) /\ told'.submitted = n
    BY <1>1, <1>9 DEF ClearQueue, Dropping, ToldType
  <2>2. inputs'.pending = << >>
    BY <1>1, <1>9 DEF ClearQueue, QueueType
  <2>3. terminal'.at # "starting" /\ ~starting
    BY <1>5, <1>9 DEF ClearQueue, TerminalPlaces
  <2> QED BY <1>4, <2>1, <2>2, <2>3
<1>10. CASE CloseQueue
  <2>1. told'.taken = taken /\ told'.dropped = told.dropped \cup ToSet(pending) /\ told'.submitted = n
    BY <1>1, <1>10 DEF CloseQueue, Dropping, ToldType
  <2>2. inputs'.pending = << >>
    <3>1. Answering(inputs, FALSE) \in QueueType
      BY <1>1, AnsweringFields
    <3> QED BY <1>10, <3>1 DEF CloseQueue, QueueType
  <2>3. terminal'.at # "starting" /\ ~starting
    BY <1>5, <1>10 DEF CloseQueue, TerminalPlaces
  <2> QED BY <1>4, <2>1, <2>2, <2>3
<1>11. CASE Submit
  <2>1. ~starting
    BY <1>11 DEF Submit
  <2>2. CASE Goes("loop") /\ UNCHANGED <<inputs, told>>
    BY <1>3, <1>5, <2>1, <2>2 DEF TerminalPlaces
  <2>3. CASE /\ inputs.busy /\ ~inputs.closing
             /\ inputs' = [inputs EXCEPT !.pending = Append(inputs.pending, told.submitted + 1)]
             /\ told' = [told EXCEPT !.submitted = told.submitted + 1] /\ Goes("loop")
    <3>1. Account(Append(kept, n + 1), told.dropped, n + 1, FALSE)
      <4>1. Account(kept, told.dropped, n + 1, TRUE)
        BY <1>1, <1>2, <2>1, AccountOpens
      <4>2. n + 1 \in Nat
        BY <1>1
      <4> HIDE DEF kept, n
      <4> QED BY <1>2, <4>1, <4>2, AccountKeeps
    <3>2. taken \o Append(pending, n + 1) = Append(kept, n + 1)
      <4>1. n + 1 \in Nat
        BY <1>1
      <4> QED BY <1>1, <4>1, KeptSequences, ZenonT(60)
    <3>3. told'.taken = taken /\ told'.dropped = told.dropped /\ told'.submitted = n + 1
      BY <1>1, <2>3 DEF ToldType
    <3>4. /\ inputs'.pending = Append(pending, n + 1) /\ inputs'.closing = inputs.closing
          /\ inputs'.busy = inputs.busy
      BY <1>1, <2>3 DEF QueueType
    <3>5. terminal'.at # "starting"
      BY <1>5, <2>3 DEF TerminalPlaces
    <3> QED BY <2>3, <3>1, <3>2, <3>3, <3>4, <3>5 DEF InputsInv
  <2>4. CASE /\ inputs' = [inputs EXCEPT !.busy = TRUE] /\ ~inputs.busy
             /\ told' = [told EXCEPT !.submitted = told.submitted + 1] /\ Goes("starting")
    <3>1. Account(kept, told.dropped, n + 1, TRUE)
      BY <1>1, <1>2, <2>1, AccountOpens
    <3>2. told'.taken = taken /\ told'.dropped = told.dropped /\ told'.submitted = n + 1
      BY <1>1, <2>4 DEF ToldType
    <3>3. inputs'.pending = pending /\ pending = << >>
      BY <1>1, <2>4 DEF QueueType
    <3>4. terminal'.at = "starting"
      BY <1>5, <2>4 DEF TerminalPlaces
    <3> QED BY <3>1, <3>2, <3>3, <3>4 DEF InputsInv
  <2> QED BY <1>11, <2>2, <2>3, <2>4 DEF Submit, SubmitResult
<1>12. CASE StartWorker
  <2>1. starting /\ pending = << >>
    BY <1>2, <1>12 DEF StartWorker
  <2>2. CASE /\ told' = [told EXCEPT !.taken = Append(told.taken, told.submitted)]
             /\ Goes("loop") /\ UNCHANGED inputs
    <3>1. Account(Append(kept, n), told.dropped, n, FALSE)
      BY <1>1, <1>2, <2>1, AccountKeeps
    <3>2. Append(taken, n) \o << >> = Append(kept, n)
      <4>1. Append(taken, n) \in Seq(Nat)
        BY <1>1
      <4> QED BY <1>1, <1>2, <2>1, <4>1, KeptSequences
    <3>3. told'.taken = Append(taken, n) /\ told'.dropped = told.dropped /\ told'.submitted = n
      BY <1>1, <2>2 DEF ToldType
    <3>4. terminal'.at # "starting"
      BY <1>5, <2>2 DEF TerminalPlaces
    <3> QED BY <2>1, <2>2, <3>1, <3>2, <3>3, <3>4 DEF InputsInv
  <2>3. CASE /\ inputs' = [inputs EXCEPT !.busy = FALSE]
             /\ told' = [told EXCEPT !.dropped = told.dropped \cup {told.submitted}]
             /\ Goes("closing")
    <3>1. Account(kept, told.dropped \cup {n}, n, FALSE)
      BY <1>1, <1>2, <2>1, AccountGivesUp
    <3>2. told'.taken = taken /\ told'.dropped = told.dropped \cup {n} /\ told'.submitted = n
      BY <1>1, <2>3 DEF ToldType
    <3>3. inputs'.pending = pending
      BY <1>1, <2>3 DEF QueueType
    <3>4. terminal'.at # "starting"
      BY <1>5, <2>3 DEF TerminalPlaces
    <3> QED BY <2>1, <3>1, <3>2, <3>3, <3>4 DEF InputsInv
  <2> QED BY <1>12, <2>2, <2>3 DEF StartWorker
<1>13. CASE TurnStarts \/ Confirm \/ RequestShown \/ PromptWoken \/ RefuseUnshown \/ Confirmed \/ TurnEnds
  <2>1. ~starting
    BY <1>1, <1>13 DEF OneWorker, TurnStarts, Confirm, RequestShown, PromptWoken, RefuseUnshown, Confirmed,
                       TurnEnds
  <2>2. terminal'.at = terminal.at
    BY <1>1, <1>13 DEF TurnStarts, Confirm, RequestShown, PromptWoken, RefuseUnshown, Confirmed,
                       TurnEnds, Wakes, TerminalType
  <2>3. told'.taken = taken /\ told'.dropped = told.dropped /\ told'.submitted = n
    BY <1>1, <1>13 DEF TurnStarts, Confirm, RequestShown, PromptWoken, RefuseUnshown, Confirmed,
                       TurnEnds, UiCall, ToldType
  <2>4. inputs'.pending = pending /\ inputs'.closing = inputs.closing /\ inputs'.busy = inputs.busy
    BY <1>1, <1>13 DEF TurnStarts, Confirm, RequestShown, PromptWoken, RefuseUnshown, Confirmed,
                       TurnEnds, Answering, QueueType
  <2> QED BY <1>3, <2>1, <2>2, <2>3, <2>4
<1>14. CASE TakeNext
  <2>1. ~starting /\ terminal' = terminal
    BY <1>1, <1>14 DEF OneWorker, TakeNext
  <2>2. CASE /\ pending # << >> /\ ~inputs.closing
             /\ inputs' = [inputs EXCEPT !.pending = Tail(inputs.pending)]
             /\ told' = [told EXCEPT !.taken = Append(told.taken, Head(inputs.pending))]
    <3>1. Append(taken, Head(pending)) \o Tail(pending) = kept
      BY <1>1, <2>2, KeptSequences
    <3>2. told'.taken = Append(taken, Head(pending)) /\ told'.dropped = told.dropped /\ told'.submitted = n
      BY <1>1, <2>2 DEF ToldType
    <3>3. /\ inputs'.pending = Tail(pending) /\ inputs'.closing = inputs.closing
          /\ inputs'.busy = inputs.busy
      BY <1>1, <2>2 DEF QueueType
    <3> QED BY <1>1, <1>2, <2>1, <2>2, <3>1, <3>2, <3>3 DEF InputsInv
  <2>3. CASE (pending = << >> \/ inputs.closing) /\ inputs' = [inputs EXCEPT !.busy = FALSE] /\ UNCHANGED told
    <3>1. inputs'.pending = pending /\ inputs'.closing = inputs.closing
      BY <1>1, <2>3 DEF QueueType
    <3> QED BY <1>2, <1>3, <2>1, <2>3, <3>1
  <2> QED BY <1>14, <2>2, <2>3 DEF TakeNext
<1>15. CASE FinishInput
  <2>1. ~starting /\ terminal'.at = terminal.at
    BY <1>1, <1>15, WakesFields DEF OneWorker, FinishInput
  <2>2. told'.taken = taken /\ told'.dropped = told.dropped \cup ToSet(pending) /\ told'.submitted = n
    BY <1>1, <1>15 DEF FinishInput, Dropping, ToldType
  <2>3. inputs'.pending = << >>
    BY <1>1, <1>15 DEF FinishInput, QueueType
  <2> QED BY <1>4, <2>1, <2>2, <2>3
<1> QED
  BY <1>6, <1>7, <1>8, <1>9, <1>10, <1>11, <1>12, <1>13, <1>14, <1>15
  DEF InputNext, TerminalNext, WorkerNext

\* No input is lost, repeated or left without a worker.
LEMMA InputsInvKeeps == QueueInv /\ InputsInv => InputsKept
<1> SUFFICES ASSUME QueueInv, InputsInv PROVE InputsKept
  OBVIOUS
<1> DEFINE kept == told.taken \o inputs.pending
<1>1. kept \in Seq(Nat)
  BY KeptSequences DEF QueueInv, QueueTyped, QueueType, ToldType
<1>2. DOMAIN kept = 1..Len(kept) /\ ToSet(kept) = {kept[i] : i \in 1..Len(kept)}
  BY <1>1, LenProperties DEF ToSet
<1>3. Account(kept, told.dropped, told.submitted, terminal.at = "starting") /\ told.submitted \in Nat
  BY DEF InputsInv, QueueInv, QueueTyped, ToldType
<1>4. (inputs.pending # << >> => inputs.busy) /\ (worker.at # "none" => inputs.busy)
  BY DEF InputsInv, QueueInv, OneWorker
<1> HIDE DEF kept
<1>5. \A i, j \in DOMAIN kept : i < j => kept[i] < kept[j]
  BY <1>2, <1>3 DEF Account
<1>6. told.dropped \cap ToSet(kept) = {}
  BY <1>2, <1>3 DEF Account
<1>7. terminal.at = "starting" => told.submitted \in 1..told.submitted
  BY <1>3 DEF Account
<1>8. 1..told.submitted = told.dropped \cup ToSet(kept)
                            \cup {i \in {told.submitted} : terminal.at = "starting"}
  BY <1>2, <1>3, <1>7 DEF Account
<1> QED BY <1>4, <1>5, <1>6, <1>8 DEF InputsKept, kept, ToSet

-----------------------------------------------------------------------------
(* _PreviewCoalescer of tui/app.py.                                         *)

SlotType == [generation : Nat, active : BOOLEAN, first : BOOLEAN, latest : 0..MaxSnapshots,
             scheduled : BOOLEAN]
StreamerType == [at : {"idle", "stream", "draw", "drawn", "schedule", "clear"}, generation : Nat,
                 snapshot : 0..MaxSnapshots, drawn : BOOLEAN, streams : 0..MaxStreams]
FlushType == [at : {"idle", "draw", "drawn", "schedule"}, generation : Nat,
              snapshot : 0..MaxSnapshots, drawn : BOOLEAN]
ScreenType == [stream : Nat, running : BOOLEAN, lost : BOOLEAN]

PreviewTyped ==
    /\ slot \in SlotType /\ streamer \in StreamerType /\ flush \in FlushType
    /\ timers \in [Generations -> Nat] /\ screen \in ScreenType

\* A stream has the odd generations, a flush that runs is one of the present
\* stream, and what is left of a stream is not drawn once it was cleared.
PreviewStream ==
    /\ slot.generation = IF streamer.at \in {"idle", "clear"} THEN 2 * streamer.streams
                         ELSE 2 * streamer.streams - 1
    /\ streamer.at # "idle" => streamer.streams > 0
    /\ slot.active => streamer.at \notin {"idle", "clear"}
    /\ streamer.at = "schedule" => streamer.generation = slot.generation
    /\ flush.at # "idle" => streamer.at # "idle" /\ flush.generation = 2 * streamer.streams - 1
    /\ screen.stream # 0 => streamer.at # "idle" /\ screen.stream = streamer.streams

\* A snapshot that waits has its timer, or somebody about to set it, and only one.
PreviewTimers ==
    /\ flush.at # "schedule"
    /\ slot.latest # Unset => slot.scheduled
    /\ \A g \in Generations : g > slot.generation => timers[g] = 0
    /\ timers[slot.generation] <= IF slot.scheduled /\ streamer.at # "schedule" THEN 1 ELSE 0
    /\ streamer.at = "schedule" => slot.scheduled
    /\ slot.active /\ slot.scheduled =>
         timers[slot.generation] > 0 \/ streamer.at = "schedule" \/ screen.lost

PreviewInv == PreviewTyped /\ PreviewStream /\ PreviewTimers

\* The values of the fields.
LEMMA PreviewValues ==
    ASSUME PreviewTyped
    PROVE  /\ slot.generation \in Nat /\ slot.active \in BOOLEAN /\ slot.first \in BOOLEAN
           /\ slot.latest \in 0..MaxSnapshots /\ slot.scheduled \in BOOLEAN
           /\ streamer.at \in {"idle", "stream", "draw", "drawn", "schedule", "clear"}
           /\ streamer.generation \in Nat /\ streamer.snapshot \in 0..MaxSnapshots
           /\ streamer.drawn \in BOOLEAN /\ streamer.streams \in 0..MaxStreams
           /\ flush.at \in {"idle", "draw", "drawn", "schedule"} /\ flush.generation \in Nat
           /\ flush.snapshot \in 0..MaxSnapshots /\ flush.drawn \in BOOLEAN
           /\ screen.stream \in Nat /\ screen.running \in BOOLEAN /\ screen.lost \in BOOLEAN
           /\ timers \in [Generations -> Nat]
BY DEF PreviewTyped, SlotType, StreamerType, FlushType, ScreenType

\* The invariant holds before the first stream.
LEMMA PreviewInvInit == PreviewInit => PreviewInv
<1> SUFFICES ASSUME PreviewInit PROVE PreviewInv
  OBVIOUS
<1> USE PreviewAssumption DEF PreviewInit, Empty, Asleep, Unset
<1>1. PreviewTyped
  BY DEF PreviewTyped, SlotType, StreamerType, FlushType, ScreenType
<1>2. PreviewStream
  BY DEF PreviewStream
<1>3. PreviewTimers
  BY DEF PreviewTimers, Generations
<1> QED BY <1>1, <1>2, <1>3 DEF PreviewInv

\* Every step of the streamer, the flush and the prompt keeps it.
LEMMA PreviewInvNext ==
    ASSUME PreviewInv, [PreviewNext]_previewVars
    PROVE  PreviewInv'
<1> USE PreviewAssumption DEF LoopIsFree, Unset, Empty, Asleep
<1>0. PreviewTyped /\ PreviewStream /\ PreviewTimers
  BY DEF PreviewInv
<1> DEFINE next == slot.generation + 1
<1>a. next \in Nat /\ 0 \in 0..MaxSnapshots /\ slot.generation \in Generations
  <2>1. next \in Nat /\ 0 \in 0..MaxSnapshots
    BY <1>0, PreviewValues
  <2>2. slot.generation <= 2 * streamer.streams /\ streamer.streams \in Nat
        /\ streamer.streams <= MaxStreams
    BY <1>0, PreviewValues DEF PreviewStream
  <2>3. slot.generation \in Nat
    BY <1>0, PreviewValues
  <2>4. slot.generation <= 2 * MaxStreams
    BY <2>2, <2>3
  <2> QED BY <2>1, <2>3, <2>4 DEF Generations
<1>b. ASSUME NEW active \in BOOLEAN, NEW first \in BOOLEAN, NEW scheduled \in BOOLEAN,
             NEW latest \in 0..MaxSnapshots, NEW generation \in Nat,
             slot' = [generation |-> generation, active |-> active, first |-> first,
                      latest |-> latest, scheduled |-> scheduled]
      PROVE  slot' \in SlotType
  BY <1>b DEF SlotType
<1> HIDE DEF next
<1>1. CASE BeginStream
  <2>1. PreviewTyped'
    <3>1. slot' \in SlotType
      <4>1. slot' = [generation |-> next, active |-> TRUE, first |-> TRUE,
                  latest |-> 0, scheduled |-> FALSE]
        BY <1>0, <1>1 DEF BeginStream, PreviewTyped, SlotType, next
      <4> QED BY <4>1, <1>a, <1>b, <1>0, PreviewValues
    <3>2. streamer' \in StreamerType
      <4> DEFINE streams == streamer.streams + 1
      <4>1. streams \in 0..MaxStreams
        BY <1>0, <1>1, PreviewValues DEF BeginStream
      <4>2. streamer' = [streamer EXCEPT !.at = "stream", !.streams = streams, !.snapshot = 0]
        BY <1>1 DEF BeginStream
      <4> HIDE DEF streams
      <4> QED BY <1>0, <1>a, <4>1, <4>2 DEF PreviewTyped, StreamerType
    <3>3. flush' \in FlushType
      BY <1>0, <1>1, PreviewValues DEF BeginStream, PreviewTyped, FlushType
    <3>4. screen' \in ScreenType
      BY <1>0, <1>1, PreviewValues DEF BeginStream, PreviewTyped, ScreenType
    <3>5. timers' \in [Generations -> Nat]
      BY <1>0, <1>1, PreviewValues DEF BeginStream, PreviewTyped
    <3> QED BY <3>1, <3>2, <3>3, <3>4, <3>5 DEF PreviewTyped
  <2>2. PreviewStream'
    BY <1>0, <1>1, PreviewValues DEF BeginStream, PreviewStream
  <2>3. PreviewTimers'
    <3>1. slot'.generation = slot.generation + 1 /\ slot'.latest = 0 /\ ~slot'.scheduled
      BY <1>1 DEF BeginStream
    <3>2. timers' = timers /\ flush' = flush /\ streamer'.at = "stream"
      BY <1>0, <1>1, PreviewValues DEF BeginStream, PreviewTyped, StreamerType
    <3>3. slot.generation + 1 \in Generations
      BY <1>0, <1>1, PreviewValues DEF BeginStream, PreviewStream, Generations
    <3>4. timers[slot.generation + 1] = 0
      BY <1>0, <3>3, PreviewValues DEF PreviewTimers
    <3>5. \A h \in Generations : h > slot'.generation => timers[h] = 0
      BY <1>0, <3>1, PreviewValues DEF PreviewTimers, Generations
    <3> QED BY <1>0, <3>1, <3>2, <3>4, <3>5 DEF PreviewTimers
  <2> QED BY <2>1, <2>2, <2>3 DEF PreviewInv
<1>2. CASE FinishStream
  <2>1. PreviewTyped'
    <3>1. slot' \in SlotType
      <4>1. slot' = [generation |-> next, active |-> FALSE, first |-> slot.first,
                  latest |-> 0, scheduled |-> FALSE]
        BY <1>0, <1>2 DEF FinishStream, PreviewTyped, SlotType, next
      <4> QED BY <4>1, <1>a, <1>b, <1>0, PreviewValues
    <3>2. streamer' \in StreamerType
      BY <1>0, <1>2, PreviewValues DEF FinishStream, PreviewTyped, StreamerType
    <3>3. flush' \in FlushType
      BY <1>0, <1>2, PreviewValues DEF FinishStream, PreviewTyped, FlushType
    <3>4. screen' \in ScreenType
      BY <1>0, <1>2, PreviewValues DEF FinishStream, PreviewTyped, ScreenType
    <3>5. timers' \in [Generations -> Nat]
      BY <1>0, <1>2, PreviewValues DEF FinishStream, PreviewTyped
    <3> QED BY <3>1, <3>2, <3>3, <3>4, <3>5 DEF PreviewTyped
  <2>2. PreviewStream'
    BY <1>0, <1>2, PreviewValues DEF FinishStream, PreviewStream
  <2>3. PreviewTimers'
    <3>1. /\ slot'.generation = slot.generation + 1 /\ slot'.latest = 0
          /\ ~slot'.scheduled /\ ~slot'.active
      BY <1>0, <1>2 DEF FinishStream, PreviewTyped, SlotType
    <3>2. timers' = timers /\ flush' = flush /\ streamer'.at = "clear"
      BY <1>0, <1>2, PreviewValues DEF FinishStream, PreviewTyped, StreamerType
    <3>3. slot.generation + 1 \in Generations
      BY <1>0, <1>2, PreviewValues, SMTT(30) DEF FinishStream, PreviewStream, Generations
    <3>4. timers[slot.generation + 1] = 0
      BY <1>0, <3>3, PreviewValues DEF PreviewTimers
    <3>5. \A h \in Generations : h > slot'.generation => timers[h] = 0
      BY <1>0, <3>1, PreviewValues DEF PreviewTimers, Generations
    <3> QED BY <1>0, <3>1, <3>2, <3>4, <3>5 DEF PreviewTimers
  <2> QED BY <2>1, <2>2, <2>3 DEF PreviewInv
<1>3. CASE ClearLine
  <2>1. PreviewTyped'
    BY <1>0, <1>3, PreviewValues DEF ClearLine, PreviewTyped, SlotType, StreamerType, FlushType, ScreenType
  <2>2. PreviewStream'
    BY <1>0, <1>3, PreviewValues DEF ClearLine, PreviewStream
  <2>3. PreviewTimers'
    BY <1>0, <1>3, PreviewValues DEF ClearLine, PreviewStream, PreviewTimers, Generations
  <2> QED BY <2>1, <2>2, <2>3 DEF PreviewInv
<1>4. CASE SubmitSnapshot
  <2>1. PreviewTyped'
    <3>a. streamer.snapshot + 1 \in 0..MaxSnapshots
      BY <1>0, <1>4, PreviewValues DEF SubmitSnapshot
    <3>1. slot' \in SlotType
      <4>1. CASE ~slot.active
        BY <1>0, <1>4, <4>1 DEF SubmitSnapshot, PreviewTyped
      <4>2. CASE slot.active /\ slot.first
        <5>1. slot' = [generation |-> slot.generation, active |-> slot.active, first |-> FALSE,
                  latest |-> slot.latest, scheduled |-> slot.scheduled]
          BY <1>0, <1>4, <4>2 DEF SubmitSnapshot, PreviewTyped, SlotType
        <5> QED BY <5>1, <1>a, <1>b, <1>0, PreviewValues
      <4>3. CASE slot.active /\ ~slot.first
        <5>1. slot' = [generation |-> slot.generation, active |-> slot.active, first |-> slot.first,
                  latest |-> streamer.snapshot + 1, scheduled |-> TRUE]
          BY <1>0, <1>4, <4>3 DEF SubmitSnapshot, PreviewTyped, SlotType
        <5> QED BY <5>1, <1>a, <1>b, <1>0, PreviewValues, <3>a
      <4> QED BY <4>1, <4>2, <4>3, <1>0, PreviewValues
    <3>2. streamer' \in StreamerType
      <4> DEFINE snapshot == streamer.snapshot + 1
      <4>1. PICK place \in {"stream", "draw", "schedule"} :
              streamer' = [streamer EXCEPT !.at = place, !.snapshot = snapshot,
                                           !.generation = slot.generation]
        BY <1>4 DEF SubmitSnapshot
      <4> HIDE DEF snapshot
      <4> QED BY <1>0, <3>a, <4>1, PreviewValues DEF PreviewTyped, StreamerType, snapshot
    <3>3. flush' \in FlushType
      BY <1>0, <1>4, PreviewValues DEF SubmitSnapshot, PreviewTyped, FlushType
    <3>4. screen' \in ScreenType
      BY <1>0, <1>4, PreviewValues DEF SubmitSnapshot, PreviewTyped, ScreenType
    <3>5. timers' \in [Generations -> Nat]
      BY <1>0, <1>4, PreviewValues DEF SubmitSnapshot, PreviewTyped
    <3> QED BY <3>1, <3>2, <3>3, <3>4, <3>5 DEF PreviewTyped
  <2>2. PreviewStream'
    BY <1>0, <1>4, PreviewValues DEF SubmitSnapshot, PreviewStream
  <2>3. PreviewTimers'
    BY <1>0, <1>4, PreviewValues, SMTT(30) DEF SubmitSnapshot, PreviewStream, PreviewTimers, Generations
  <2> QED BY <2>1, <2>2, <2>3 DEF PreviewInv
<1>5. CASE DrawFirst
  <2>1. PreviewTyped'
    <3>1. slot' \in SlotType
      BY <1>0, <1>5, PreviewValues DEF DrawFirst, PreviewTyped, SlotType
    <3>2. streamer' \in StreamerType
      BY <1>0, <1>5, PreviewValues DEF DrawFirst, PreviewTyped, StreamerType
    <3>3. flush' \in FlushType
      BY <1>0, <1>5, PreviewValues DEF DrawFirst, PreviewTyped, FlushType
    <3>4. screen' \in ScreenType
      BY <1>0, <1>5, PreviewValues DEF DrawFirst, PreviewTyped, ScreenType
    <3>5. timers' \in [Generations -> Nat]
      BY <1>0, <1>5, PreviewValues DEF DrawFirst, PreviewTyped
    <3> QED BY <3>1, <3>2, <3>3, <3>4, <3>5 DEF PreviewTyped
  <2>2. PreviewStream'
    BY <1>0, <1>5, PreviewValues DEF DrawFirst, PreviewStream
  <2>3. PreviewTimers'
    BY <1>0, <1>5, PreviewValues, SMTT(30) DEF DrawFirst, PreviewStream, PreviewTimers, Generations
  <2> QED BY <2>1, <2>2, <2>3 DEF PreviewInv
<1>6. CASE FirstDrawn
  <2>1. PreviewTyped'
    BY <1>0, <1>6, PreviewValues DEF FirstDrawn, PreviewTyped, SlotType, StreamerType, FlushType, ScreenType
  <2>2. PreviewStream'
    BY <1>0, <1>6, PreviewValues DEF FirstDrawn, PreviewStream
  <2>3. PreviewTimers'
    BY <1>0, <1>6, PreviewValues DEF FirstDrawn, PreviewStream, PreviewTimers, Generations
  <2> QED BY <2>1, <2>2, <2>3 DEF PreviewInv
<1>7. CASE ScheduleTimer
  <2>0. streamer.at = "schedule" /\ ScheduleFlush(slot.generation)
        /\ streamer' = [streamer EXCEPT !.at = "stream"] /\ flush' = flush /\ screen' = screen
    BY <1>0, <1>7, PreviewValues DEF ScheduleTimer, PreviewTimers, PreviewStream
  <2>1. PreviewTyped'
    <3>1. slot' \in SlotType
      <4>1. CASE screen.running
        BY <1>0, <2>0, <4>1 DEF ScheduleFlush, PreviewTyped
      <4>2. CASE ~screen.running
        <5>1. slot' = [generation |-> slot.generation, active |-> FALSE, first |-> slot.first,
                  latest |-> 0, scheduled |-> FALSE]
          BY <1>0, <2>0, <4>2 DEF ScheduleFlush, PreviewTyped, SlotType
        <5> QED BY <5>1, <1>a, <1>b, <1>0, PreviewValues
      <4> QED BY <4>1, <4>2, <1>0, PreviewValues
    <3>2. streamer' \in StreamerType
      BY <1>0, <2>0, PreviewValues DEF ScheduleFlush, PreviewTyped, StreamerType
    <3>3. flush' \in FlushType
      BY <1>0, <2>0, PreviewValues DEF ScheduleFlush, PreviewTyped, FlushType
    <3>4. screen' \in ScreenType
      BY <1>0, <2>0, PreviewValues DEF ScheduleFlush, PreviewTyped, ScreenType
    <3>5. timers' \in [Generations -> Nat]
      BY <1>0, <2>0, PreviewValues DEF ScheduleFlush, PreviewTyped
    <3> QED BY <3>1, <3>2, <3>3, <3>4, <3>5 DEF PreviewTyped
  <2>2. /\ streamer'.at = "stream" /\ streamer'.streams = streamer.streams
        /\ flush' = flush /\ screen' = screen
    BY <1>0, <2>0 DEF PreviewTyped, StreamerType
  <2>3. CASE screen.running
    <3> DEFINE more == timers[slot.generation] + 1
    <3>1. slot' = slot /\ timers' = [timers EXCEPT ![slot.generation] = more]
      BY <2>0, <2>3 DEF ScheduleFlush
    <3>2. timers[slot.generation] = 0 /\ slot.scheduled
      BY <1>0, <1>a, <2>0, PreviewValues DEF PreviewTimers
    <3>3. PreviewStream'
      BY <1>0, <2>0, <2>2, <3>1 DEF PreviewStream
    <3>4. timers'[slot.generation] = 1
      BY <1>a, <3>1, <3>2, PreviewValues, <1>0
    <3>5. \A h \in Generations : h > slot.generation => timers'[h] = timers[h]
      BY <1>0, <1>a, <3>1, PreviewValues DEF Generations
    <3>6. PreviewTimers'
      BY <1>0, <2>2, <3>1, <3>2, <3>4, <3>5 DEF PreviewTimers
    <3> QED BY <2>1, <3>3, <3>6 DEF PreviewInv
  <2>4. CASE ~screen.running
    <3>1. /\ timers' = timers /\ slot'.generation = slot.generation /\ ~slot'.active
          /\ slot'.latest = 0 /\ ~slot'.scheduled
      BY <1>0, <2>0, <2>4 DEF ScheduleFlush, PreviewTyped, SlotType
    <3>2. timers[slot.generation] = 0
      BY <1>0, <1>a, <2>0, PreviewValues DEF PreviewTimers
    <3>3. PreviewStream'
      BY <1>0, <2>0, <2>2, <3>1 DEF PreviewStream
    <3>4. PreviewTimers'
      BY <1>0, <2>2, <3>1, <3>2 DEF PreviewTimers
    <3> QED BY <2>1, <3>3, <3>4 DEF PreviewInv
  <2> QED BY <2>3, <2>4
<1>8. CASE DrawLatest
  <2>1. PreviewTyped'
    <3>1. slot' \in SlotType
      BY <1>0, <1>8, PreviewValues DEF DrawLatest, PreviewTyped, SlotType, PreviewStream
    <3>2. streamer' \in StreamerType
      BY <1>0, <1>8, PreviewValues DEF DrawLatest, PreviewTyped, StreamerType, PreviewStream
    <3>3. flush' \in FlushType
      BY <1>0, <1>8, PreviewValues DEF DrawLatest, PreviewTyped, FlushType, PreviewStream
    <3>4. screen' \in ScreenType
      BY <1>0, <1>8, PreviewValues DEF DrawLatest, PreviewTyped, ScreenType, PreviewStream
    <3>5. timers' \in [Generations -> Nat]
      BY <1>0, <1>8, PreviewValues DEF DrawLatest, PreviewTyped, PreviewStream
    <3> QED BY <3>1, <3>2, <3>3, <3>4, <3>5 DEF PreviewTyped
  <2>2. PreviewStream'
    BY <1>0, <1>8, PreviewValues DEF DrawLatest, PreviewStream
  <2>3. PreviewTimers'
    BY <1>0, <1>8, PreviewValues, SMTT(30) DEF DrawLatest, PreviewStream, PreviewTimers, Generations
  <2> QED BY <2>1, <2>2, <2>3 DEF PreviewInv
<1>9. CASE EndFlush
  <2>0. flush' = Asleep /\ streamer' = streamer /\ timers' = timers /\ screen' = screen
        /\ slot' = IF OfThisStream(flush.generation) /\ ~flush.drawn THEN [slot EXCEPT !.active = FALSE, !.latest = Unset]
                   ELSE slot
    BY <1>0, <1>9, PreviewValues DEF EndFlush, PreviewTimers, PreviewTyped, SlotType
  <2>1. PreviewTyped'
    <3>1. slot' \in SlotType
      <4>1. CASE ~(OfThisStream(flush.generation) /\ ~flush.drawn)
        BY <1>0, <2>0, <4>1 DEF PreviewTyped
      <4>2. CASE OfThisStream(flush.generation) /\ ~flush.drawn
        <5>1. slot' = [generation |-> slot.generation, active |-> FALSE, first |-> slot.first,
                  latest |-> 0, scheduled |-> slot.scheduled]
          BY <1>0, <2>0, <4>2 DEF PreviewTyped, SlotType
        <5> QED BY <5>1, <1>a, <1>b, <1>0, PreviewValues
      <4> QED BY <4>1, <4>2, <1>0, PreviewValues
    <3>2. streamer' \in StreamerType
      BY <1>0, <2>0, PreviewValues DEF PreviewTyped, StreamerType
    <3>3. flush' \in FlushType
      BY <1>0, <2>0, PreviewValues DEF PreviewTyped, FlushType
    <3>4. screen' \in ScreenType
      BY <1>0, <2>0, PreviewValues DEF PreviewTyped, ScreenType
    <3>5. timers' \in [Generations -> Nat]
      BY <1>0, <2>0, PreviewValues DEF PreviewTyped
    <3> QED BY <3>1, <3>2, <3>3, <3>4, <3>5 DEF PreviewTyped
  <2>2. PreviewStream'
    BY <1>0, <2>0, PreviewValues DEF PreviewStream
  <2>3. PreviewTimers'
    BY <1>0, <2>0, PreviewValues, SMTT(30) DEF PreviewStream, PreviewTimers, Generations
  <2> QED BY <2>1, <2>2, <2>3 DEF PreviewInv
<1>10. CASE PromptEnds
  <2>1. PreviewTyped'
    BY <1>0, <1>10, PreviewValues DEF PromptEnds, PreviewTyped, SlotType, StreamerType, FlushType, ScreenType
  <2>2. PreviewStream'
    BY <1>0, <1>10, PreviewValues DEF PromptEnds, PreviewStream
  <2>3. PreviewTimers'
    BY <1>0, <1>10, PreviewValues, SMTT(30) DEF PromptEnds, PreviewStream, PreviewTimers, Generations
  <2> QED BY <2>1, <2>2, <2>3 DEF PreviewInv
<1>11. CASE PromptBegins
  <2>1. PreviewTyped'
    BY <1>0, <1>11, PreviewValues DEF PromptBegins, PreviewTyped, SlotType, StreamerType, FlushType,
       ScreenType
  <2>2. PreviewStream'
    BY <1>0, <1>11, PreviewValues DEF PromptBegins, PreviewStream
  <2>3. PreviewTimers'
    BY <1>0, <1>11, PreviewValues, SMTT(30) DEF PromptBegins, PreviewStream, PreviewTimers, Generations
  <2> QED BY <2>1, <2>2, <2>3 DEF PreviewInv
<1>12. ASSUME NEW g \in Generations, StartFlush(g) PROVE PreviewInv'
  <2> USE DEF StartFlush, Serves, OfThisStream
  <2>1. PreviewTyped'
    <3>1. slot' \in SlotType
      <4>1. CASE ~OfThisStream(g)
        BY <1>0, <1>12, <4>1 DEF PreviewTyped
      <4>2. CASE OfThisStream(g)
        <5>1. slot' = [generation |-> slot.generation, active |-> slot.active, first |-> slot.first,
                  latest |-> 0, scheduled |-> FALSE]
          BY <1>0, <1>12, <4>2 DEF PreviewTyped, SlotType
        <5> QED BY <5>1, <1>a, <1>b, <1>0, PreviewValues
      <4> QED BY <4>1, <4>2, <1>0, PreviewValues
    <3>2. streamer' \in StreamerType
      BY <1>0, <1>12, PreviewValues DEF PreviewTyped, StreamerType
    <3>3. flush' \in FlushType
      BY <1>0, <1>12, PreviewValues DEF PreviewTyped, FlushType
    <3>5. screen' \in ScreenType
      BY <1>0, <1>12, PreviewValues DEF PreviewTyped, ScreenType
    <3>6. timers' \in [Generations -> Nat]
      BY <1>0, <1>12, PreviewValues DEF PreviewTyped
    <3> QED BY <3>1, <3>2, <3>3, <3>5, <3>6 DEF PreviewTyped
  <2>2. PreviewStream'
    BY <1>0, <1>12, PreviewValues DEF PreviewStream
  <2>3. PreviewTimers'
    <3> DEFINE left == timers[g] - 1
    <3>1. timers' = [timers EXCEPT ![g] = left] /\ left \in Nat /\ timers[g] = left + 1
      BY <1>0, <1>12, PreviewValues
    <3>2. /\ \A h \in Generations : timers'[h] = IF h = g THEN left ELSE timers[h]
          /\ \A h \in Generations : timers'[h] <= timers[h] /\ timers'[h] \in Nat
      BY <1>0, <3>1, PreviewValues
    <3>3. /\ slot'.generation = slot.generation /\ slot'.active = slot.active
          /\ streamer' = streamer /\ screen' = screen
          /\ flush'.at \in {"draw", "idle"} /\ timers[g] > 0
      BY <1>0, <1>12 DEF PreviewTyped, SlotType
    <3>4. ASSUME NEW h \in Generations, h > slot'.generation PROVE timers'[h] = 0
      <4>1. timers[h] = 0
        BY <1>0, <3>3, <3>4 DEF PreviewTimers
      <4>2. timers'[h] <= 0 /\ timers'[h] \in Nat
        BY <3>2, <4>1
      <4> QED BY <4>2
    <3>5. CASE OfThisStream(g)
      <4>1. slot'.latest = 0 /\ ~slot'.scheduled /\ g = slot.generation
        BY <1>0, <1>12, <3>5 DEF PreviewTyped, SlotType
      <4>2. timers[g] = 1 /\ streamer.at # "schedule"
        BY <1>0, <1>12, <4>1, PreviewValues DEF PreviewTimers
      <4>3. timers'[slot.generation] = 0
        BY <1>a, <3>1, <3>2, <4>1, <4>2
      <4>4. \A h \in Generations : h > slot'.generation => timers'[h] = 0
        BY <3>4
      <4> QED BY <1>0, <3>3, <4>1, <4>2, <4>3, <4>4 DEF PreviewTimers
    <3>6. CASE ~OfThisStream(g)
      <4>1. slot' = slot
        BY <1>12, <3>6
      <4>2. slot.active => timers'[slot.generation] = timers[slot.generation]
        BY <1>a, <3>2, <3>6
      <4>3. timers'[slot.generation] <= timers[slot.generation]
        BY <1>a, <3>2
      <4>4. \A h \in Generations : h > slot'.generation => timers'[h] = 0
        BY <3>4
      <4>5. timers[slot.generation] \in Nat /\ timers'[slot.generation] \in Nat
        BY <1>0, <1>a, <3>2, PreviewValues
      <4>6. timers'[slot.generation] <= IF slot.scheduled /\ streamer.at # "schedule" THEN 1 ELSE 0
        BY <1>0, <4>3, <4>5 DEF PreviewTimers
      <4>7. (slot'.active = slot.active) /\ flush'.at # "schedule"
        BY <3>3
      <4> QED BY <1>0, <3>3, <4>1, <4>2, <4>4, <4>6, <4>7 DEF PreviewTimers
    <3> QED BY <3>5, <3>6
  <2> QED BY <2>1, <2>2, <2>3 DEF PreviewInv
<1>13. CASE UNCHANGED previewVars
  BY <1>0, <1>13 DEF previewVars, PreviewInv, PreviewTyped, PreviewStream, PreviewTimers
<1> QED BY <1>1, <1>2, <1>3, <1>4, <1>5, <1>6, <1>7, <1>8, <1>9, <1>10, <1>11, <1>12, <1>13 DEF PreviewNext

\* It says what the run checks.
LEMMA PreviewInvSafe == PreviewInv => PreviewTypeOK /\ NoStalePreview /\ LatestIsDrawn
<1> SUFFICES ASSUME PreviewInv PROVE PreviewTypeOK /\ NoStalePreview /\ LatestIsDrawn
  OBVIOUS
<1> USE PreviewAssumption DEF PreviewInv, Unset
<1>1. slot.generation \in Generations
  BY PreviewValues DEF PreviewStream, Generations
<1>2. PreviewTypeOK
  BY <1>1, PreviewValues DEF PreviewTypeOK
<1>3. NoStalePreview
  BY <1>1, PreviewValues DEF PreviewStream, PreviewTimers, NoStalePreview
<1>4. LatestIsDrawn
  BY PreviewValues DEF PreviewTimers, LatestIsDrawn
<1> QED BY <1>2, <1>3, <1>4

-----------------------------------------------------------------------------
(* The bounds of the notes and of the queue.                                *)

\* The notes of the agent are notes of savers, and so is what a saver read; the
\* note of the user is one of its texts.
MemoryBounded ==
    /\ doc["agent"].text \subseteq Savers /\ doc["user"].text \in UserTexts
    /\ \A s \in Savers : saver[s] = Unread \/ saver[s] \subseteq Savers
    /\ saved \subseteq Savers

LEMMA MemoryBoundedInit == MemoryInit => MemoryBounded
  BY DEF MemoryInit, MemoryBounded, Documents, UserTexts

LEMMA MemoryBoundedNext ==
    ASSUME MemoryTyped, MemoryBounded, [MemoryNext]_memoryVars
    PROVE  MemoryBounded'
<1>1. /\ doc \in [Documents -> [text : Text, node : Nat, stamp : Nat]]
      /\ saver \in [Savers -> SUBSET (Savers \cup {"none"})]
      /\ "agent" \in Documents /\ "user" \in Documents /\ "agent" # "user"
  BY DEF MemoryTyped, Documents
<1>2. CASE UNCHANGED <<doc, saver, saved>>
  BY <1>2 DEF MemoryBounded
<1>3. CASE Rewrite
  <2>1. PICK t \in UserTexts :
            doc' = [doc EXCEPT !["user"].text = t, !["user"].stamp = Stamp]
    BY <1>3 DEF Rewrite
  <2>2. doc'["agent"] = doc["agent"] /\ doc'["user"].text = t /\ UNCHANGED <<saver, saved>>
    BY <1>1, <1>3, <2>1 DEF Rewrite
  <2> QED BY <2>2 DEF MemoryBounded
<1>4. ASSUME NEW s \in Savers, ReadNotes(s) \/ GiveUpSaving(s) PROVE MemoryBounded'
  <2>1. /\ UNCHANGED <<doc, saved>>
        /\ \A x \in Savers : saver'[x] \in {saver[x], doc["agent"].text, Unread}
    BY <1>1, <1>4 DEF ReadNotes, GiveUpSaving
  <2> QED BY <2>1 DEF MemoryBounded
<1>5. ASSUME NEW s \in Savers, SaveNote(s) PROVE MemoryBounded'
  <2>1. /\ doc'["user"] = doc["user"] /\ doc'["agent"].text = saver[s] \cup {s}
        /\ saved' = saved \cup {s} /\ saver[s] # Unread
        /\ \A x \in Savers : saver'[x] \in {saver[x], Unread}
    BY <1>1, <1>5 DEF SaveNote
  <2> QED BY <2>1 DEF MemoryBounded
<1>6. Pass \/ BeginQuery \/ Inventory \/ Load \/ InventoryAgain \/ EndQuery \/ UNCHANGED memoryVars
        => UNCHANGED <<doc, saver, saved>>
  BY DEF Pass, BeginQuery, Inventory, Load, InventoryAgain, EndQuery, memoryVars
<1> QED BY <1>2, <1>3, <1>4, <1>5, <1>6 DEF MemoryNext

LEMMA MemoryTypes == MemoryTyped /\ MemoryBounded => MemoryTypeOK
<1> SUFFICES ASSUME MemoryTyped, MemoryBounded PROVE MemoryTypeOK
  OBVIOUS
<1>1. query.pc \in {"idle", "inventory", "load", "again", "served"}
  BY DEF MemoryTyped, Querying, Serving, NoQuery
<1>2. \A d \in Documents : doc[d].text \in NotesOf[d]
  BY DEF MemoryBounded, Documents, NotesOf
<1> QED BY <1>1, <1>2 DEF MemoryTypeOK, MemoryBounded

\* The inputs and the requests stay within their bounds, and what was accepted
\* was answered.
InputsBounded ==
    /\ Len(inputs.pending) <= MaxPending
    /\ told.submitted <= MaxInputs /\ told.asked <= MaxAsks
    /\ inputs.accepted \subseteq inputs.answered /\ NoRequest \notin inputs.answered

LEMMA InputsBoundedInit == InputInit => InputsBounded
<1> SUFFICES ASSUME InputInit PROVE InputsBounded
  OBVIOUS
<1>1. /\ inputs.pending = << >> /\ inputs.answered = {} /\ inputs.accepted = {}
      /\ told.submitted = 0 /\ told.asked = 0
  BY DEF InputInit
<1>2. Len(<< >>) = 0
  OBVIOUS
<1> QED BY <1>1, <1>2, InputQueueAssumption DEF InputsBounded

\* An answer answers what was asked.
LEMMA AnsweringKeeps ==
    ASSUME NEW q \in QueueType, NEW accepted \in BOOLEAN,
           q.accepted \subseteq q.answered, NoRequest \notin q.answered
    PROVE  LET a == Answering(q, accepted)
           IN  /\ a \in QueueType /\ a.pending = q.pending
               /\ a.accepted \subseteq a.answered /\ NoRequest \notin a.answered
<1>1. CASE q.confirmation = NoRequest
  BY <1>1 DEF Answering
<1>2. CASE q.confirmation # NoRequest
  <2> DEFINE a == [q EXCEPT !.confirmation = NoRequest,
                            !.answered = q.answered \cup {q.confirmation},
                            !.accepted = IF accepted THEN q.accepted \cup {q.confirmation}
                                         ELSE q.accepted]
  <2>1. Answering(q, accepted) = a
    BY <1>2, Zenon DEF Answering
  <2>2. /\ a \in QueueType /\ a.pending = q.pending
        /\ a.answered = q.answered \cup {q.confirmation}
        /\ a.accepted = IF accepted THEN q.accepted \cup {q.confirmation} ELSE q.accepted
    BY DEF QueueType, NoRequest
  <2> HIDE DEF a
  <2>3. a.accepted \subseteq a.answered /\ NoRequest \notin a.answered
    BY <1>2, <2>2
  <2> QED BY <2>1, <2>2, <2>3
<1> QED BY <1>1, <1>2

LEMMA InputsBoundedNext ==
    ASSUME QueueTyped, InputsBounded, [InputNext]_inputVars
    PROVE  InputsBounded'
<1> DEFINE Queued == /\ inputs'.accepted \subseteq inputs'.answered /\ NoRequest \notin inputs'.answered
                     /\ Len(inputs'.pending) <= MaxPending
           Numbered == told'.submitted <= MaxInputs /\ told'.asked <= MaxAsks
<1> SUFFICES Queued /\ Numbered
  BY DEF InputsBounded
<1>1. /\ inputs \in QueueType /\ inputs.pending \in Seq(Nat) /\ told \in ToldType
      /\ told.submitted <= MaxInputs /\ told.asked <= MaxAsks
      /\ inputs.accepted \subseteq inputs.answered /\ NoRequest \notin inputs.answered
      /\ Len(inputs.pending) <= MaxPending
  BY DEF QueueTyped, InputsBounded, QueueType
<1>2. Len(<< >>) <= MaxPending
  <2>1. Len(<< >>) = 0
    OBVIOUS
  <2> QED BY <2>1, InputQueueAssumption
<1>3. ASSUME inputs' = inputs PROVE Queued
  BY <1>1, <1>3
<1>4. ASSUME NEW accepted \in BOOLEAN, inputs' = Answering(inputs, accepted) PROVE Queued
  BY <1>1, <1>4, AnsweringKeeps
<1>5. ASSUME inputs'.pending = << >> \/ inputs'.pending = inputs.pending,
             inputs'.accepted = inputs.accepted, inputs'.answered = inputs.answered
      PROVE  Queued
  BY <1>1, <1>2, <1>5
<1>6. ASSUME told'.submitted = told.submitted, told'.asked = told.asked PROVE Numbered
  BY <1>1, <1>6
<1>7. Dropping => told'.submitted = told.submitted /\ told'.asked = told.asked
  BY <1>1 DEF Dropping, ToldType
<1> HIDE DEF Queued, Numbered
<1>8. CASE UNCHANGED <<inputs, told>>
  BY <1>3, <1>6, <1>8
<1>9. CASE DenyInterrupted \/ RefuseUnshown
  BY <1>4, <1>6, <1>9 DEF DenyInterrupted, RefuseUnshown
<1>10. CASE ClearQueue
  BY <1>1, <1>5, <1>6, <1>7, <1>10 DEF ClearQueue, QueueType
<1>11. CASE AnswerConfirmation
  <2>1. told'.submitted = told.submitted /\ told'.asked = told.asked
    BY <1>1, <1>11 DEF AnswerConfirmation, ToldType
  <2> QED BY <1>4, <1>6, <1>11, <2>1 DEF AnswerConfirmation
<1>12. CASE Submit
  <2> DEFINE n == told.submitted
             len == Len(inputs.pending)
  <2>1. n \in Nat /\ len \in Nat
    BY <1>1 DEF ToldType
  <2>2. CASE UNCHANGED <<inputs, told>>
    BY <1>8, <2>2
  <2>3. CASE ~UNCHANGED <<inputs, told>>
    <3>1. /\ n + 1 <= MaxInputs /\ told' = [told EXCEPT !.submitted = n + 1]
          /\ \/ SubmitResult(inputs) = "queued"
                /\ inputs' = [inputs EXCEPT !.pending = Append(inputs.pending, n + 1)]
             \/ inputs' = [inputs EXCEPT !.busy = TRUE]
      BY <1>12, <2>3 DEF Submit
    <3>2. told'.submitted = n + 1 /\ told'.asked = told.asked
      BY <1>1, <3>1 DEF ToldType
    <3>3. Numbered
      BY <1>1, <3>1, <3>2 DEF Numbered
    <3>4. CASE inputs' = [inputs EXCEPT !.busy = TRUE]
      BY <1>1, <1>5, <3>3, <3>4 DEF QueueType
    <3>5. CASE SubmitResult(inputs) = "queued"
               /\ inputs' = [inputs EXCEPT !.pending = Append(inputs.pending, n + 1)]
      <4>1. len # MaxPending
        BY <3>5 DEF SubmitResult
      <4>2. inputs'.pending = Append(inputs.pending, n + 1)
            /\ inputs'.accepted = inputs.accepted /\ inputs'.answered = inputs.answered
        BY <1>1, <3>5 DEF QueueType
      <4>3. Len(inputs'.pending) = len + 1
        BY <1>1, <4>2
      <4>4. len <= MaxPending
        BY <1>1
      <4> HIDE DEF len
      <4>5. len + 1 <= MaxPending
        BY <2>1, <4>1, <4>4, InputQueueAssumption
      <4> QED BY <1>1, <3>3, <4>2, <4>3, <4>5 DEF Queued
    <3> QED BY <3>1, <3>4, <3>5
  <2> QED BY <2>2, <2>3
<1>13. CASE StartWorker
  <2>1. told'.submitted = told.submitted /\ told'.asked = told.asked
    BY <1>1, <1>13 DEF StartWorker, ToldType
  <2>2. inputs'.pending = inputs.pending /\ inputs'.accepted = inputs.accepted
        /\ inputs'.answered = inputs.answered
    BY <1>1, <1>13 DEF StartWorker, QueueType
  <2> QED BY <1>5, <1>6, <2>1, <2>2
<1>14. CASE CloseQueue
  <2> DEFINE a == Answering(inputs, FALSE)
  <2>1. /\ a \in QueueType /\ a.pending = inputs.pending
        /\ a.accepted \subseteq a.answered /\ NoRequest \notin a.answered
    BY <1>1, AnsweringKeeps
  <2>2. inputs' = [a EXCEPT !.closing = TRUE, !.pending = << >>]
    BY <1>14 DEF CloseQueue
  <2> HIDE DEF a
  <2>3. inputs'.pending = << >> /\ inputs'.accepted = a.accepted /\ inputs'.answered = a.answered
    BY <2>1, <2>2 DEF QueueType
  <2>4. Queued
    BY <1>2, <2>1, <2>3 DEF Queued
  <2> QED BY <1>6, <1>7, <1>14, <2>4 DEF CloseQueue
<1>15. CASE Confirm
  <2> DEFINE n == told.asked
  <2>1. n \in Nat /\ n < MaxAsks /\ told' = [told EXCEPT !.asked = n + 1]
    BY <1>1, <1>15 DEF Confirm, ToldType
  <2>2. told'.submitted = told.submitted /\ told'.asked = n + 1
    BY <1>1, <2>1 DEF ToldType
  <2>3. inputs' = inputs \/ inputs' = [inputs EXCEPT !.confirmation = told'.asked]
    BY <1>15 DEF Confirm
  <2>4. inputs'.pending = inputs.pending /\ inputs'.accepted = inputs.accepted
        /\ inputs'.answered = inputs.answered
    BY <1>1, <2>3 DEF QueueType
  <2> HIDE DEF n
  <2>5. n + 1 <= MaxAsks
    BY <2>1, InputQueueAssumption
  <2>6. Numbered
    BY <1>1, <2>2, <2>5 DEF Numbered
  <2> QED BY <1>5, <2>4, <2>6
<1>16. CASE RequestShown \/ PromptWoken \/ Confirmed
  <2>1. inputs' = inputs
    BY <1>16 DEF RequestShown, PromptWoken, Confirmed
  <2>2. told'.submitted = told.submitted /\ told'.asked = told.asked
    BY <1>1, <1>16 DEF RequestShown, PromptWoken, Confirmed, UiCall, ToldType
  <2> QED BY <1>3, <1>6, <2>1, <2>2
<1>17. CASE TakeNext
  <2>1. told'.submitted = told.submitted /\ told'.asked = told.asked
    BY <1>1, <1>17 DEF TakeNext, ToldType
  <2>2. CASE inputs' = [inputs EXCEPT !.busy = FALSE]
    BY <1>1, <1>5, <1>6, <2>1, <2>2 DEF QueueType
  <2>3. CASE inputs.pending # << >> /\ inputs' = [inputs EXCEPT !.pending = Tail(inputs.pending)]
    <3> DEFINE len == Len(inputs.pending)
    <3>1. len \in Nat /\ Len(Tail(inputs.pending)) = len - 1 /\ len <= MaxPending
      BY <1>1, <2>3
    <3>2. inputs'.pending = Tail(inputs.pending) /\ inputs'.accepted = inputs.accepted
          /\ inputs'.answered = inputs.answered
      BY <1>1, <2>3 DEF QueueType
    <3> HIDE DEF len
    <3>3. len - 1 <= MaxPending
      BY <3>1, InputQueueAssumption
    <3> QED BY <1>1, <1>6, <2>1, <3>1, <3>2, <3>3 DEF Queued
  <2> QED BY <1>17, <2>2, <2>3 DEF TakeNext
<1>18. CASE FinishInput
  <2>1. inputs'.pending = << >> /\ inputs'.accepted = inputs.accepted
        /\ inputs'.answered = inputs.answered
    BY <1>1, <1>18 DEF FinishInput, QueueType
  <2> QED BY <1>5, <1>6, <1>7, <1>18, <2>1 DEF FinishInput
<1>19. SeeTerminal \/ ShowPrompt \/ EndOfInput \/ InterruptLoop \/ LeavePrompt \/ RouteLine
         => UNCHANGED <<inputs, told>>
  BY DEF SeeTerminal, ShowPrompt, EndOfInput, InterruptLoop, LeavePrompt, RouteLine
<1>20. (\E line \in {"yes", "text", "clear", "exit", "local"} : TypeLine(line))
         => UNCHANGED <<inputs, told>>
  BY DEF TypeLine
<1>21. JudgeLine \/ CloseReturns \/ TurnStarts \/ TurnEnds \/ UNCHANGED inputVars
         => UNCHANGED <<inputs, told>>
  BY DEF JudgeLine, CloseReturns, TurnStarts, TurnEnds, inputVars
<1> QED BY <1>8, <1>9, <1>10, <1>11, <1>12, <1>13, <1>14, <1>15, <1>16, <1>17, <1>18, <1>19, <1>20, <1>21
    DEF InputNext, TerminalNext, WorkerNext

LEMMA InputTypes == QueueInv /\ InputsInv /\ InputsBounded => InputTypeOK
<1> SUFFICES ASSUME QueueInv, InputsInv, InputsBounded PROVE InputTypeOK
  OBVIOUS
<1>1. /\ inputs \in QueueType /\ worker \in WorkerType /\ terminal \in TerminalType /\ told \in ToldType
      /\ inputs.pending \in Seq(Nat) /\ told.taken \in Seq(Nat)
  BY DEF QueueInv, QueueTyped, QueueType, ToldType
<1> DEFINE kept == told.taken \o inputs.pending
           n == told.submitted
           asked == told.asked
<1>2. n \in Nat /\ n <= MaxInputs /\ asked \in Nat /\ asked <= MaxAsks
  BY <1>1 DEF ToldType, InputsBounded
<1>3. \A i \in 1..Len(inputs.pending) : inputs.pending[i] \in 1..n
  <2> DEFINE taken == told.taken
             pending == inputs.pending
  <2>1. taken \in Seq(Nat) /\ pending \in Seq(Nat) /\ kept = taken \o pending
    BY <1>1
  <2>2. \A i \in 1..Len(kept) : kept[i] \in 1..n
    BY DEF InputsInv, Account
  <2> HIDE DEF taken, pending, kept, n
  <2>3. /\ Len(kept) = Len(taken) + Len(pending) /\ Len(taken) \in Nat /\ Len(pending) \in Nat
        /\ \A i \in 1..Len(pending) :
              Len(taken) + i \in 1..Len(kept) /\ kept[Len(taken) + i] = pending[i]
    BY <2>1, ConcatProperties, LenProperties
  <2>4. \A i \in 1..Len(pending) : pending[i] \in 1..n
    BY <2>2, <2>3
  <2> QED BY <2>4 DEF pending
<1>4. \A i \in 1..Len(inputs.pending) : inputs.pending[i] \in 1..MaxInputs
  <2> HIDE DEF n
  <2>1. \A m \in 1..n : m \in 1..MaxInputs
    BY <1>2, InputQueueAssumption
  <2> QED BY <1>3, <2>1
<1>5. inputs.pending \in Seq(1..MaxInputs)
  <2> DEFINE s == inputs.pending
  <2>1. s \in Seq(Nat) /\ \A i \in 1..Len(s) : s[i] \in 1..MaxInputs
    BY <1>1, <1>4
  <2> HIDE DEF s
  <2>2. Len(s) \in Nat /\ s = [i \in 1..Len(s) |-> s[i]]
    BY <2>1
  <2>3. s \in [1..Len(s) -> 1..MaxInputs]
    BY <2>1, <2>2
  <2>4. s \in Seq(1..MaxInputs)
    BY <2>2, <2>3, SeqDef
  <2> QED BY <2>4 DEF s
<1>6. \A q \in Nat : q <= asked /\ q # 0 => q \in Requests
  <2> HIDE DEF asked
  <2> QED BY <1>2, InputQueueAssumption DEF Requests
<1>7. inputs.confirmation \in {NoRequest} \cup Requests
  BY <1>1, <1>6 DEF QueueInv, InputsPending, QueueType, NoRequest
<1>8. inputs.answered \subseteq Requests
  BY <1>1, <1>6 DEF QueueInv, InputsPending, QueueType, InputsBounded, NoRequest
<1> QED BY <1>1, <1>5, <1>7, <1>8 DEF InputTypeOK, InputsBounded, QueueType, WorkerType, TerminalType,
        WorkerPlaces, TerminalPlaces, Asking

=============================================================================
