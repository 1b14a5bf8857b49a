--------------------------- MODULE ProviderProofs ---------------------------
(***************************************************************************)
(* Theorems about the exchange with a provider: for any number of events   *)
(* and attempts, in each of the four wire protocols, a streamed Response   *)
(* is all that was said, in its order.  What a reader has put together     *)
(* after each event is compared with the events alone.                     *)
(***************************************************************************)
EXTENDS ProviderStream, RecordProofs

-----------------------------------------------------------------------------
(* ProviderStream: what a reader may have put together *)

BlockTypes == {"text", "tool_use", "thinking", "message", "function_call", "reasoning"}
BodyPieces == Pieces \cup {"done"}
Saids == {"none", "end_turn", "pause_turn", "stop", "tool_calls", "m1", "m2"}

\* The blocks of the given types, and the readers that put together such blocks.
Blocks(T) == {b \in [type : T, id : 0..2, body : Seq(BodyPieces)] :
                 b.type = "text" => b.body \in Seq(TextPieces)}
Readers(T) ==
    {r \in [begun : BOOLEAN, open : Nat, blocks : Seq(Blocks(T)), text : Seq(TextPieces), said : Saids,
            ended : BOOLEAN, output : Seq(ResponsesItems)] : r.open <= Len(r.blocks)}

TypesOf(family) ==
    CASE family = "anthropic" -> {"text", "tool_use", "thinking"}
      [] family = "responses" -> {"message", "function_call", "reasoning"}
      [] OTHER -> {"tool_use"}

LEMMA ReaderType ==
    ASSUME NEW T, NEW r \in Readers(T)
    PROVE  /\ r.begun \in BOOLEAN /\ r.open \in Nat /\ r.blocks \in Seq(Blocks(T))
           /\ r.text \in Seq(TextPieces) /\ r.said \in Saids /\ r.ended \in BOOLEAN
           /\ r.output \in Seq(ResponsesItems) /\ r.open <= Len(r.blocks)
  BY DEF Readers

LEMMA BlockType ==
    ASSUME NEW T, NEW b \in Blocks(T)
    PROVE  /\ b.type \in T /\ b.id \in 0..2 /\ b.body \in Seq(BodyPieces)
           /\ b.type = "text" => b.body \in Seq(TextPieces)
  BY DEF Blocks

LEMMA NewBlock ==
    ASSUME NEW T, NEW type \in T, NEW id \in 0..2, NEW body \in Seq(BodyPieces), type # "text"
    PROVE  [type |-> type, id |-> id, body |-> body] \in Blocks(T)
  BY DEF Blocks

LEMMA EmptyBlock ==
    ASSUME NEW T, NEW type \in T, NEW id \in 0..2
    PROVE  [type |-> type, id |-> id, body |-> <<>>] \in Blocks(T)
<1>1. <<>> \in Seq(BodyPieces) /\ <<>> \in Seq(TextPieces)
  OBVIOUS
<1> QED BY <1>1 DEF Blocks

LEMMA MoreBlocks ==
    ASSUME NEW T, NEW blocks \in Seq(Blocks(T)), NEW b \in Blocks(T)
    PROVE  Append(blocks, b) \in Seq(Blocks(T)) /\ Len(Append(blocks, b)) = Len(blocks) + 1
  OBVIOUS

\* One of the blocks grows.
LEMMA BlockGrows ==
    ASSUME NEW T, NEW blocks \in Seq(Blocks(T)), NEW i \in DOMAIN blocks, NEW b \in Blocks(T)
    PROVE  /\ [blocks EXCEPT ![i] = b] \in Seq(Blocks(T))
           /\ Len([blocks EXCEPT ![i] = b]) = Len(blocks)
  OBVIOUS

LEMMA BodyGrows ==
    ASSUME NEW T, NEW b \in Blocks(T), NEW piece \in BodyPieces, b.type = "text" => piece \in TextPieces
    PROVE  [b EXCEPT !.body = Append(@, piece)] \in Blocks(T)
<1> DEFINE body == Append(b.body, piece)
           c == [b EXCEPT !.body = body]
<1>1. body \in Seq(BodyPieces) /\ (b.type = "text" => body \in Seq(TextPieces))
  BY BlockType
<1> HIDE DEF body
<1>2. c \in [type : T, id : 0..2, body : Seq(BodyPieces)] /\ c.type = b.type /\ c.body = body
  BY <1>1 DEF Blocks
<1>3. c \in Blocks(T)
  BY <1>1, <1>2 DEF Blocks
<1> QED BY <1>3 DEF body

-----------------------------------------------------------------------------
(* ProviderStream: the readers *)

LEMMA AnthropicType ==
    ASSUME NEW r \in Readers(TypesOf("anthropic")), NEW e \in AnthropicEvents, NEW s \in AnthropicReads(r, e)
    PROVE  s \in Readers(TypesOf("anthropic"))
<1> DEFINE T == TypesOf("anthropic")
           i == e.index
           b == r.blocks[i]
<1>1. \/ e.kind = "message_start" /\ s = [r EXCEPT !.begun = TRUE]
      \/ e.kind = "ping" /\ s = r
      \/ e.kind = "message_delta" /\ s = [r EXCEPT !.said = e.reason]
      \/ /\ e.kind = "block_start" /\ i = Len(r.blocks) + 1
         /\ s = [r EXCEPT !.open = i, !.blocks = Append(@, [type |-> e.type, id |-> i, body |-> <<>>])]
      \/ /\ e.kind = "block_delta" /\ i = r.open /\ e.piece \in PiecesOf(b.type)
         /\ s = [r EXCEPT !.blocks[i].body = Append(@, e.piece)]
      \/ e.kind = "block_stop" /\ s = [r EXCEPT !.open = 0]
      \/ e.kind = "message_stop" /\ s = [r EXCEPT !.ended = TRUE]
  BY DEF AnthropicReads
<1>2. CASE e.kind = "message_start" /\ s = [r EXCEPT !.begun = TRUE]
  BY <1>2 DEF Readers
<1>3. CASE e.kind = "ping" /\ s = r
  BY <1>3
<1>4. CASE e.kind = "message_delta" /\ s = [r EXCEPT !.said = e.reason]
  <2>1. e.reason \in Saids
    BY <1>4 DEF AnthropicEvents, Saids
  <2> QED BY <1>4, <2>1 DEF Readers
<1>5. CASE /\ e.kind = "block_start" /\ i = Len(r.blocks) + 1
           /\ s = [r EXCEPT !.open = i, !.blocks = Append(@, [type |-> e.type, id |-> i, body |-> <<>>])]
  <2> DEFINE new == [type |-> e.type, id |-> i, body |-> <<>>]
             blocks == Append(r.blocks, new)
  <2>1. e.type \in T /\ i \in 0..2 /\ i \in Nat
    BY <1>5 DEF AnthropicEvents, TypesOf
  <2>2. new \in Blocks(T)
    BY <2>1, EmptyBlock
  <2> HIDE DEF new
  <2>3. blocks \in Seq(Blocks(T)) /\ Len(blocks) = Len(r.blocks) + 1
    BY <2>2, ReaderType, MoreBlocks
  <2>4. s = [r EXCEPT !.open = i, !.blocks = blocks]
    BY <1>5 DEF new
  <2> HIDE DEF blocks
  <2>5. i <= Len(blocks)
    BY <1>5, <2>1, <2>3
  <2> QED BY <2>1, <2>3, <2>4, <2>5 DEF Readers
<1>6. CASE /\ e.kind = "block_delta" /\ i = r.open /\ e.piece \in PiecesOf(b.type)
           /\ s = [r EXCEPT !.blocks[i].body = Append(@, e.piece)]
  <2> DEFINE c == [b EXCEPT !.body = Append(@, e.piece)]
             blocks == [r.blocks EXCEPT ![i] = c]
  <2>1. i \in 1..2
    BY <1>6 DEF AnthropicEvents
  <2>2. i \in DOMAIN r.blocks
    BY <1>6, <2>1, ReaderType
  <2>3. b \in Blocks(T)
    BY <2>2, ReaderType
  <2>4. e.piece \in BodyPieces /\ (b.type = "text" => e.piece \in TextPieces)
    BY <1>6 DEF PiecesOf, BodyPieces, Pieces, TextPieces
  <2>5. c \in Blocks(T)
    <3> HIDE DEF b
    <3> QED BY <2>3, <2>4, BodyGrows
  <2>6. s = [r EXCEPT !.blocks = blocks]
    BY <1>6
  <2> HIDE DEF c, b
  <2>7. blocks \in Seq(Blocks(T)) /\ Len(blocks) = Len(r.blocks)
    BY <2>2, <2>5, ReaderType, BlockGrows
  <2> HIDE DEF blocks
  <2> QED BY <2>6, <2>7 DEF Readers
<1>7. CASE e.kind = "block_stop" /\ s = [r EXCEPT !.open = 0]
  BY <1>7 DEF Readers
<1>8. CASE e.kind = "message_stop" /\ s = [r EXCEPT !.ended = TRUE]
  BY <1>8 DEF Readers
<1> QED BY <1>1, <1>2, <1>3, <1>4, <1>5, <1>6, <1>7, <1>8

LEMMA ResponsesType ==
    ASSUME NEW r \in Readers(TypesOf("responses")), NEW e \in ResponsesEvents, NEW s \in ResponsesReads(r, e)
    PROVE  s \in Readers(TypesOf("responses"))
<1> DEFINE T == TypesOf("responses")
           i == e.index
           b == r.blocks[i]
<1>1. \/ /\ e.kind = "added"
         /\ s = [r EXCEPT !.blocks = Append(@, [type |-> e.item.type, id |-> e.item.id, body |-> <<>>])]
      \/ /\ e.kind = "done" /\ i \in DOMAIN r.blocks
         /\ b = [type |-> e.item.type, id |-> e.item.id, body |-> <<>>]
         /\ s = [r EXCEPT !.blocks[i].body = <<"done">>]
      \/ e.kind = "delta" /\ s = r
      \/ e.kind = "completed" /\ s = [r EXCEPT !.ended = TRUE, !.output = e.output]
  BY DEF ResponsesReads
<1>2. e.kind \in {"added", "done"} => /\ e.item.type \in T /\ e.item.id \in 0..2
                                     /\ e.item.type # "text"
  <2>1. e.kind \in {"added", "done"} => e.item \in ResponsesItems
    BY DEF ResponsesEvents
  <2> QED BY <2>1 DEF ResponsesItems, TypesOf
<1>3. CASE /\ e.kind = "added"
           /\ s = [r EXCEPT !.blocks = Append(@, [type |-> e.item.type, id |-> e.item.id, body |-> <<>>])]
  <2> DEFINE new == [type |-> e.item.type, id |-> e.item.id, body |-> <<>>]
             blocks == Append(r.blocks, new)
  <2>1. new \in Blocks(T)
    BY <1>2, <1>3, EmptyBlock
  <2> HIDE DEF new
  <2>2. blocks \in Seq(Blocks(T)) /\ Len(blocks) = Len(r.blocks) + 1
    BY <2>1, ReaderType, MoreBlocks
  <2>3. s = [r EXCEPT !.blocks = blocks]
    BY <1>3 DEF new
  <2> HIDE DEF blocks
  <2>4. r.open <= Len(blocks)
    BY <2>2, ReaderType
  <2> QED BY <2>2, <2>3, <2>4 DEF Readers
<1>4. CASE /\ e.kind = "done" /\ i \in DOMAIN r.blocks
           /\ b = [type |-> e.item.type, id |-> e.item.id, body |-> <<>>]
           /\ s = [r EXCEPT !.blocks[i].body = <<"done">>]
  <2> DEFINE c == [b EXCEPT !.body = <<"done">>]
             blocks == [r.blocks EXCEPT ![i] = c]
  <2>1. c = [type |-> e.item.type, id |-> e.item.id, body |-> <<"done">>]
    BY <1>4
  <2>2. <<"done">> \in Seq(BodyPieces)
    <3>1. "done" \in BodyPieces
      BY DEF BodyPieces
    <3> QED BY <3>1
  <2>3. c \in Blocks(T)
    <3> HIDE DEF c
    <3> QED BY <1>2, <1>4, <2>1, <2>2, NewBlock
  <2>4. s = [r EXCEPT !.blocks = blocks]
    BY <1>4
  <2> HIDE DEF c, b
  <2>5. blocks \in Seq(Blocks(T)) /\ Len(blocks) = Len(r.blocks)
    BY <1>4, <2>3, ReaderType, BlockGrows
  <2> HIDE DEF blocks
  <2> QED BY <2>4, <2>5 DEF Readers
<1>5. CASE e.kind = "delta" /\ s = r
  BY <1>5
<1>6. CASE e.kind = "completed" /\ s = [r EXCEPT !.ended = TRUE, !.output = e.output]
  <2>1. PICK n \in 0..2 : e.output \in [1..n -> ResponsesItems]
    BY <1>6 DEF ResponsesEvents
  <2>2. e.output \in Seq(ResponsesItems)
    BY <2>1
  <2> QED BY <1>6, <2>2 DEF Readers
<1> QED BY <1>1, <1>3, <1>4, <1>5, <1>6

LEMMA ChatCallType ==
    ASSUME NEW r \in Readers({"tool_use"}), NEW e \in ChatEvents, e.kind = "call", NEW s \in ChatCall(r, e)
    PROVE  s \in Readers({"tool_use"})
<1> DEFINE T == {"tool_use"}
           i == e.index
           fresh == [type |-> "tool_use", id |-> 0, body |-> <<>>]
           calls == IF i = Len(r.blocks) + 1 THEN Append(r.blocks, fresh) ELSE r.blocks
           b == calls[i]
           id == IF e.id = 0 THEN b.id ELSE e.id
           half == [b EXCEPT !.id = id]
           c == [half EXCEPT !.body = Append(@, e.piece)]
           blocks == [calls EXCEPT ![i] = c]
<1>0. i \in 1..2 /\ e.id \in 0..2 /\ e.piece \in {"open", "close"}
  BY DEF ChatEvents
<1>1. fresh \in Blocks(T)
  <2>1. "tool_use" \in T /\ 0 \in 0..2
    OBVIOUS
  <2> HIDE DEF T
  <2> QED BY <2>1, EmptyBlock
<1> HIDE DEF fresh
<1>2. calls \in Seq(Blocks(T)) /\ r.open <= Len(calls)
  <2>1. Append(r.blocks, fresh) \in Seq(Blocks(T)) /\ Len(Append(r.blocks, fresh)) = Len(r.blocks) + 1
    BY <1>1, ReaderType, MoreBlocks
  <2> QED BY <2>1, ReaderType
<1>3. /\ i \in DOMAIN calls
      /\ s = [r EXCEPT !.begun = TRUE,
                       !.blocks = [calls EXCEPT ![i].id = IF e.id = 0 THEN @ ELSE e.id,
                                                ![i].body = Append(@, e.piece)]]
  BY Zenon DEF ChatCall, fresh
<1> HIDE DEF calls
<1>4. b \in Blocks(T)
  BY <1>2, <1>3
<1>5. id \in 0..2
  BY <1>0, <1>4, BlockType
<1> HIDE DEF id, b
<1>6. half \in Blocks(T) /\ half.type = "tool_use"
  BY <1>4, <1>5 DEF Blocks
<1>7. e.piece \in BodyPieces
  BY <1>0 DEF BodyPieces, Pieces
<1> HIDE DEF half
<1>8. c \in Blocks(T)
  BY <1>6, <1>7, BodyGrows
<1>9. [calls EXCEPT ![i].id = IF e.id = 0 THEN @ ELSE e.id, ![i].body = Append(@, e.piece)] = blocks
  BY <1>2, <1>3 DEF half, id, b
<1> HIDE DEF c
<1>10. blocks \in Seq(Blocks(T)) /\ Len(blocks) = Len(calls)
  BY <1>2, <1>3, <1>8, BlockGrows
<1>11. s = [r EXCEPT !.begun = TRUE, !.blocks = blocks]
  BY <1>3, <1>9
<1> HIDE DEF blocks
<1> QED BY <1>2, <1>10, <1>11 DEF Readers

LEMMA ChatType ==
    ASSUME NEW r \in Readers({"tool_use"}), NEW e \in ChatEvents, NEW s \in ChatReads(r, e)
    PROVE  s \in Readers({"tool_use"})
<1>1. \/ e.kind = "text" /\ s = [r EXCEPT !.begun = TRUE, !.text = Append(@, e.piece)]
      \/ e.kind = "call" /\ s \in ChatCall(r, e)
      \/ e.kind = "finish" /\ s = [r EXCEPT !.begun = TRUE, !.said = e.reason]
      \/ s = r
      \/ s = [r EXCEPT !.ended = TRUE]
  BY DEF ChatReads
<1>2. CASE e.kind = "text" /\ s = [r EXCEPT !.begun = TRUE, !.text = Append(@, e.piece)]
  <2>1. e.piece \in TextPieces
    BY <1>2 DEF ChatEvents
  <2>2. Append(r.text, e.piece) \in Seq(TextPieces)
    BY <2>1, ReaderType
  <2> QED BY <1>2, <2>2 DEF Readers
<1>3. CASE e.kind = "finish" /\ s = [r EXCEPT !.begun = TRUE, !.said = e.reason]
  <2>1. e.reason \in Saids
    BY <1>3 DEF ChatEvents, Saids
  <2> QED BY <1>3, <2>1 DEF Readers
<1>4. CASE s = [r EXCEPT !.ended = TRUE]
  BY <1>4 DEF Readers
<1> QED BY <1>1, <1>2, <1>3, <1>4, ChatCallType

LEMMA OllamaType ==
    ASSUME NEW r \in Readers({"tool_use"}), NEW e \in OllamaEvents, NEW s \in OllamaReads(r, e)
    PROVE  s \in Readers({"tool_use"})
<1> DEFINE T == {"tool_use"}
           call == [type |-> "tool_use", id |-> 0, body |-> <<"open", "close">>]
           said == IF e.model = "none" THEN r.said ELSE e.model
           shown == IF e.piece = "none" THEN r.text ELSE Append(r.text, e.piece)
           blocks == IF e.calls = 0 THEN r.blocks ELSE Append(r.blocks, call)
<1>1. s = [r EXCEPT !.said = said, !.text = shown, !.blocks = blocks, !.ended = e.done]
  BY DEF OllamaReads
<1>2. /\ e.piece \in TextPieces \cup {"none"} /\ e.done \in BOOLEAN
      /\ e.model \in {"m1", "m2", "none"}
  BY DEF OllamaEvents
<1>3. said \in Saids
  BY <1>2, ReaderType DEF Saids
<1>4. shown \in Seq(TextPieces)
  BY <1>2, ReaderType
<1>5. call \in Blocks(T)
  <2>1. <<"open", "close">> \in Seq(BodyPieces)
    <3>1. {"open", "close"} \subseteq BodyPieces
      BY DEF BodyPieces, Pieces
    <3> QED BY <3>1
  <2>2. "tool_use" \in T /\ 0 \in 0..2
    OBVIOUS
  <2> HIDE DEF T
  <2> QED BY <2>1, <2>2, NewBlock
<1> HIDE DEF call, said, shown
<1>6. blocks \in Seq(Blocks(T)) /\ r.open <= Len(blocks)
  <2>1. Append(r.blocks, call) \in Seq(Blocks(T)) /\ Len(Append(r.blocks, call)) = Len(r.blocks) + 1
    BY <1>5, ReaderType, MoreBlocks
  <2> QED BY <2>1, ReaderType
<1> HIDE DEF blocks
<1> QED BY <1>1, <1>2, <1>3, <1>4, <1>6 DEF Readers
-----------------------------------------------------------------------------
(* ProviderStream: types *)

LEMMA ReadType ==
    ASSUME NEW family \in ProtocolFamilies, NEW r \in Readers(TypesOf(family)), NEW e \in Events(family),
           NEW s \in ReadingsOf(family, r, e)
    PROVE  s \in Readers(TypesOf(family))
<1>1. CASE family = "anthropic"
  BY <1>1, AnthropicType DEF Events, ReadingsOf
<1>2. CASE family = "responses"
  BY <1>2, ResponsesType DEF Events, ReadingsOf
<1>3. CASE family = "chat"
  BY <1>3, ChatType DEF Events, ReadingsOf, TypesOf
<1>4. CASE family = "ollama"
  BY <1>4, OllamaType DEF Events, ReadingsOf, TypesOf
<1> QED BY <1>1, <1>2, <1>3, <1>4 DEF ProtocolFamilies

LEMMA EmptyReaderType ==
    ASSUME NEW T
    PROVE  EmptyReader \in Readers(T)
<1>1. <<>> \in Seq(Blocks(T)) /\ <<>> \in Seq(TextPieces) /\ <<>> \in Seq(ResponsesItems) /\ Len(<<>>) = 0
  OBVIOUS
<1>2. "none" \in Saids
  BY DEF Saids
<1> QED BY <1>1, <1>2 DEF EmptyReader, Readers

\* What the blocks of an answer say.
LEMMA TextOfType ==
    ASSUME NEW T, NEW blocks \in Seq(Blocks(T))
    PROVE  TextOf(blocks) \in Seq(TextPieces)
<1> DEFINE said == [i \in DOMAIN blocks |-> IF blocks[i].type = "text" THEN blocks[i].body ELSE <<>>]
<1>1. said \in Seq(Seq(TextPieces))
  <2>1. DOMAIN blocks = 1..Len(blocks) /\ Len(blocks) \in Nat
    OBVIOUS
  <2>2. ASSUME NEW i \in DOMAIN blocks PROVE said[i] \in Seq(TextPieces)
    <3>1. blocks[i] \in Blocks(T)
      OBVIOUS
    <3> QED BY <3>1, BlockType
  <2> HIDE DEF said
  <2>3. DOMAIN said = DOMAIN blocks /\ said = [i \in DOMAIN blocks |-> said[i]]
    BY DEF said
  <2> QED BY <2>1, <2>2, <2>3
<1> QED BY <1>1, FlattenType DEF TextOf

LEMMA DecodedType ==
    ASSUME NEW family \in ProtocolFamilies, NEW r \in Readers(TypesOf(family))
    PROVE  Decoded(family, r).text \in Seq(TextPieces)
<1>1. r.text \in Seq(TextPieces) /\ TextOf(r.blocks) \in Seq(TextPieces) /\ <<>> \in Seq(TextPieces)
  BY ReaderType, TextOfType
<1>2. Decoded(family, r).text \in {r.text, TextOf(r.blocks), <<>>}
  BY DEF Decoded, ProtocolFamilies
<1> QED BY <1>1, <1>2

Previews == [pending : Seq(TextPieces), shown : Seq(TextPieces), on : BOOLEAN]

LEMMA PreviewType ==
    ASSUME NEW p \in Previews, NEW piece \in TextPieces \cup {"none"}, NEW displayed \in BOOLEAN
    PROVE  Previewed(p, piece, displayed) \in Previews
<1>1. CASE ~p.on \/ piece = "none"
  BY <1>1 DEF Previewed
<1>2. CASE ~(~p.on \/ piece = "none") /\ piece = "word"
  <2>1. Append(p.pending, piece) \in Seq(TextPieces)
    BY <1>2 DEF Previews
  <2>2. Previewed(p, piece, displayed) = [p EXCEPT !.pending = Append(@, piece)]
    BY <1>2 DEF Previewed
  <2> QED BY <2>1, <2>2 DEF Previews
<1>3. CASE ~(~p.on \/ piece = "none") /\ piece # "word" /\ displayed
  <2>1. p.shown \o p.pending \o <<piece>> \in Seq(TextPieces)
    BY <1>3 DEF Previews
  <2>2. Previewed(p, piece, displayed)
          = [p EXCEPT !.pending = <<>>, !.shown = @ \o p.pending \o <<piece>>]
    BY <1>3 DEF Previewed
  <2>3. <<>> \in Seq(TextPieces)
    OBVIOUS
  <2> QED BY <2>1, <2>2, <2>3 DEF Previews
<1>4. CASE ~(~p.on \/ piece = "none") /\ piece # "word" /\ ~displayed
  <2>1. <<>> \in Seq(TextPieces)
    OBVIOUS
  <2> QED BY <1>4, <2>1 DEF Previewed, Previews
<1> QED BY <1>1, <1>2, <1>3, <1>4

LEMMA DeltaType ==
    ASSUME NEW family \in ProtocolFamilies, NEW e \in Events(family)
    PROVE  Delta(family, e) \in TextPieces \cup {"none"}
<1>1. CASE family = "anthropic"
  BY <1>1 DEF Delta
<1>2. CASE family = "responses"
  BY <1>2 DEF Delta, Events, ResponsesEvents
<1>3. CASE family = "chat"
  BY <1>3 DEF Delta, Events, ChatEvents
<1>4. CASE family = "ollama"
  BY <1>4 DEF Delta, Events, OllamaEvents
<1> QED BY <1>1, <1>2, <1>3, <1>4 DEF ProtocolFamilies

Exchanges ==
    [family : Families, stream : BOOLEAN, attempt : 1..(MaxRetries + 1), committed : BOOLEAN,
     phase : {"prepare", "open", "reading", "body", "failed", "answered"},
     retryable : BOOLEAN, shownBefore : BOOLEAN]

ProviderTyped ==
    /\ exchange \in Exchanges
    /\ reader \in Readers(TypesOf(exchange.family))
    /\ heard \in Seq(Events(exchange.family)) /\ Len(heard) <= MaxEvents
    /\ preview \in Previews
    /\ answer.text \in Seq(TextPieces)

LEMMA ProviderTypedInit == ProviderInit => ProviderTyped
<1> SUFFICES ASSUME ProviderInit PROVE ProviderTyped
  OBVIOUS
<1>1. exchange \in Exchanges
  <2>1. 1 \in 1..(MaxRetries + 1)
    BY ProviderAssumption
  <2>2. exchange \in [family : Families, stream : BOOLEAN, attempt : {1}, phase : {"prepare"},
                      committed : {FALSE}, retryable : {FALSE}, shownBefore : {FALSE}]
    BY DEF ProviderInit
  <2> QED BY <2>1, <2>2 DEF Exchanges
<1>2. <<>> \in Seq(TextPieces) /\ <<>> \in Seq(Events(exchange.family)) /\ Len(<<>>) = 0
  OBVIOUS
<1> QED BY <1>1, <1>2, EmptyReaderType, ProviderAssumption
        DEF ProviderInit, ProviderTyped, Previews, NoPreview, Nothing

LEMMA FailTyped ==
    ASSUME ProviderTyped, NEW retryable \in BOOLEAN, NEW committed \in BOOLEAN,
           FailExchange(retryable, committed)
    PROVE  ProviderTyped'
<1>1. exchange' \in Exchanges /\ exchange'.family = exchange.family
  BY DEF ProviderTyped, FailExchange, Exchanges
<1>2. <<>> \in Seq(Events(exchange.family)) /\ Len(<<>>) = 0
  OBVIOUS
<1> QED BY <1>1, <1>2, EmptyReaderType, ProviderAssumption DEF ProviderTyped, FailExchange

LEMMA ReadEventTyped ==
    ASSUME ProviderTyped, ReadEvent
    PROVE  ProviderTyped'
<1> DEFINE family == exchange.family
<1>1. PICK e \in Events(family), displayed \in BOOLEAN :
         LET reads == ReadingsOf(family, reader, e) IN
         IF reads = {} THEN FailExchange(FALSE, CommittedBy(reads))
         ELSE /\ e.kind # "ping" /\ UNCHANGED request
              /\ \E r \in reads :
                   /\ preview' = Previewed(preview, Delta(family, e), displayed)
                   /\ IF r.ended /\ ~Decodes(family, r)
                      THEN /\ exchange' = [exchange EXCEPT !.phase = "failed", !.committed = TRUE]
                           /\ reader' = EmptyReader /\ heard' = <<>> /\ UNCHANGED answer
                      ELSE /\ exchange' = [exchange EXCEPT !.phase = IF r.ended THEN "answered" ELSE @,
                                                           !.committed = TRUE]
                           /\ reader' = r /\ heard' = Append(heard, e)
                           /\ answer' = IF r.ended THEN Decoded(family, r) ELSE answer
  BY Zenon DEF ReadEvent
<1> DEFINE reads == ReadingsOf(family, reader, e)
<1>2. family \in ProtocolFamilies /\ exchange \in Exchanges
  BY ProviderAssumption DEF ProviderTyped, Exchanges
<1>3. CASE reads = {}
  <2>1. FailExchange(FALSE, CommittedBy(reads))
    BY <1>1, <1>3
  <2>2. CommittedBy(reads) \in BOOLEAN
    BY <1>2 DEF CommittedBy, Exchanges
  <2> HIDE DEF reads
  <2> QED BY <2>1, <2>2, FailTyped
<1>4. CASE reads # {}
  <2>1. PICK r \in reads :
            /\ preview' = Previewed(preview, Delta(family, e), displayed)
            /\ IF r.ended /\ ~Decodes(family, r)
               THEN /\ exchange' = [exchange EXCEPT !.phase = "failed", !.committed = TRUE]
                    /\ reader' = EmptyReader /\ heard' = <<>> /\ UNCHANGED answer
               ELSE /\ exchange' = [exchange EXCEPT !.phase = IF r.ended THEN "answered" ELSE @,
                                                    !.committed = TRUE]
                    /\ reader' = r /\ heard' = Append(heard, e)
                    /\ answer' = IF r.ended THEN Decoded(family, r) ELSE answer
    BY <1>1, <1>4
  <2>2. r \in Readers(TypesOf(family))
    BY <1>2, ReadType DEF ProviderTyped
  <2> HIDE DEF reads
  <2>3. preview' \in Previews
    BY <1>2, <2>1, DeltaType, PreviewType DEF ProviderTyped
  <2>4. exchange' \in Exchanges /\ exchange'.family = family
    <3>1. \E phase \in {exchange.phase, "failed", "answered"} :
              exchange' = [exchange EXCEPT !.phase = phase, !.committed = TRUE]
      BY <2>1, Zenon
    <3>2. exchange.phase \in {"prepare", "open", "reading", "body", "failed", "answered"}
      BY <1>2 DEF Exchanges
    <3> QED BY <1>2, <3>1, <3>2 DEF Exchanges
  <2>5. reader' \in Readers(TypesOf(family))
    BY <2>1, <2>2, EmptyReaderType
  <2>6. heard' \in Seq(Events(family)) /\ Len(heard') <= MaxEvents
    <3>1. heard \in Seq(Events(family)) /\ Len(heard) < MaxEvents /\ MaxEvents \in Nat
      <4>1. Len(heard) < EventBound(family) /\ heard \in Seq(Events(family)) /\ MaxEvents \in Nat
        BY ProviderAssumption DEF ProviderTyped, ReadEvent
      <4>2. EventBound(family) \in {MaxEvents, MaxEvents - 2, MaxEvents - 3}
        BY DEF EventBound
      <4> HIDE DEF family
      <4>3. Len(heard) \in Nat
        BY <4>1
      <4> QED BY <4>1, <4>2, <4>3
    <3> HIDE DEF family
    <3>2. Append(heard, e) \in Seq(Events(family)) /\ Len(Append(heard, e)) = Len(heard) + 1
      BY <3>1
    <3>3. <<>> \in Seq(Events(family)) /\ Len(<<>>) = 0
      OBVIOUS
    <3>4. heard' = <<>> \/ heard' = Append(heard, e)
      BY <2>1
    <3>5. Len(heard) \in Nat
      BY <3>1
    <3>6. 0 <= MaxEvents /\ Len(heard) + 1 <= MaxEvents
      BY <3>1, <3>5
    <3>7. CASE heard' = <<>>
      BY <3>3, <3>6, <3>7, Zenon
    <3>8. CASE heard' = Append(heard, e)
      BY <3>2, <3>6, <3>8, Zenon
    <3> QED BY <3>4, <3>7, <3>8
  <2>7. answer'.text \in Seq(TextPieces)
    BY <1>2, <2>1, <2>2, DecodedType DEF ProviderTyped
  <2> QED BY <2>3, <2>4, <2>5, <2>6, <2>7 DEF ProviderTyped
<1> QED BY <1>3, <1>4

LEMMA ProviderTypedNext == ProviderTyped /\ [ProviderNext]_providerVars => ProviderTyped'
<1> SUFFICES ASSUME ProviderTyped, [ProviderNext]_providerVars PROVE ProviderTyped'
  OBVIOUS
<1>0. exchange.committed \in BOOLEAN
  BY DEF ProviderTyped, Exchanges
<1>1. CASE PrepareExchange
  <2>1. CASE FailExchange(FALSE, FALSE)
    BY <2>1, FailTyped
  <2>2. CASE ~FailExchange(FALSE, FALSE)
    <3>1. /\ exchange' = [exchange EXCEPT !.phase = "open"]
          /\ UNCHANGED <<reader, heard, preview, answer>>
      BY <1>1, <2>2 DEF PrepareExchange
    <3> QED BY <3>1 DEF ProviderTyped, Exchanges
  <2> QED BY <2>1, <2>2
<1>2. CASE OpenRequest
  <2>1. ASSUME NEW code, FailExchange(StatusRetryable(code), FALSE) PROVE ProviderTyped'
    <3>1. StatusRetryable(code) \in BOOLEAN
      BY DEF StatusRetryable
    <3> QED BY <2>1, <3>1, FailTyped
  <2>2. CASE FailExchange(TRUE, FALSE)
    BY <2>2, FailTyped
  <2>3. CASE /\ exchange' = [exchange EXCEPT !.phase = IF exchange.stream THEN "reading" ELSE "body"]
             /\ UNCHANGED <<reader, heard, preview, answer>>
    BY <2>3 DEF ProviderTyped, Exchanges
  <2> QED BY <1>2, <2>1, <2>2, <2>3 DEF OpenRequest
<1>3. CASE ReadBody
  <2>1. ASSUME NEW retryable \in BOOLEAN, FailExchange(retryable, FALSE) PROVE ProviderTyped'
    BY <2>1, FailTyped
  <2>2. CASE /\ exchange' = [exchange EXCEPT !.phase = "answered"]
             /\ \E pieces \in {<<>>, <<"word">>} : answer' = [Nothing EXCEPT !.text = pieces]
             /\ UNCHANGED <<request, reader, heard, preview>>
    <3>1. <<>> \in Seq(TextPieces) /\ <<"word">> \in Seq(TextPieces)
      BY DEF TextPieces
    <3>2. answer'.text \in {<<>>, <<"word">>}
      BY <2>2 DEF Nothing
    <3>3. answer'.text \in Seq(TextPieces)
      BY <3>1, <3>2
    <3>4. exchange' \in Exchanges /\ exchange'.family = exchange.family
      BY <2>2 DEF ProviderTyped, Exchanges
    <3> QED BY <2>2, <3>3, <3>4 DEF ProviderTyped
  <2> QED BY <1>3, <2>1, <2>2 DEF ReadBody
<1>4. CASE ReadEvent
  BY <1>4, ReadEventTyped
<1>5. CASE EndOfStream
  BY <1>0, <1>5, FailTyped DEF EndOfStream
<1>6. CASE BadEvent
  BY <1>0, <1>6, FailTyped DEF BadEvent
<1>7. CASE ConnectionLost
  BY <1>0, <1>7, FailTyped DEF ConnectionLost
<1>8. CASE Retry
  <2>1. <<>> \in Seq(TextPieces)
    OBVIOUS
  <2>2. preview' \in Previews
    BY <1>8, <2>1 DEF Retry, NoPreview, Previews
  <2>3. exchange' \in Exchanges /\ exchange'.family = exchange.family
    <3>1. exchange.attempt + 1 \in 1..(MaxRetries + 1) /\ exchange \in Exchanges
      BY <1>8, ProviderAssumption DEF Retry, ProviderTyped, Exchanges
    <3>2. exchange' = [exchange EXCEPT !.attempt = @ + 1, !.phase = "prepare", !.retryable = FALSE,
                                       !.shownBefore = @ \/ preview.shown # <<>>]
      BY <1>8 DEF Retry
    <3>3. (exchange.shownBefore \/ preview.shown # <<>>) \in BOOLEAN
      BY <3>1 DEF Exchanges
    <3> QED BY <3>1, <3>2, <3>3 DEF Exchanges
  <2> QED BY <1>8, <2>2, <2>3 DEF Retry, ProviderTyped
<1>9. CASE UNCHANGED providerVars
  BY <1>9 DEF providerVars, ProviderTyped
<1> QED BY <1>1, <1>2, <1>3, <1>4, <1>5, <1>6, <1>7, <1>8, <1>9 DEF ProviderNext

LEMMA ProviderTypedFits == ProviderTyped => ProviderTypeOK
<1> SUFFICES ASSUME ProviderTyped PROVE ProviderTypeOK
  OBVIOUS
<1>1. reader.open \in 0..Len(reader.blocks)
  BY ReaderType DEF ProviderTyped
<1> QED BY <1>1 DEF ProviderTyped, ProviderTypeOK, Exchanges, Previews

-----------------------------------------------------------------------------
(* ProviderStream: picking from sequences *)

\* Short sequences.
LEMMA OneIs ==
    ASSUME NEW T, NEW a \in T
    PROVE  <<a>> \in Seq(T) /\ Len(<<a>>) = 1 /\ DOMAIN <<a>> = 1..1 /\ <<a>>[1] = a
  OBVIOUS

LEMMA TwoIs ==
    ASSUME NEW T, NEW a \in T, NEW b \in T
    PROVE  <<a, b>> \in Seq(T) /\ Len(<<a, b>>) = 2 /\ DOMAIN <<a, b>> = 1..2 /\ <<a, b>>[1] = a /\ <<a, b>>[2] = b
  OBVIOUS

LEMMA ShortJoined ==
    ASSUME NEW T, NEW a \in T, NEW b \in T, NEW c \in T
    PROVE  /\ <<a>> \o <<b>> = <<a, b>> /\ <<>> \o <<a>> = <<a>> /\ <<a, b>> \o <<c>> = <<a, b, c>>
           /\ Append(Append(<<>>, a), b) = <<a, b>>
<1> DEFINE two == <<a, b>>
           three == <<a, b, c>>
<1>1. <<a>> \in Seq(T) /\ Len(<<a>>) = 1 /\ <<a>>[1] = a /\ <<>> \in Seq(T) /\ Len(<<>>) = 0
  OBVIOUS
<1>2. <<a>> \o <<b>> = Append(<<a>>, b) /\ <<a, b>> \o <<c>> = Append(<<a, b>>, c) /\ Append(<<>>, a) = <<a>>
  <2>1. <<a, b>> \in Seq(T)
    OBVIOUS
  <2>2. Append(<<>>, a) = <<a>>
    OBVIOUS
  <2> QED BY <1>1, <2>1, <2>2, AppendIsConcat
<1>3. two \in Seq(T) /\ Len(two) = 2 /\ two[1] = a /\ two[2] = b
  OBVIOUS
<1>4. three \in Seq(T) /\ Len(three) = 3 /\ three[1] = a /\ three[2] = b /\ three[3] = c
  OBVIOUS
<1>5. Append(<<a>>, b) = two
  <2> DEFINE one == <<a>>
             p == Append(one, b)
  <2>1. one \in Seq(T) /\ Len(one) = 1 /\ one[1] = a
    BY <1>1
  <2> HIDE DEF one, two
  <2>2. p \in Seq(T) /\ Len(p) = 2 /\ p[1] = a /\ p[2] = b
    BY <2>1, AppendProperties
  <2> HIDE DEF p
  <2>3. \A i \in 1..Len(p) : p[i] = two[i]
    <3>1. \A i \in 1..Len(p) : i = 1 \/ i = 2
      BY <2>2
    <3> QED BY <1>3, <2>2, <3>1
  <2>4. p = two
    BY <1>3, <2>2, <2>3, SeqEqual
  <2> QED BY <2>4 DEF p, one
<1>6. Append(two, c) = three
  <2> DEFINE p == Append(two, c)
  <2> HIDE DEF two, three
  <2>2. p \in Seq(T) /\ Len(p) = 3 /\ p[1] = a /\ p[2] = b /\ p[3] = c
    <3>1. /\ p \in Seq(T) /\ Len(p) = Len(two) + 1 /\ p[Len(two) + 1] = c
          /\ \A i \in 1..Len(two) : p[i] = two[i]
      <4>1. two \in Seq(T) /\ c \in T
        BY <1>3
      <4> HIDE DEF p
      <4>2. \A q \in Seq(T) : /\ Append(q, c) \in Seq(T) /\ Len(Append(q, c)) = Len(q) + 1
                             /\ Append(q, c)[Len(q) + 1] = c /\ \A i \in 1..Len(q) : Append(q, c)[i] = q[i]
        BY AppendProperties
      <4> QED BY <4>1, <4>2, Zenon DEF p
    <3> HIDE DEF p
    <3>2. 1 \in 1..Len(two) /\ 2 \in 1..Len(two)
      BY <1>3
    <3> QED BY <1>3, <3>1, <3>2
  <2> HIDE DEF p
  <2>3. \A i \in 1..Len(p) : p[i] = three[i]
    <3>1. \A i \in 1..Len(p) : i = 1 \/ i = 2 \/ i = 3
      BY <2>2
    <3> QED BY <1>4, <2>2, <3>1
  <2>4. p = three
    BY <1>4, <2>2, <2>3, SeqEqual
  <2> QED BY <2>4 DEF p
<1>7. <<>> \o <<a>> = <<a>>
  BY <1>1, ConcatEmptySeq
<1> QED BY <1>2, <1>5, <1>6, <1>7

\* Induction over the sequences of a set.
LEMMA SequenceInduction ==
    ASSUME NEW T, NEW S, <<>> \in S, \A s \in Seq(T), x \in T : s \in S => Append(s, x) \in S
    PROVE  \A s \in Seq(T) : s \in S
<1> DEFINE N == {n \in Nat : \A s \in Seq(T) : Len(s) = n => s \in S}
<1>1. 0 \in N
  <2>1. \A s \in Seq(T) : Len(s) = 0 => s = <<>>
    BY EmptySeq
  <2> QED BY <2>1
<1>2. ASSUME NEW n \in Nat, n \in N
      PROVE  n + 1 \in N
  <2> SUFFICES ASSUME NEW s \in Seq(T), Len(s) = n + 1 PROVE s \in S
    OBVIOUS
  <2>1. s # <<>>
    OBVIOUS
  <2>2. PICK r \in Seq(T), x \in T : s = Append(r, x)
    BY <2>1, SequenceEmptyOrAppend
  <2>3. Len(r) = n
    BY <2>2
  <2> QED BY <1>2, <2>2, <2>3
<1> HIDE DEF N
<1>3. \A n \in Nat : n \in N
  BY <1>1, <1>2, Induction
<1> QED BY <1>3 DEF N

LEMMA PickedEmpty ==
    ASSUME NEW I
    PROVE  Picked(<<>>, I) = <<>>
<1>1. [i \in DOMAIN <<>> |-> IF i \in I THEN << <<>>[i] >> ELSE <<>>] = <<>>
  OBVIOUS
<1> QED BY <1>1, FlattenEmpty, Zenon DEF Picked

\* What is put together of s.
Parts(s, I) == [i \in DOMAIN s |-> IF i \in I THEN <<s[i]>> ELSE <<>>]

LEMMA PartsType ==
    ASSUME NEW T, NEW s \in Seq(T), NEW I
    PROVE  /\ Parts(s, I) \in Seq(Seq(T)) /\ Len(Parts(s, I)) = Len(s)
           /\ \A i \in 1..Len(s) : Parts(s, I)[i] = IF i \in I THEN <<s[i]>> ELSE <<>>
<1>1. DOMAIN s = 1..Len(s) /\ Len(s) \in Nat /\ \A i \in 1..Len(s) : s[i] \in T
  OBVIOUS
<1>2. \A x \in T : <<x>> \in Seq(T)
  OBVIOUS
<1>3. <<>> \in Seq(T)
  OBVIOUS
<1>4. \A i \in 1..Len(s) : Parts(s, I)[i] = (IF i \in I THEN <<s[i]>> ELSE <<>>)
  BY <1>1 DEF Parts
<1>5. \A i \in 1..Len(s) : Parts(s, I)[i] \in Seq(T)
  BY <1>1, <1>2, <1>3, <1>4
<1>6. Parts(s, I) = [i \in 1..Len(s) |-> Parts(s, I)[i]]
  BY <1>1 DEF Parts
<1>7. Parts(s, I) \in Seq(Seq(T)) /\ Len(Parts(s, I)) = Len(s)
  BY <1>1, <1>5, <1>6
<1> QED BY <1>4, <1>7

LEMMA PickedType ==
    ASSUME NEW T, NEW s \in Seq(T), NEW I
    PROVE  Picked(s, I) \in Seq(T)
<1>1. Parts(s, I) \in Seq(Seq(T))
  BY PartsType
<1>2. Picked(s, I) = FlattenSeq(Parts(s, I))
  BY Zenon DEF Picked, Parts
<1> QED BY <1>1, <1>2, FlattenType

\* One more element.
LEMMA PickedAppend ==
    ASSUME NEW T, NEW s \in Seq(T), NEW x \in T, NEW I, NEW J, \A i \in DOMAIN s : i \in I <=> i \in J
    PROVE  Picked(Append(s, x), J) = IF Len(s) + 1 \in J THEN Append(Picked(s, I), x) ELSE Picked(s, I)
<1> DEFINE u == Append(s, x)
           last == IF Len(s) + 1 \in J THEN <<x>> ELSE <<>>
<1>1. /\ u \in Seq(T) /\ Len(u) = Len(s) + 1 /\ u[Len(s) + 1] = x /\ Len(s) \in Nat
      /\ \A i \in 1..Len(s) : u[i] = s[i]
  BY AppendProperties
<1> HIDE DEF u
<1>2. last \in Seq(T)
  OBVIOUS
<1>3. Parts(u, J) = Append(Parts(s, I), last)
  <2> DEFINE a == Parts(u, J)
             b == Parts(s, I)
             c == Append(b, last)
  <2>1. /\ a \in Seq(Seq(T)) /\ Len(a) = Len(s) + 1
        /\ \A i \in 1..Len(u) : a[i] = IF i \in J THEN <<u[i]>> ELSE <<>>
    BY <1>1, PartsType
  <2>2. /\ b \in Seq(Seq(T)) /\ Len(b) = Len(s)
        /\ \A i \in 1..Len(s) : b[i] = IF i \in I THEN <<s[i]>> ELSE <<>>
    BY PartsType
  <2> HIDE DEF a, b, last
  <2>3. /\ c \in Seq(Seq(T)) /\ Len(c) = Len(s) + 1 /\ c[Len(s) + 1] = last
        /\ \A i \in 1..Len(s) : c[i] = b[i]
    BY <1>2, <2>2, AppendProperties
  <2> HIDE DEF c
  <2>4. \A i \in 1..Len(a) : a[i] = c[i]
    <3> TAKE i \in 1..Len(a)
    <3>1. CASE i \in 1..Len(s)
      <4>1. i \in DOMAIN s /\ i \in 1..Len(u)
        BY <1>1, <3>1
      <4>2. (i \in I <=> i \in J) /\ u[i] = s[i]
        BY <1>1, <3>1, <4>1
      <4> QED BY <2>1, <2>2, <2>3, <3>1, <4>1, <4>2
    <3>2. CASE i = Len(s) + 1
      BY <1>1, <2>1, <2>3, <3>2 DEF last
    <3>3. i \in 1..Len(s) \/ i = Len(s) + 1
      BY <1>1, <2>1
    <3> QED BY <3>1, <3>2, <3>3
  <2>5. a = c
    BY <2>1, <2>3, <2>4, SeqEqual
  <2> QED BY <2>5 DEF a, b, c
<1>4. Parts(s, I) \in Seq(Seq(T))
  BY PartsType
<1> HIDE DEF last
<1>5. FlattenSeq(Parts(u, J)) = FlattenSeq(Parts(s, I)) \o last
  BY <1>2, <1>3, <1>4, FlattenAppended
<1>6. Picked(u, J) = FlattenSeq(Parts(u, J)) /\ Picked(s, I) = FlattenSeq(Parts(s, I))
  BY Zenon DEF Picked, Parts
<1>7. Picked(s, I) \in Seq(T)
  BY PickedType
<1>8. Picked(s, I) \o <<x>> = Append(Picked(s, I), x) /\ Picked(s, I) \o <<>> = Picked(s, I)
  BY <1>7, AppendIsConcat, ConcatEmptySeq
<1> QED BY <1>5, <1>6, <1>8 DEF last, u

LEMMA PickedMore ==
    ASSUME NEW T, NEW s \in Seq(T), NEW x \in T, NEW I
    PROVE  Picked(Append(s, x), I) = IF Len(s) + 1 \in I THEN Append(Picked(s, I), x) ELSE Picked(s, I)
<1>1. \A i \in DOMAIN s : i \in I <=> i \in I
  OBVIOUS
<1> QED BY <1>1, PickedAppend

\* Everything.
LEMMA PickedAll ==
    ASSUME NEW T, NEW s \in Seq(T), NEW I, DOMAIN s \subseteq I
    PROVE  Picked(s, I) = s
<1> DEFINE S == {q \in Seq(T) : DOMAIN q \subseteq I => Picked(q, I) = q}
<1>1. <<>> \in S
  BY PickedEmpty
<1>2. ASSUME NEW q \in Seq(T), NEW x \in T, q \in S
      PROVE  Append(q, x) \in S
  <2> SUFFICES ASSUME DOMAIN Append(q, x) \subseteq I PROVE Picked(Append(q, x), I) = Append(q, x)
    OBVIOUS
  <2>1. DOMAIN q \subseteq I /\ Len(q) + 1 \in I
    BY AppendProperties
  <2>2. Picked(q, I) = q
    BY <1>2, <2>1
  <2>3. \A i \in DOMAIN q : i \in I <=> i \in I
    OBVIOUS
  <2>4. Picked(Append(q, x), I) = Append(Picked(q, I), x)
    BY <2>1, <2>3, PickedAppend
  <2> QED BY <2>2, <2>4
<1> HIDE DEF S
<1>3. \A q \in Seq(T) : q \in S
  BY <1>1, <1>2, SequenceInduction
<1> QED BY <1>3 DEF S

\* The same positions of two sequences.
PickedTogether(s, t, I) ==
    /\ Len(Picked(t, I)) = Len(Picked(s, I))
    /\ \A k \in 1..Len(Picked(s, I)) :
         \E i \in DOMAIN s : i \in I /\ Picked(s, I)[k] = s[i] /\ Picked(t, I)[k] = t[i]

LEMMA PickedAlike ==
    ASSUME NEW T, NEW U, NEW s \in Seq(T), NEW t \in Seq(U), Len(s) = Len(t), NEW I
    PROVE  PickedTogether(s, t, I)
<1> DEFINE S == {q \in Seq(T) : \A r \in Seq(U) : Len(r) = Len(q) => PickedTogether(q, r, I)}
<1>1. <<>> \in S
  <2>1. \A r \in Seq(U) : Len(r) = 0 => r = <<>>
    BY EmptySeq
  <2>2. PickedTogether(<<>>, <<>>, I)
    BY PickedEmpty DEF PickedTogether
  <2>3. <<>> \in Seq(T) /\ Len(<<>>) = 0
    OBVIOUS
  <2> QED BY <2>1, <2>2, <2>3
<1>2. ASSUME NEW q \in Seq(T), NEW x \in T, q \in S
      PROVE  Append(q, x) \in S
  <2>0. Append(q, x) \in Seq(T) /\ Len(Append(q, x)) = Len(q) + 1
    OBVIOUS
  <2> SUFFICES ASSUME NEW r \in Seq(U), Len(r) = Len(q) + 1 PROVE PickedTogether(Append(q, x), r, I)
    BY <2>0
  <2>1. r # <<>>
    OBVIOUS
  <2>2. PICK v \in Seq(U), y \in U : r = Append(v, y)
    BY <2>1, SequenceEmptyOrAppend
  <2>3. Len(v) = Len(q)
    BY <2>2
  <2>4. PickedTogether(q, v, I)
    BY <1>2, <2>3
  <2> DEFINE a == Picked(q, I)
             b == Picked(v, I)
             w == Append(q, x)
  <2>5. /\ Picked(w, I) = IF Len(q) + 1 \in I THEN Append(a, x) ELSE a
        /\ Picked(r, I) = IF Len(v) + 1 \in I THEN Append(b, y) ELSE b
    <3>1. \A i \in DOMAIN q : i \in I <=> i \in I
      OBVIOUS
    <3>2. \A i \in DOMAIN v : i \in I <=> i \in I
      OBVIOUS
    <3>3. Picked(Append(q, x), I) = IF Len(q) + 1 \in I THEN Append(Picked(q, I), x) ELSE Picked(q, I)
      BY <3>1, PickedAppend
    <3>4. Picked(Append(v, y), I) = IF Len(v) + 1 \in I THEN Append(Picked(v, I), y) ELSE Picked(v, I)
      BY <3>2, PickedAppend
    <3> QED BY <2>2, <3>3, <3>4
  <2>6. a \in Seq(T) /\ b \in Seq(U)
    BY PickedType
  <2>7. /\ \A i \in DOMAIN q : w[i] = q[i] /\ r[i] = v[i] /\ i \in DOMAIN w
        /\ w[Len(q) + 1] = x /\ r[Len(q) + 1] = y /\ Len(q) + 1 \in DOMAIN w
    BY <2>2, <2>3, AppendProperties
  <2>8. /\ Len(b) = Len(a)
        /\ \A k \in 1..Len(a) : \E i \in DOMAIN q : i \in I /\ a[k] = q[i] /\ b[k] = v[i]
    BY <2>4 DEF PickedTogether
  <2>9. Picked(w, I) = IF Len(q) + 1 \in I THEN Append(a, x) ELSE a
    BY <2>5
  <2>10. Picked(r, I) = IF Len(q) + 1 \in I THEN Append(b, y) ELSE b
    BY <2>3, <2>5
  <2> HIDE DEF a, b, w
  <2>11. \A k \in 1..Len(a) : \E i \in DOMAIN w : i \in I /\ a[k] = w[i] /\ b[k] = r[i]
    BY <2>7, <2>8
  <2>12. CASE Len(q) + 1 \notin I
    BY <2>8, <2>9, <2>10, <2>11, <2>12 DEF PickedTogether, w
  <2>13. CASE Len(q) + 1 \in I
    <3> DEFINE c == Append(a, x)
               d == Append(b, y)
    <3>1. /\ Len(c) = Len(a) + 1 /\ Len(d) = Len(a) + 1 /\ Len(a) \in Nat
          /\ \A k \in 1..Len(a) : c[k] = a[k] /\ d[k] = b[k]
          /\ c[Len(a) + 1] = x /\ d[Len(a) + 1] = y
      BY <2>6, <2>8, AppendProperties
    <3>2. Picked(w, I) = c /\ Picked(r, I) = d
      BY <2>9, <2>10, <2>13
    <3> HIDE DEF c, d
    <3>3. \A k \in 1..Len(c) : \E i \in DOMAIN w : i \in I /\ c[k] = w[i] /\ d[k] = r[i]
      <4> TAKE k \in 1..Len(c)
      <4>1. k \in 1..Len(a) \/ k = Len(a) + 1
        BY <3>1
      <4>2. CASE k \in 1..Len(a)
        BY <2>11, <3>1, <4>2
      <4>3. CASE k = Len(a) + 1
        BY <2>7, <2>13, <3>1, <4>3
      <4> QED BY <4>1, <4>2, <4>3
    <3>4. Len(d) = Len(c)
      BY <3>1
    <3>5. PickedTogether(w, r, I)
      BY <3>2, <3>3, <3>4, Zenon DEF PickedTogether
    <3> QED BY <3>5 DEF w
  <2> QED BY <2>12, <2>13
<1> HIDE DEF S
<1>3. s \in S
  BY <1>1, <1>2, SequenceInduction
<1> QED BY <1>3 DEF S

\* The beginning of a sequence.
Leads(s, t, T) == \E rest \in Seq(T) : t = s \o rest

LEMMA LeadsAppend ==
    ASSUME NEW T, NEW s \in Seq(T), NEW t \in Seq(T), NEW x \in T, Leads(s, t, T)
    PROVE  Leads(s, Append(t, x), T)
<1>1. PICK rest \in Seq(T) : t = s \o rest
  BY DEF Leads
<1>2. Append(rest, x) \in Seq(T) /\ <<x>> \in Seq(T)
  OBVIOUS
<1>3. Append(t, x) = s \o Append(rest, x)
  <2>1. Append(t, x) = t \o <<x>> /\ Append(rest, x) = rest \o <<x>>
    BY AppendIsConcat
  <2>2. (s \o rest) \o <<x>> = s \o (rest \o <<x>>)
    BY <1>2, ConcatAssociative
  <2> QED BY <1>1, <2>1, <2>2
<1> QED BY <1>2, <1>3 DEF Leads

LEMMA LeadsSelf ==
    ASSUME NEW T, NEW s \in Seq(T)
    PROVE  Leads(s, s, T)
<1>1. s = s \o <<>> /\ <<>> \in Seq(T)
  BY ConcatEmptySeq
<1> QED BY <1>1 DEF Leads

\* The parts of two sequences.
LEMMA PickedConcat ==
    ASSUME NEW T, NEW s \in Seq(T), NEW t \in Seq(T), NEW I, NEW J,
           \A i \in 1..Len(t) : i \in J <=> Len(s) + i \in I
    PROVE  Picked(s \o t, I) = Picked(s, I) \o Picked(t, J)
<1> DEFINE u == s \o t
           a == Parts(u, I)
           b == Parts(s, I)
           c == Parts(t, J)
           d == b \o c
<1>1. /\ u \in Seq(T) /\ Len(u) = Len(s) + Len(t) /\ Len(s) \in Nat /\ Len(t) \in Nat
      /\ \A i \in 1..(Len(s) + Len(t)) : u[i] = IF i <= Len(s) THEN s[i] ELSE t[i - Len(s)]
  BY ConcatProperties
<1>2. Picked(u, I) = FlattenSeq(a) /\ Picked(s, I) = FlattenSeq(b) /\ Picked(t, J) = FlattenSeq(c)
  BY Zenon DEF Picked, Parts
<1> HIDE DEF u
<1>3. /\ a \in Seq(Seq(T)) /\ Len(a) = Len(u)
      /\ \A i \in 1..Len(u) : a[i] = IF i \in I THEN <<u[i]>> ELSE <<>>
  BY <1>1, PartsType
<1>4. /\ b \in Seq(Seq(T)) /\ Len(b) = Len(s)
      /\ \A i \in 1..Len(s) : b[i] = IF i \in I THEN <<s[i]>> ELSE <<>>
  BY PartsType
<1>5. /\ c \in Seq(Seq(T)) /\ Len(c) = Len(t)
      /\ \A i \in 1..Len(t) : c[i] = IF i \in J THEN <<t[i]>> ELSE <<>>
  BY PartsType
<1> HIDE DEF a, b, c
<1>6. /\ d \in Seq(Seq(T)) /\ Len(d) = Len(s) + Len(t)
      /\ \A i \in 1..(Len(s) + Len(t)) : d[i] = IF i <= Len(s) THEN b[i] ELSE c[i - Len(s)]
  <2>1. /\ d \in Seq(Seq(T)) /\ Len(d) = Len(b) + Len(c)
        /\ \A i \in 1..(Len(b) + Len(c)) : d[i] = IF i <= Len(b) THEN b[i] ELSE c[i - Len(b)]
    <3>1. \A p, q \in Seq(Seq(T)) :
            /\ p \o q \in Seq(Seq(T)) /\ Len(p \o q) = Len(p) + Len(q)
            /\ \A i \in 1..(Len(p) + Len(q)) : (p \o q)[i] = IF i <= Len(p) THEN p[i] ELSE q[i - Len(p)]
      BY ConcatProperties, Zenon
    <3> QED BY <1>4, <1>5, <3>1, Zenon
  <2> QED BY <1>4, <1>5, <2>1, Zenon
<1>7. FlattenSeq(d) = FlattenSeq(b) \o FlattenSeq(c)
  BY <1>4, <1>5, FlattenConcat
<1> HIDE DEF d
<1>8. \A i \in 1..Len(a) : a[i] = d[i]
  <2> TAKE i \in 1..Len(a)
  <2>1. CASE i <= Len(s)
    <3>1. i \in 1..Len(s) /\ i \in 1..(Len(s) + Len(t)) /\ i \in 1..Len(u)
      BY <1>1, <1>3, <2>1
    <3> QED BY <1>1, <1>3, <1>4, <1>6, <2>1, <3>1
  <2>2. CASE ~(i <= Len(s))
    <3> DEFINE j == i - Len(s)
    <3>1. j \in 1..Len(t) /\ i = Len(s) + j /\ i \in 1..(Len(s) + Len(t)) /\ i \in 1..Len(u)
      BY <1>1, <1>3, <2>2
    <3>2. u[i] = t[j] /\ d[i] = c[j]
      BY <1>1, <1>6, <2>2, <3>1
    <3> HIDE DEF j
    <3>3. j \in J <=> i \in I
      BY <3>1
    <3> QED BY <1>3, <1>5, <3>1, <3>2, <3>3
  <2> QED BY <2>1, <2>2
<1>9. a = d
  BY <1>1, <1>3, <1>6, <1>8, SeqEqual
<1> QED BY <1>2, <1>7, <1>9 DEF u

\* What is picked of a beginning begins what is picked.
LEMMA PickedLeads ==
    ASSUME NEW T, NEW s \in Seq(T), NEW t \in Seq(T), NEW I
    PROVE  Leads(Picked(s, I), Picked(s \o t, I), T)
<1> DEFINE J == {i \in 1..Len(t) : Len(s) + i \in I}
<1>1. Picked(s \o t, I) = Picked(s, I) \o Picked(t, J)
  <2>1. \A i \in 1..Len(t) : i \in J <=> Len(s) + i \in I
    OBVIOUS
  <2> HIDE DEF J
  <2> QED BY <2>1, PickedConcat
<1>2. Picked(t, J) \in Seq(T)
  BY PickedType
<1> QED BY <1>1, <1>2 DEF Leads

\* Only the positions that exist matter.
LEMMA PickedSame ==
    ASSUME NEW s, NEW I, NEW J, \A i \in DOMAIN s : i \in I <=> i \in J
    PROVE  Picked(s, I) = Picked(s, J)
<1>1. Parts(s, I) = Parts(s, J)
  BY DEF Parts
<1>2. Picked(s, I) = FlattenSeq(Parts(s, I)) /\ Picked(s, J) = FlattenSeq(Parts(s, J))
  BY Zenon DEF Picked, Parts
<1> QED BY <1>1, <1>2

\* A prefix, element by element.
LEMMA PrefixIs ==
    ASSUME NEW T, NEW s \in Seq(T), NEW t \in Seq(T), Len(s) <= Len(t), \A i \in 1..Len(s) : s[i] = t[i]
    PROVE  IsPrefix(s, t)
<1> DEFINE n == Len(s)
           a == SubSeq(s, 1, n)
           b == SubSeq(t, 1, n)
<1>1. n \in Nat /\ Len(t) \in Nat /\ \A i \in 1..n : s[i] \in T /\ t[i] \in T
  OBVIOUS
<1>2. 1 \in Int /\ n \in Int
  BY <1>1
<1>3. n <= Len(t) /\ \A i \in 1..n : s[i] = t[i]
  OBVIOUS
<1> HIDE DEF n
<1>4. /\ a \in Seq(T) /\ b \in Seq(T) /\ Len(a) = (IF 1 <= n THEN n - 1 + 1 ELSE 0)
      /\ Len(b) = (IF 1 <= n THEN n - 1 + 1 ELSE 0)
      /\ \A i \in 1..(n - 1 + 1) : a[i] = s[1 + i - 1] /\ b[i] = t[1 + i - 1]
  BY <1>1, <1>2, SubSeqProperties
<1> HIDE DEF a, b
<1>5. Len(a) = n /\ Len(b) = n /\ \A i \in 1..n : a[i] = b[i]
  BY <1>1, <1>3, <1>4
<1>6. a = b
  BY <1>4, <1>5, SeqEqual
<1> QED BY <1>3, <1>6 DEF IsPrefix, n, a, b

LEMMA LeadsPrefix ==
    ASSUME NEW T, NEW s \in Seq(T), NEW t \in Seq(T), Leads(s, t, T)
    PROVE  IsPrefix(s, t)
<1>1. PICK rest \in Seq(T) : t = s \o rest
  BY DEF Leads
<1>2. Len(s) <= Len(t) /\ \A i \in 1..Len(s) : t[i] = s[i]
  BY <1>1, ConcatProperties
<1> QED BY <1>2, PrefixIs

-----------------------------------------------------------------------------
(* ProviderStream: what was said, event by event *)

LEMMA SaidAppend ==
    ASSUME NEW T, NEW h \in Seq(T), NEW e \in T, NEW kind
    PROVE  /\ Said(Append(h, e), kind) = IF e.kind = kind THEN Append(Said(h, kind), e) ELSE Said(h, kind)
           /\ Said(h, kind) \in Seq(T)
<1> DEFINE u == Append(h, e)
           I == {i \in DOMAIN h : h[i].kind = kind}
           J == {i \in DOMAIN u : u[i].kind = kind}
<1>1. (\A i \in DOMAIN h : i \in I <=> i \in J) /\ (Len(h) + 1 \in J <=> e.kind = kind)
  BY AppendProperties
<1> HIDE DEF I, J
<1>2. Picked(Append(h, e), J) = IF Len(h) + 1 \in J THEN Append(Picked(h, I), e) ELSE Picked(h, I)
  BY <1>1, PickedAppend
<1>3. Picked(h, I) \in Seq(T)
  BY PickedType
<1>4. Said(Append(h, e), kind) = Picked(Append(h, e), J) /\ Said(h, kind) = Picked(h, I)
  BY DEF Said, I, J
<1> QED BY <1>1, <1>2, <1>3, <1>4

LEMMA SaidType ==
    ASSUME NEW T, NEW h \in Seq(T), NEW kind
    PROVE  Said(h, kind) \in Seq(T)
  BY PickedType DEF Said

LEMMA BlockSaidAppend ==
    ASSUME NEW T, NEW h \in Seq(T), NEW e \in T, NEW k
    PROVE  /\ BlockSaid(Append(h, e), k) = IF e.kind = "block_delta" /\ e.index = k
                                           THEN Append(BlockSaid(h, k), e) ELSE BlockSaid(h, k)
           /\ BlockSaid(h, k) \in Seq(T)
<1> DEFINE u == Append(h, e)
           I == {i \in DOMAIN h : h[i].kind = "block_delta" /\ h[i].index = k}
           J == {i \in DOMAIN u : u[i].kind = "block_delta" /\ u[i].index = k}
<1>1. /\ \A i \in DOMAIN h : i \in I <=> i \in J
      /\ Len(h) + 1 \in J <=> e.kind = "block_delta" /\ e.index = k
  BY AppendProperties
<1> HIDE DEF I, J
<1>2. Picked(Append(h, e), J) = IF Len(h) + 1 \in J THEN Append(Picked(h, I), e) ELSE Picked(h, I)
  BY <1>1, PickedAppend
<1>3. Picked(h, I) \in Seq(T)
  BY PickedType
<1>4. BlockSaid(Append(h, e), k) = Picked(Append(h, e), J) /\ BlockSaid(h, k) = Picked(h, I)
  BY DEF BlockSaid, I, J
<1> QED BY <1>1, <1>2, <1>3, <1>4

LEMMA BlockTextAppend ==
    ASSUME NEW T, NEW h \in Seq(T), NEW e \in T
    PROVE  /\ BlockText(Append(h, e)) = IF e.kind = "block_delta" /\ e.piece \in TextPieces
                                        THEN Append(BlockText(h), e) ELSE BlockText(h)
           /\ BlockText(h) \in Seq(T)
<1> DEFINE u == Append(h, e)
           I == {i \in DOMAIN h : h[i].kind = "block_delta" /\ h[i].piece \in TextPieces}
           J == {i \in DOMAIN u : u[i].kind = "block_delta" /\ u[i].piece \in TextPieces}
<1>1. /\ \A i \in DOMAIN h : i \in I <=> i \in J
      /\ Len(h) + 1 \in J <=> e.kind = "block_delta" /\ e.piece \in TextPieces
  BY AppendProperties
<1> HIDE DEF I, J
<1>2. Picked(Append(h, e), J) = IF Len(h) + 1 \in J THEN Append(Picked(h, I), e) ELSE Picked(h, I)
  BY <1>1, PickedAppend
<1>3. Picked(h, I) \in Seq(T)
  BY PickedType
<1>4. BlockText(Append(h, e)) = Picked(Append(h, e), J) /\ BlockText(h) = Picked(h, I)
  BY DEF BlockText, I, J
<1> QED BY <1>1, <1>2, <1>3, <1>4

LEMMA CallSaidAppend ==
    ASSUME NEW T, NEW h \in Seq(T), NEW e \in T, NEW k
    PROVE  /\ CallSaid(Append(h, e), k) = IF e.kind = "call" /\ e.index = k
                                          THEN Append(CallSaid(h, k), e) ELSE CallSaid(h, k)
           /\ CallSaid(h, k) \in Seq(T)
<1> DEFINE u == Append(h, e)
           I == {i \in DOMAIN h : h[i].kind = "call" /\ h[i].index = k}
           J == {i \in DOMAIN u : u[i].kind = "call" /\ u[i].index = k}
<1>1. /\ \A i \in DOMAIN h : i \in I <=> i \in J
      /\ Len(h) + 1 \in J <=> e.kind = "call" /\ e.index = k
  BY AppendProperties
<1> HIDE DEF I, J
<1>2. Picked(Append(h, e), J) = IF Len(h) + 1 \in J THEN Append(Picked(h, I), e) ELSE Picked(h, I)
  BY <1>1, PickedAppend
<1>3. Picked(h, I) \in Seq(T)
  BY PickedType
<1>4. CallSaid(Append(h, e), k) = Picked(Append(h, e), J) /\ CallSaid(h, k) = Picked(h, I)
  BY DEF CallSaid, I, J
<1> QED BY <1>1, <1>2, <1>3, <1>4

LEMMA CallSaidType ==
    ASSUME NEW T, NEW h \in Seq(T), NEW k
    PROVE  CallSaid(h, k) \in Seq(T)
  BY PickedType DEF CallSaid

LEMMA ChunkTextAppend ==
    ASSUME NEW T, NEW h \in Seq(T), NEW e \in T
    PROVE  /\ ChunkText(Append(h, e)) = IF e.piece # "none" THEN Append(ChunkText(h), e) ELSE ChunkText(h)
           /\ ChunkText(h) \in Seq(T)
<1> DEFINE u == Append(h, e)
           I == {i \in DOMAIN h : h[i].piece # "none"}
           J == {i \in DOMAIN u : u[i].piece # "none"}
<1>1. (\A i \in DOMAIN h : i \in I <=> i \in J) /\ (Len(h) + 1 \in J <=> e.piece # "none")
  BY AppendProperties
<1> HIDE DEF I, J
<1>2. Picked(Append(h, e), J) = IF Len(h) + 1 \in J THEN Append(Picked(h, I), e) ELSE Picked(h, I)
  BY <1>1, PickedAppend
<1>3. Picked(h, I) \in Seq(T)
  BY PickedType
<1>4. ChunkText(Append(h, e)) = Picked(Append(h, e), J) /\ ChunkText(h) = Picked(h, I)
  BY DEF ChunkText, I, J
<1> QED BY <1>1, <1>2, <1>3, <1>4

LEMMA ChunkCallsAppend ==
    ASSUME NEW T, NEW h \in Seq(T), NEW e \in T
    PROVE  /\ ChunkCalls(Append(h, e)) = IF e.calls = 1 THEN Append(ChunkCalls(h), e) ELSE ChunkCalls(h)
           /\ ChunkCalls(h) \in Seq(T)
<1> DEFINE u == Append(h, e)
           I == {i \in DOMAIN h : h[i].calls = 1}
           J == {i \in DOMAIN u : u[i].calls = 1}
<1>1. (\A i \in DOMAIN h : i \in I <=> i \in J) /\ (Len(h) + 1 \in J <=> e.calls = 1)
  BY AppendProperties
<1> HIDE DEF I, J
<1>2. Picked(Append(h, e), J) = IF Len(h) + 1 \in J THEN Append(Picked(h, I), e) ELSE Picked(h, I)
  BY <1>1, PickedAppend
<1>3. Picked(h, I) \in Seq(T)
  BY PickedType
<1>4. ChunkCalls(Append(h, e)) = Picked(Append(h, e), J) /\ ChunkCalls(h) = Picked(h, I)
  BY DEF ChunkCalls, I, J
<1> QED BY <1>1, <1>2, <1>3, <1>4

\* The events that were heard first: nothing was said.
LEMMA NothingSaid ==
    /\ \A kind : Said(<<>>, kind) = <<>>
    /\ \A k : BlockSaid(<<>>, k) = <<>> /\ CallSaid(<<>>, k) = <<>>
    /\ BlockText(<<>>) = <<>> /\ ChunkText(<<>>) = <<>> /\ ChunkCalls(<<>>) = <<>>
    /\ PiecesSaid(<<>>) = <<>>
<1>1. PiecesSaid(<<>>) = <<>>
  BY DEF PiecesSaid
<1> QED BY <1>1, PickedEmpty DEF Said, BlockSaid, CallSaid, BlockText, ChunkText, ChunkCalls

LEMMA PiecesAppend ==
    ASSUME NEW T, NEW E \in Seq(T), NEW e \in T
    PROVE  PiecesSaid(Append(E, e)) = Append(PiecesSaid(E), e.piece)
<1> DEFINE P == {x.piece : x \in T}
           a == PiecesSaid(Append(E, e))
           b == PiecesSaid(E)
           c == Append(b, e.piece)
           D == Append(E, e)
<1>1. D \in Seq(T) /\ Len(D) = Len(E) + 1 /\ Len(E) \in Nat /\ D[Len(E) + 1] = e
      /\ \A i \in 1..Len(E) : D[i] = E[i]
  BY AppendProperties
<1> HIDE DEF D
<1>2. b \in Seq(P) /\ Len(b) = Len(E) /\ \A i \in 1..Len(E) : b[i] = E[i].piece
  BY DEF PiecesSaid
<1>3. e.piece \in P
  OBVIOUS
<1>4. a \in Seq(P) /\ Len(a) = Len(E) + 1 /\ \A i \in 1..(Len(E) + 1) : a[i] = D[i].piece
  BY <1>1 DEF PiecesSaid, D
<1> HIDE DEF a, b
<1>5. c \in Seq(P) /\ Len(c) = Len(E) + 1 /\ c[Len(E) + 1] = e.piece /\ \A i \in 1..Len(E) : c[i] = b[i]
  BY <1>2, <1>3, AppendProperties
<1> HIDE DEF c, P
<1>6. \A i \in 1..Len(a) : a[i] = c[i]
  <2> TAKE i \in 1..Len(a)
  <2>1. i \in 1..Len(E) \/ i = Len(E) + 1
    BY <1>1, <1>4
  <2> QED BY <1>1, <1>2, <1>4, <1>5, <2>1
<1>7. a = c
  BY <1>4, <1>5, <1>6, SeqEqual
<1> QED BY <1>7 DEF a, b, c

\* The text of the blocks.
LEMMA TextOfAppend ==
    ASSUME NEW T, NEW blocks \in Seq(Blocks(T)), NEW b \in Blocks(T)
    PROVE  TextOf(Append(blocks, b)) = TextOf(blocks) \o (IF b.type = "text" THEN b.body ELSE <<>>)
<1> DEFINE texts(q) == [i \in DOMAIN q |-> IF q[i].type = "text" THEN q[i].body ELSE <<>>]
           last == IF b.type = "text" THEN b.body ELSE <<>>
           u == Append(blocks, b)
           m == Append(texts(blocks), last)
<1>1. \A q \in Seq(Blocks(T)) : /\ texts(q) \in Seq(Seq(TextPieces)) /\ Len(texts(q)) = Len(q)
                                /\ \A i \in 1..Len(q) : texts(q)[i] = IF q[i].type = "text" THEN q[i].body ELSE <<>>
  <2> TAKE q \in Seq(Blocks(T))
  <2>1. DOMAIN q = 1..Len(q) /\ Len(q) \in Nat
    OBVIOUS
  <2>2. ASSUME NEW i \in 1..Len(q) PROVE (IF q[i].type = "text" THEN q[i].body ELSE <<>>) \in Seq(TextPieces)
    <3>1. q[i] \in Blocks(T)
      OBVIOUS
    <3> QED BY <3>1, BlockType
  <2>3. \A i \in 1..Len(q) : texts(q)[i] = IF q[i].type = "text" THEN q[i].body ELSE <<>>
    BY <2>1
  <2>4. \A i \in 1..Len(q) : texts(q)[i] \in Seq(TextPieces)
    BY <2>2, <2>3
  <2>5. texts(q) = [i \in 1..Len(q) |-> texts(q)[i]]
    BY <2>1
  <2> HIDE DEF texts
  <2>6. texts(q) \in Seq(Seq(TextPieces)) /\ Len(texts(q)) = Len(q)
    BY <2>1, <2>4, <2>5
  <2> QED BY <2>3, <2>6
<1>2. last \in Seq(TextPieces)
  BY BlockType
<1>3. u \in Seq(Blocks(T)) /\ Len(u) = Len(blocks) + 1 /\ u[Len(blocks) + 1] = b
      /\ (\A i \in 1..Len(blocks) : u[i] = blocks[i]) /\ Len(blocks) \in Nat
  BY AppendProperties
<1>4. texts(u) = m
  <2> DEFINE p == texts(u)
             q == texts(blocks)
  <2>1. p \in Seq(Seq(TextPieces)) /\ Len(p) = Len(u)
        /\ \A i \in 1..Len(u) : p[i] = IF u[i].type = "text" THEN u[i].body ELSE <<>>
    BY <1>1, <1>3
  <2>2. q \in Seq(Seq(TextPieces)) /\ Len(q) = Len(blocks)
        /\ \A i \in 1..Len(blocks) : q[i] = IF blocks[i].type = "text" THEN blocks[i].body ELSE <<>>
    BY <1>1
  <2> HIDE DEF u, p, q
  <2> DEFINE c == Append(q, last)
  <2>3. c \in Seq(Seq(TextPieces)) /\ Len(c) = Len(blocks) + 1 /\ c[Len(blocks) + 1] = last
        /\ \A i \in 1..Len(blocks) : c[i] = q[i]
    BY <1>2, <2>2, AppendProperties
  <2> HIDE DEF c
  <2>4. \A i \in 1..Len(p) : p[i] = c[i]
    <3> TAKE i \in 1..Len(p)
    <3>1. i \in 1..Len(blocks) \/ i = Len(blocks) + 1
      BY <1>3, <2>1
    <3>2. CASE i \in 1..Len(blocks)
      BY <1>3, <2>1, <2>2, <2>3, <3>2
    <3>3. CASE i = Len(blocks) + 1
      BY <1>3, <2>1, <2>3, <3>3
    <3> QED BY <3>1, <3>2, <3>3
  <2>5. p = c
    BY <1>3, <2>1, <2>3, <2>4, SeqEqual
  <2> QED BY <2>5 DEF p, q, c
<1>5. texts(blocks) \in Seq(Seq(TextPieces))
  BY <1>1
<1>6. TextOf(u) = FlattenSeq(texts(u)) /\ TextOf(blocks) = FlattenSeq(texts(blocks))
  BY DEF TextOf
<1> HIDE DEF texts, last
<1>7. FlattenSeq(m) = FlattenSeq(texts(blocks)) \o last
  BY <1>2, <1>5, FlattenAppended
<1> QED BY <1>4, <1>6, <1>7 DEF last

LEMMA ConcatAppend ==
    ASSUME NEW T, NEW s \in Seq(T), NEW t \in Seq(T), NEW x \in T
    PROVE  s \o Append(t, x) = Append(s \o t, x)
<1>1. <<x>> \in Seq(T) /\ s \o t \in Seq(T)
  OBVIOUS
<1>2. Append(t, x) = t \o <<x>> /\ Append(s \o t, x) = (s \o t) \o <<x>>
  BY <1>1, AppendIsConcat
<1>3. (s \o t) \o <<x>> = s \o (t \o <<x>>)
  BY <1>1, ConcatAssociative
<1> QED BY <1>2, <1>3

\* The last block grows.
LastGrows(blocks, n, c, piece, grown) ==
    /\ n \in Nat /\ n = Len(blocks) /\ n # 0
    /\ c.type = blocks[n].type /\ c.body = Append(blocks[n].body, piece)
    /\ Len(grown) = n /\ \A i \in 1..n : grown[i] = IF i = n THEN c ELSE blocks[i]
    /\ blocks[n].type = "text" => piece \in TextPieces

LEMMA TextOfGrows ==
    ASSUME NEW T, NEW blocks \in Seq(Blocks(T)), NEW n, NEW c \in Blocks(T), NEW piece,
           NEW grown \in Seq(Blocks(T)), LastGrows(blocks, n, c, piece, grown)
    PROVE  TextOf(grown) = IF blocks[n].type = "text" THEN Append(TextOf(blocks), piece) ELSE TextOf(blocks)
<1>0. /\ n \in Nat /\ n = Len(blocks) /\ n # 0
      /\ c.type = blocks[n].type /\ c.body = Append(blocks[n].body, piece)
      /\ Len(grown) = n /\ \A i \in 1..n : grown[i] = IF i = n THEN c ELSE blocks[i]
      /\ blocks[n].type = "text" => piece \in TextPieces
  BY DEF LastGrows
<1>1. blocks # <<>>
  BY <1>0
<1>2. PICK front \in Seq(Blocks(T)), b \in Blocks(T) : blocks = Append(front, b)
  BY <1>1, SequenceEmptyOrAppend
<1>3. n = Len(front) + 1 /\ blocks[n] = b /\ Len(front) \in Nat
  BY <1>0, <1>2, AppendProperties
<1>4. c.type = b.type /\ c.body = Append(b.body, piece)
  BY <1>0, <1>3
<1>5. grown = Append(front, c)
  <2> DEFINE p == grown
             q == Append(front, c)
  <2>1. n \in 1..Len(blocks)
    BY <1>0, <1>3
  <2>2. p \in Seq(Blocks(T)) /\ Len(p) = Len(blocks) /\ \A i \in 1..Len(blocks) : p[i] = IF i = n THEN c ELSE blocks[i]
    BY <1>0
  <2>3. q \in Seq(Blocks(T)) /\ Len(q) = n /\ q[n] = c /\ \A i \in 1..Len(front) : q[i] = front[i]
    BY <1>3, AppendProperties
  <2>4. \A i \in 1..Len(front) : blocks[i] = front[i]
    BY <1>2, AppendProperties
  <2> HIDE DEF p, q
  <2>5. \A i \in 1..Len(p) : p[i] = q[i]
    <3> TAKE i \in 1..Len(p)
    <3>0. i \in 1..Len(blocks)
      BY <2>2
    <3>1. CASE i = n
      BY <2>2, <2>3, <3>0, <3>1
    <3>2. CASE i # n
      <4>1. i \in 1..Len(front)
        BY <1>0, <1>3, <2>1, <3>0, <3>2
      <4> QED BY <2>2, <2>3, <2>4, <3>0, <3>2, <4>1
    <3> QED BY <3>1, <3>2
  <2>6. p = q
    BY <1>0, <2>2, <2>3, <2>5, SeqEqual
  <2> QED BY <2>6 DEF p, q
<1>6. /\ TextOf(Append(front, b)) = TextOf(front) \o (IF b.type = "text" THEN b.body ELSE <<>>)
      /\ TextOf(Append(front, c)) = TextOf(front) \o (IF c.type = "text" THEN c.body ELSE <<>>)
      /\ TextOf(front) \in Seq(TextPieces)
  BY TextOfAppend, TextOfType
<1>7. CASE b.type # "text"
  BY <1>2, <1>3, <1>4, <1>5, <1>6, <1>7
<1>8. CASE b.type = "text"
  <2>1. b.body \in Seq(TextPieces) /\ piece \in TextPieces
    BY <1>0, <1>3, <1>8, BlockType
  <2>2. TextOf(front) \o Append(b.body, piece) = Append(TextOf(front) \o b.body, piece)
    BY <1>6, <2>1, ConcatAppend
  <2> QED BY <1>2, <1>3, <1>4, <1>5, <1>6, <1>8, <2>2
<1> QED BY <1>7, <1>8

-----------------------------------------------------------------------------
(* ProviderStream: what each reader has put together is what was said *)

SaidOnce(events, flag) == Len(events) = IF flag THEN 1 ELSE 0

StartsAgree(starts, blocks) ==
    /\ Len(starts) = Len(blocks)
    /\ \A k \in 1..Len(blocks) : starts[k].index = k /\ starts[k].type = blocks[k].type /\ blocks[k].id = k
StopsAgree(stops, open, blocks) ==
    /\ open \in {0, Len(blocks)}
    /\ Len(stops) = IF open = 0 THEN Len(blocks) ELSE Len(blocks) - 1
    /\ \A k \in 1..Len(stops) : stops[k].index = k
BodiesAgree(h, blocks) ==
    /\ \A k \in 1..Len(blocks) : blocks[k].body = PiecesSaid(BlockSaid(h, k))
    /\ \A k \in 1..2 : k > Len(blocks) => BlockSaid(h, k) = <<>>

AnthropicHeard(h, r) ==
    /\ SaidOnce(Said(h, "message_start"), r.begun)
    /\ SaidOnce(Said(h, "message_stop"), r.ended) /\ (r.ended => r.begun /\ r.open = 0)
    /\ StartsAgree(Said(h, "block_start"), r.blocks)
    /\ StopsAgree(Said(h, "block_stop"), r.open, r.blocks)
    /\ BodiesAgree(h, r.blocks)
    /\ TextOf(r.blocks) = PiecesSaid(BlockText(h))

\* A block begins.
LEMMA BlockStarts ==
    ASSUME NEW r \in Readers(TypesOf("anthropic")), NEW h \in Seq(AnthropicEvents), NEW e \in AnthropicEvents,
           ~r.ended, AnthropicHeard(h, r), r.begun,
           e.kind = "block_start", r.open = 0, e.index = Len(r.blocks) + 1,
           NEW s, s = [r EXCEPT !.open = e.index,
                                !.blocks = Append(@, [type |-> e.type, id |-> e.index, body |-> <<>>])]
    PROVE  AnthropicHeard(Append(h, e), s)
<1> DEFINE T == TypesOf("anthropic")
           u == Append(h, e)
           i == e.index
           new == [type |-> e.type, id |-> i, body |-> <<>>]
           blocks == Append(r.blocks, new)
           n == Len(r.blocks)
           starts == Said(h, "block_start")
           stops == Said(h, "block_stop")
<1>1. i \in 1..2 /\ e.type \in T /\ i = n + 1 /\ n \in Nat
  BY ReaderType DEF AnthropicEvents, TypesOf
<1>2. new \in Blocks(T)
  <2>1. i \in 0..2 /\ e.type \in T
    BY <1>1
  <2> HIDE DEF i, T
  <2> QED BY <2>1, EmptyBlock
<1>3. /\ Said(u, "message_start") = Said(h, "message_start") /\ Said(u, "message_stop") = Said(h, "message_stop")
      /\ Said(u, "block_start") = Append(starts, e) /\ Said(u, "block_stop") = stops
      /\ starts \in Seq(AnthropicEvents)
  BY SaidAppend
<1>4. BlockText(u) = BlockText(h) /\ \A k : BlockSaid(u, k) = BlockSaid(h, k)
  BY BlockTextAppend, BlockSaidAppend
<1>5. s = [r EXCEPT !.open = i, !.blocks = blocks]
  OBVIOUS
<1>6. /\ new.type = e.type /\ new.id = i /\ new.body = <<>>
      /\ Len(blocks) = n + 1 /\ blocks[n + 1] = new /\ \A k \in 1..n : blocks[k] = r.blocks[k]
  BY <1>2, ReaderType, AppendProperties
<1>7. s.begun = r.begun /\ s.ended = r.ended /\ s.blocks = blocks /\ s.open = i
  BY <1>5 DEF Readers
<1>8. TextOf(blocks) = TextOf(r.blocks)
  <2>1. TextOf(blocks) = TextOf(r.blocks) \o (IF new.type = "text" THEN new.body ELSE <<>>)
    BY <1>2, ReaderType, TextOfAppend
  <2>2. TextOf(r.blocks) \in Seq(TextPieces)
    BY ReaderType, TextOfType
  <2> QED BY <1>6, <2>1, <2>2, ConcatEmptySeq
<1> HIDE DEF new, u, blocks
<1>9. StartsAgree(Append(starts, e), blocks)
  <2>1. Len(starts) = n /\ \A k \in 1..n : starts[k].index = k /\ starts[k].type = r.blocks[k].type /\ r.blocks[k].id = k
    BY DEF AnthropicHeard, StartsAgree
  <2> DEFINE more == Append(starts, e)
  <2>2. Len(more) = n + 1 /\ more[n + 1] = e /\ \A k \in 1..n : more[k] = starts[k]
    BY <1>3, <2>1, AppendProperties
  <2> HIDE DEF more, n, starts
  <2>3. \A k \in 1..(n + 1) : k \in 1..n \/ k = n + 1
    BY <1>1
  <2>4. Len(more) = Len(blocks)
    BY <1>6, <2>2
  <2>5. ASSUME NEW k \in 1..(n + 1)
        PROVE  more[k].index = k /\ more[k].type = blocks[k].type /\ blocks[k].id = k
    <3>1. CASE k \in 1..n
      BY <1>6, <2>1, <2>2, <3>1
    <3>2. CASE k = n + 1
      BY <1>1, <1>6, <2>2, <3>2
    <3> QED BY <2>3, <3>1, <3>2
  <2>6. StartsAgree(more, blocks)
    BY <1>6, <2>4, <2>5 DEF StartsAgree
  <2> QED BY <2>6 DEF more
<1>10. StopsAgree(stops, i, blocks)
  <2>1. Len(stops) = n /\ \A k \in 1..Len(stops) : stops[k].index = k
    BY DEF AnthropicHeard, StopsAgree
  <2> HIDE DEF n, stops
  <2>2. i = Len(blocks) /\ i # 0 /\ Len(blocks) - 1 = n
    BY <1>1, <1>6
  <2> QED BY <2>1, <2>2 DEF StopsAgree
<1>11. BodiesAgree(u, blocks)
  <2>1. /\ \A k \in 1..n : r.blocks[k].body = PiecesSaid(BlockSaid(h, k))
        /\ \A k \in 1..2 : k > n => BlockSaid(h, k) = <<>>
    BY DEF AnthropicHeard, BodiesAgree
  <2>2. ASSUME NEW k \in 1..(n + 1) PROVE blocks[k].body = PiecesSaid(BlockSaid(u, k))
    <3>1. CASE k \in 1..n
      BY <1>4, <1>6, <2>1, <3>1
    <3>2. CASE k = n + 1
      <4>1. BlockSaid(h, k) = <<>>
        BY <1>1, <2>1, <3>2
      <4> QED BY <1>4, <1>6, <3>2, <4>1, NothingSaid
    <3> QED BY <1>1, <3>1, <3>2
  <2>3. ASSUME NEW k \in 1..2, k > n + 1 PROVE BlockSaid(u, k) = <<>>
    <3>1. k > n
      BY <1>1, <2>3
    <3> QED BY <1>4, <2>1, <3>1
  <2> QED BY <1>6, <2>2, <2>3 DEF BodiesAgree
<1>12. SaidOnce(Said(u, "message_start"), s.begun) /\ SaidOnce(Said(u, "message_stop"), s.ended)
  BY <1>3, <1>7 DEF AnthropicHeard
<1>13. TextOf(s.blocks) = PiecesSaid(BlockText(u))
  BY <1>4, <1>7, <1>8 DEF AnthropicHeard
<1>14. StartsAgree(Said(u, "block_start"), s.blocks) /\ StopsAgree(Said(u, "block_stop"), s.open, s.blocks)
       /\ BodiesAgree(u, s.blocks)
  BY <1>3, <1>7, <1>9, <1>10, <1>11
<1>15. AnthropicHeard(u, s)
  BY <1>12, <1>13, <1>14 DEF AnthropicHeard
<1> QED BY <1>15 DEF u

\* The open block grows.
LEMMA BlockContinues ==
    ASSUME NEW r \in Readers(TypesOf("anthropic")), NEW h \in Seq(AnthropicEvents), NEW e \in AnthropicEvents,
           ~r.ended, AnthropicHeard(h, r),
           e.kind = "block_delta", e.index = r.open, e.piece \in PiecesOf(r.blocks[e.index].type),
           NEW s, s = [r EXCEPT !.blocks[e.index].body = Append(@, e.piece)]
    PROVE  AnthropicHeard(Append(h, e), s)
<1> DEFINE T == TypesOf("anthropic")
           u == Append(h, e)
           n == Len(r.blocks)
           b == r.blocks[n]
           c == [b EXCEPT !.body = Append(@, e.piece)]
           blocks == [r.blocks EXCEPT ![n] = c]
           starts == Said(h, "block_start")
           stops == Said(h, "block_stop")
<1>1. e.index \in 1..2 /\ e.index = n /\ n \in 1..2 /\ n \in 1..Len(r.blocks) /\ r.open = n
  <2>1. e.index \in 1..2
    BY DEF AnthropicEvents
  <2>2. r.open \in {0, n}
    BY DEF AnthropicHeard, StopsAgree
  <2> HIDE DEF n
  <2>3. e.index = n /\ r.open = n /\ n \in 1..2 /\ n \in 1..n
    BY <2>1, <2>2
  <2> QED BY <2>1, <2>3 DEF n
<1>2. b \in Blocks(T) /\ e.piece \in PiecesOf(b.type) /\ r.blocks \in Seq(Blocks(T))
  BY <1>1, ReaderType
<1>3. /\ e.piece \in BodyPieces
      /\ b.type \in {"text", "tool_use", "thinking"}
      /\ b.type = "text" <=> e.piece \in TextPieces
  <2>1. b.type \in {"text", "tool_use", "thinking"}
    BY <1>2, BlockType DEF TypesOf
  <2> HIDE DEF b
  <2> QED BY <1>2, <2>1 DEF PiecesOf, BodyPieces, Pieces, TextPieces
<1>4. s = [r EXCEPT !.blocks = blocks]
  BY <1>1
<1>5. /\ Said(u, "message_start") = Said(h, "message_start") /\ Said(u, "message_stop") = Said(h, "message_stop")
      /\ Said(u, "block_start") = starts /\ Said(u, "block_stop") = stops
  BY SaidAppend
<1>6. /\ BlockSaid(u, n) = Append(BlockSaid(h, n), e) /\ \A k : k # n => BlockSaid(u, k) = BlockSaid(h, k)
      /\ BlockSaid(h, n) \in Seq(AnthropicEvents)
  BY <1>1, BlockSaidAppend
<1>7. /\ BlockText(u) = IF e.piece \in TextPieces THEN Append(BlockText(h), e) ELSE BlockText(h)
      /\ BlockText(h) \in Seq(AnthropicEvents)
  BY BlockTextAppend
<1>8. c.type = b.type /\ c.id = b.id /\ c.body = Append(b.body, e.piece)
  BY <1>2 DEF Blocks
<1>9. c \in Blocks(T)
  BY <1>2, <1>3, BodyGrows
<1>10. TextOf(blocks) = IF b.type = "text" THEN Append(TextOf(r.blocks), e.piece) ELSE TextOf(r.blocks)
  <2> DEFINE all == r.blocks
             piece == e.piece
             grown == [all EXCEPT ![n] = c]
  <2>1. n \in Nat /\ n = Len(all) /\ n # 0 /\ c.type = all[n].type /\ c.body = Append(all[n].body, piece)
        /\ (all[n].type = "text" => piece \in TextPieces)
    BY <1>1, <1>3, <1>8
  <2>2. n \in 1..Len(all) /\ all \in Seq(Blocks(T))
    BY <1>1, <1>2
  <2> HIDE DEF c, n, T, all, piece
  <2>3. grown \in Seq(Blocks(T)) /\ Len(grown) = n /\ \A i \in 1..n : grown[i] = IF i = n THEN c ELSE all[i]
    BY <1>9, <2>1, <2>2, ExceptSeq
  <2> HIDE DEF grown
  <2>4. TextOf(grown) = IF all[n].type = "text" THEN Append(TextOf(all), piece) ELSE TextOf(all)
    <3>1. LastGrows(all, n, c, piece, grown)
      BY <2>1, <2>3 DEF LastGrows
    <3> QED BY <1>9, <2>2, <2>3, <3>1, TextOfGrows
  <2> QED BY <2>4 DEF grown, all, piece
<1> HIDE DEF c, b, u
<1>11. Len(blocks) = n /\ blocks[n] = c /\ \A k \in 1..n : k # n => blocks[k] = r.blocks[k]
  BY <1>1, <1>2, <1>9, ExceptSeq
<1>12. s.begun = r.begun /\ s.ended = r.ended /\ s.blocks = blocks /\ s.open = n
  BY <1>1, <1>4 DEF Readers
<1> HIDE DEF blocks
<1>13. StartsAgree(starts, blocks)
  <2>1. Len(starts) = n /\ \A k \in 1..n : starts[k].index = k /\ starts[k].type = r.blocks[k].type /\ r.blocks[k].id = k
    BY DEF AnthropicHeard, StartsAgree
  <2>2. ASSUME NEW k \in 1..n
        PROVE  starts[k].type = blocks[k].type /\ blocks[k].id = k
    BY <1>8, <1>11, <2>1 DEF b
  <2> QED BY <1>11, <2>1, <2>2 DEF StartsAgree
<1>14. StopsAgree(stops, n, blocks)
  BY <1>1, <1>11 DEF AnthropicHeard, StopsAgree
<1>15. BodiesAgree(u, blocks)
  <2>1. /\ \A k \in 1..n : r.blocks[k].body = PiecesSaid(BlockSaid(h, k))
        /\ \A k \in 1..2 : k > n => BlockSaid(h, k) = <<>>
    BY DEF AnthropicHeard, BodiesAgree
  <2>2. blocks[n].body = PiecesSaid(BlockSaid(u, n))
    <3>1. PiecesSaid(BlockSaid(u, n)) = Append(PiecesSaid(BlockSaid(h, n)), e.piece)
      BY <1>6, PiecesAppend
    <3>2. b.body = PiecesSaid(BlockSaid(h, n))
      BY <1>1, <2>1 DEF b
    <3> QED BY <1>8, <1>11, <3>1, <3>2
  <2>3. ASSUME NEW k \in 1..n PROVE blocks[k].body = PiecesSaid(BlockSaid(u, k))
    <3>1. CASE k = n
      BY <2>2, <3>1
    <3>2. CASE k # n
      BY <1>6, <1>11, <2>1, <3>2
    <3> QED BY <3>1, <3>2
  <2>4. ASSUME NEW k \in 1..2, k > n PROVE BlockSaid(u, k) = <<>>
    <3>1. k # n
      BY <1>1, <2>4
    <3> QED BY <1>6, <2>1, <2>4, <3>1
  <2> QED BY <1>11, <2>3, <2>4 DEF BodiesAgree
<1>16. TextOf(blocks) = PiecesSaid(BlockText(u))
  <2>1. TextOf(r.blocks) = PiecesSaid(BlockText(h))
    BY DEF AnthropicHeard
  <2>2. PiecesSaid(Append(BlockText(h), e)) = Append(PiecesSaid(BlockText(h)), e.piece)
    BY <1>7, PiecesAppend
  <2> QED BY <1>3, <1>7, <1>10, <2>1, <2>2
<1>17. AnthropicHeard(u, s)
  BY <1>5, <1>12, <1>13, <1>14, <1>15, <1>16 DEF AnthropicHeard
<1> QED BY <1>17 DEF u

\* The open block ends.
LEMMA BlockStops ==
    ASSUME NEW r \in Readers(TypesOf("anthropic")), NEW h \in Seq(AnthropicEvents), NEW e \in AnthropicEvents,
           ~r.ended, AnthropicHeard(h, r), e.kind = "block_stop", e.index = r.open,
           NEW s, s = [r EXCEPT !.open = 0]
    PROVE  AnthropicHeard(Append(h, e), s)
<1> DEFINE u == Append(h, e)
           n == Len(r.blocks)
           stops == Said(h, "block_stop")
           more == Append(stops, e)
<1>1. e.index \in 1..2 /\ e.index = n /\ n \in 1..2 /\ r.open = n
  <2>1. e.index \in 1..2
    BY DEF AnthropicEvents
  <2>2. r.open \in {0, n}
    BY DEF AnthropicHeard, StopsAgree
  <2> HIDE DEF n
  <2> QED BY <2>1, <2>2
<1>2. /\ Said(u, "message_start") = Said(h, "message_start") /\ Said(u, "message_stop") = Said(h, "message_stop")
      /\ Said(u, "block_start") = Said(h, "block_start") /\ Said(u, "block_stop") = more
      /\ stops \in Seq(AnthropicEvents)
  BY SaidAppend
<1>3. BlockText(u) = BlockText(h) /\ \A k : BlockSaid(u, k) = BlockSaid(h, k)
  BY BlockTextAppend, BlockSaidAppend
<1>4. s.begun = r.begun /\ s.ended = r.ended /\ s.blocks = r.blocks /\ s.open = 0
  BY DEF Readers
<1>5. StopsAgree(more, 0, r.blocks)
  <2>1. Len(stops) = n - 1 /\ \A k \in 1..Len(stops) : stops[k].index = k
    <3>1. /\ Len(stops) = IF r.open = 0 THEN n ELSE n - 1
          /\ \A k \in 1..Len(stops) : stops[k].index = k
      BY DEF AnthropicHeard, StopsAgree
    <3> HIDE DEF stops, n
    <3> QED BY <1>1, <3>1
  <2>2. Len(more) = Len(stops) + 1 /\ more[Len(stops) + 1] = e /\ \A k \in 1..Len(stops) : more[k] = stops[k]
    BY <1>2, AppendProperties
  <2> HIDE DEF more, stops
  <2>3. Len(more) = n
    BY <1>1, <2>1, <2>2
  <2>4. ASSUME NEW k \in 1..n PROVE more[k].index = k
    <3>1. k \in 1..(n - 1) \/ k = n
      BY <1>1
    <3>2. CASE k \in 1..(n - 1)
      BY <2>1, <2>2, <3>2
    <3>3. CASE k = n
      <4>1. more[n] = e
        BY <1>1, <2>1, <2>2
      <4> QED BY <1>1, <3>3, <4>1
    <3> QED BY <3>1, <3>2, <3>3
  <2> QED BY <2>3, <2>4 DEF StopsAgree
<1>6. BodiesAgree(u, r.blocks)
  BY <1>3 DEF AnthropicHeard, BodiesAgree
<1> HIDE DEF u, more
<1>7. AnthropicHeard(u, s)
  BY <1>2, <1>3, <1>4, <1>5, <1>6 DEF AnthropicHeard
<1> QED BY <1>7 DEF u

LEMMA AnthropicStep ==
    ASSUME NEW r \in Readers(TypesOf("anthropic")), NEW h \in Seq(AnthropicEvents), NEW e \in AnthropicEvents,
           NEW s \in AnthropicReads(r, e), ~r.ended, AnthropicHeard(h, r)
    PROVE  AnthropicHeard(Append(h, e), s)
<1> DEFINE i == e.index
           u == Append(h, e)
<1>1. \/ e.kind = "message_start" /\ ~r.begun /\ s = [r EXCEPT !.begun = TRUE]
      \/ e.kind = "ping" /\ s = r
      \/ e.kind = "message_delta" /\ s = [r EXCEPT !.said = e.reason]
      \/ /\ e.kind = "block_start" /\ r.begun /\ r.open = 0 /\ i = Len(r.blocks) + 1
         /\ s = [r EXCEPT !.open = i, !.blocks = Append(@, [type |-> e.type, id |-> i, body |-> <<>>])]
      \/ /\ e.kind = "block_delta" /\ i = r.open /\ e.piece \in PiecesOf(r.blocks[i].type)
         /\ s = [r EXCEPT !.blocks[i].body = Append(@, e.piece)]
      \/ e.kind = "block_stop" /\ i = r.open /\ s = [r EXCEPT !.open = 0]
      \/ e.kind = "message_stop" /\ r.begun /\ r.open = 0 /\ s = [r EXCEPT !.ended = TRUE]
  BY DEF AnthropicReads
<1>2. ASSUME e.kind \in {"message_start", "ping", "message_delta", "message_stop"},
             s.blocks = r.blocks, s.open = r.open,
             SaidOnce(Said(u, "message_start"), s.begun), SaidOnce(Said(u, "message_stop"), s.ended),
             s.ended => s.begun /\ s.open = 0
      PROVE  AnthropicHeard(u, s)
  <2>1. Said(u, "block_start") = Said(h, "block_start") /\ Said(u, "block_stop") = Said(h, "block_stop")
    BY <1>2, SaidAppend
  <2>2. BlockText(u) = BlockText(h) /\ \A k : BlockSaid(u, k) = BlockSaid(h, k)
    BY <1>2, BlockTextAppend, BlockSaidAppend
  <2>3. BodiesAgree(u, r.blocks)
    BY <2>2 DEF AnthropicHeard, BodiesAgree
  <2> HIDE DEF u
  <2> QED BY <1>2, <2>1, <2>2, <2>3 DEF AnthropicHeard
<1>3. /\ Said(u, "message_start") = IF e.kind = "message_start" THEN Append(Said(h, "message_start"), e)
                                    ELSE Said(h, "message_start")
      /\ Said(u, "message_stop") = IF e.kind = "message_stop" THEN Append(Said(h, "message_stop"), e)
                                   ELSE Said(h, "message_stop")
      /\ Said(h, "message_start") \in Seq(AnthropicEvents) /\ Said(h, "message_stop") \in Seq(AnthropicEvents)
  BY SaidAppend
<1>4. \A q \in Seq(AnthropicEvents) : SaidOnce(q, FALSE) => SaidOnce(Append(q, e), TRUE)
  BY DEF SaidOnce
<1>5. SaidOnce(Said(h, "message_start"), r.begun) /\ SaidOnce(Said(h, "message_stop"), r.ended)
  BY DEF AnthropicHeard
<1>6. r.begun \in BOOLEAN /\ r.ended = FALSE
  BY ReaderType
<1> HIDE DEF u
<1>7. CASE e.kind = "message_start" /\ ~r.begun /\ s = [r EXCEPT !.begun = TRUE]
  <2>1. s.blocks = r.blocks /\ s.open = r.open /\ s.begun = TRUE /\ s.ended = r.ended
    BY <1>7 DEF Readers
  <2>2. SaidOnce(Said(u, "message_start"), s.begun) /\ SaidOnce(Said(u, "message_stop"), s.ended)
    BY <1>3, <1>4, <1>5, <1>6, <1>7, <2>1
  <2> QED BY <1>2, <1>6, <1>7, <2>1, <2>2 DEF u
<1>8. CASE e.kind = "ping" /\ s = r
  BY <1>2, <1>3, <1>5, <1>6, <1>8 DEF u
<1>9. CASE e.kind = "message_delta" /\ s = [r EXCEPT !.said = e.reason]
  <2>1. s.blocks = r.blocks /\ s.open = r.open /\ s.begun = r.begun /\ s.ended = r.ended
    BY <1>9 DEF Readers
  <2> QED BY <1>2, <1>3, <1>5, <1>6, <1>9, <2>1 DEF u
<1>10. CASE e.kind = "message_stop" /\ r.begun /\ r.open = 0 /\ s = [r EXCEPT !.ended = TRUE]
  <2>1. s.blocks = r.blocks /\ s.open = r.open /\ s.begun = r.begun /\ s.ended = TRUE
    BY <1>10 DEF Readers
  <2>2. SaidOnce(Said(u, "message_start"), s.begun) /\ SaidOnce(Said(u, "message_stop"), s.ended)
    BY <1>3, <1>4, <1>5, <1>6, <1>10, <2>1
  <2> QED BY <1>2, <1>10, <2>1, <2>2 DEF u
<1>11. CASE /\ e.kind = "block_start" /\ r.begun /\ r.open = 0 /\ i = Len(r.blocks) + 1
            /\ s = [r EXCEPT !.open = i, !.blocks = Append(@, [type |-> e.type, id |-> i, body |-> <<>>])]
  BY <1>11, BlockStarts DEF u
<1>12. CASE /\ e.kind = "block_delta" /\ i = r.open /\ e.piece \in PiecesOf(r.blocks[i].type)
            /\ s = [r EXCEPT !.blocks[i].body = Append(@, e.piece)]
  BY <1>12, BlockContinues DEF u
<1>13. CASE e.kind = "block_stop" /\ i = r.open /\ s = [r EXCEPT !.open = 0]
  BY <1>13, BlockStops DEF u
<1> QED BY <1>1, <1>7, <1>8, <1>9, <1>10, <1>11, <1>12, <1>13 DEF u

AddedAgree(added, blocks) ==
    /\ Len(added) = Len(blocks)
    /\ \A k \in 1..Len(blocks) : added[k].item.type = blocks[k].type /\ added[k].item.id = blocks[k].id

ResponsesHeard(h, r) ==
    /\ SaidOnce(Said(h, "completed"), r.ended)
    /\ AddedAgree(Said(h, "added"), r.blocks)
    /\ r.ended => CompletedItems(r, r.output)

LEMMA ResponsesStep ==
    ASSUME NEW r \in Readers(TypesOf("responses")), NEW h \in Seq(ResponsesEvents), NEW e \in ResponsesEvents,
           NEW s \in ResponsesReads(r, e), ~r.ended, ResponsesHeard(h, r)
    PROVE  ResponsesHeard(Append(h, e), s)
<1> DEFINE T == TypesOf("responses")
           i == e.index
           b == r.blocks[i]
           u == Append(h, e)
           n == Len(r.blocks)
           added == Said(h, "added")
<1>1. \/ /\ e.kind = "added"
         /\ s = [r EXCEPT !.blocks = Append(@, [type |-> e.item.type, id |-> e.item.id, body |-> <<>>])]
      \/ /\ e.kind = "done" /\ i \in DOMAIN r.blocks
         /\ b = [type |-> e.item.type, id |-> e.item.id, body |-> <<>>]
         /\ s = [r EXCEPT !.blocks[i].body = <<"done">>]
      \/ e.kind = "delta" /\ s = r
      \/ e.kind = "completed" /\ CompletedItems(r, e.output) /\ s = [r EXCEPT !.ended = TRUE, !.output = e.output]
  BY DEF ResponsesReads
<1>2. /\ Said(u, "completed") = IF e.kind = "completed" THEN Append(Said(h, "completed"), e) ELSE Said(h, "completed")
      /\ Said(u, "added") = IF e.kind = "added" THEN Append(added, e) ELSE added
      /\ added \in Seq(ResponsesEvents) /\ Said(h, "completed") \in Seq(ResponsesEvents)
  BY SaidAppend
<1>3. /\ r.ended = FALSE /\ SaidOnce(Said(h, "completed"), r.ended) /\ AddedAgree(added, r.blocks)
      /\ Len(added) = n /\ \A k \in 1..n : added[k].item.type = r.blocks[k].type /\ added[k].item.id = r.blocks[k].id
  BY ReaderType DEF ResponsesHeard, AddedAgree
<1>4. r.blocks \in Seq(Blocks(T)) /\ n \in Nat
  BY ReaderType
<1> HIDE DEF u
<1>5. CASE /\ e.kind = "added"
           /\ s = [r EXCEPT !.blocks = Append(@, [type |-> e.item.type, id |-> e.item.id, body |-> <<>>])]
  <2> DEFINE new == [type |-> e.item.type, id |-> e.item.id, body |-> <<>>]
             blocks == Append(r.blocks, new)
             more == Append(added, e)
  <2>1. e.item.type \in T /\ e.item.id \in 0..2
    <3>1. e.item \in ResponsesItems
      BY <1>5 DEF ResponsesEvents
    <3> QED BY <3>1 DEF ResponsesItems, TypesOf
  <2>2. new \in Blocks(T)
    BY <2>1, EmptyBlock
  <2>3. s = [r EXCEPT !.blocks = blocks] /\ new.type = e.item.type /\ new.id = e.item.id
    BY <1>5
  <2> HIDE DEF new
  <2>4. Len(blocks) = n + 1 /\ blocks[n + 1] = new /\ \A k \in 1..n : blocks[k] = r.blocks[k]
    BY <1>4, <2>2, AppendProperties
  <2>5. Len(more) = n + 1 /\ more[n + 1] = e /\ \A k \in 1..n : more[k] = added[k]
    BY <1>2, <1>3, AppendProperties
  <2>6. s.blocks = blocks /\ s.ended = FALSE
    BY <1>3, <2>3 DEF Readers
  <2>7. Said(u, "completed") = Said(h, "completed") /\ Said(u, "added") = more
    BY <1>2, <1>5
  <2> HIDE DEF blocks, more, n, added
  <2>8. ASSUME NEW k \in 1..(n + 1)
        PROVE  more[k].item.type = blocks[k].type /\ more[k].item.id = blocks[k].id
    <3>1. k \in 1..n \/ k = n + 1
      BY <1>4
    <3>2. CASE k \in 1..n
      BY <1>3, <2>4, <2>5, <3>2
    <3>3. CASE k = n + 1
      BY <2>3, <2>4, <2>5, <3>3
    <3> QED BY <3>1, <3>2, <3>3
  <2>9. AddedAgree(more, blocks)
    BY <2>4, <2>5, <2>8 DEF AddedAgree
  <2>10. ResponsesHeard(u, s)
    BY <1>3, <2>6, <2>7, <2>9 DEF ResponsesHeard
  <2> QED BY <2>10 DEF u
<1>6. CASE /\ e.kind = "done" /\ i \in DOMAIN r.blocks
           /\ b = [type |-> e.item.type, id |-> e.item.id, body |-> <<>>]
           /\ s = [r EXCEPT !.blocks[i].body = <<"done">>]
  <2> DEFINE c == [b EXCEPT !.body = <<"done">>]
             blocks == [r.blocks EXCEPT ![i] = c]
  <2>1. c.type = b.type /\ c.id = b.id
    BY <1>6
  <2>2. s = [r EXCEPT !.blocks = blocks]
    BY <1>6
  <2>3. Len(blocks) = n /\ \A k \in 1..n : blocks[k].type = r.blocks[k].type /\ blocks[k].id = r.blocks[k].id
    <3>1. DOMAIN r.blocks = 1..n /\ i \in 1..n
      BY <1>4, <1>6
    <3> HIDE DEF c
    <3>2. \A k \in 1..n : blocks[k] = IF k = i THEN c ELSE r.blocks[k]
      BY <3>1
    <3>3. DOMAIN blocks = 1..n
      BY <3>1
    <3>4. Len(blocks) = n
      BY <1>4, <3>1, <3>3
    <3> QED BY <2>1, <3>2, <3>4
  <2>4. s.blocks = blocks /\ s.ended = FALSE
    BY <1>3, <2>2 DEF Readers
  <2>5. Said(u, "completed") = Said(h, "completed") /\ Said(u, "added") = added
    BY <1>2, <1>6
  <2> HIDE DEF blocks, n, added
  <2>6. AddedAgree(added, blocks)
    BY <1>3, <2>3 DEF AddedAgree
  <2>7. ResponsesHeard(u, s)
    BY <1>3, <2>4, <2>5, <2>6 DEF ResponsesHeard
  <2> QED BY <2>7 DEF u
<1>7. CASE e.kind = "delta" /\ s = r
  <2>1. ResponsesHeard(u, s)
    BY <1>2, <1>3, <1>7 DEF ResponsesHeard
  <2> QED BY <2>1 DEF u
<1>8. CASE e.kind = "completed" /\ CompletedItems(r, e.output) /\ s = [r EXCEPT !.ended = TRUE, !.output = e.output]
  <2>1. s.blocks = r.blocks /\ s.ended = TRUE /\ s.output = e.output
    BY <1>8 DEF Readers
  <2>2. CompletedItems(s, s.output)
    <3>1. CompletedItems(r, e.output)
      BY <1>8
    <3> QED BY <2>1, <3>1, Zenon DEF CompletedItems
  <2>3. SaidOnce(Said(u, "completed"), TRUE) /\ Said(u, "added") = added
    <3>1. \A q \in Seq(ResponsesEvents) : SaidOnce(q, FALSE) => SaidOnce(Append(q, e), TRUE)
      BY DEF SaidOnce
    <3> QED BY <1>2, <1>3, <1>8, <3>1
  <2>4. ResponsesHeard(u, s)
    BY <1>3, <2>1, <2>2, <2>3 DEF ResponsesHeard
  <2> QED BY <2>4 DEF u
<1> QED BY <1>1, <1>5, <1>6, <1>7, <1>8

CallAgrees(calls, b) ==
    /\ b.body = PiecesSaid(calls)
    /\ \A i \in 1..Len(calls) : calls[i].id \in {0, b.id}

ChatHeard(h, r) ==
    /\ SaidOnce(Said(h, "done"), r.ended)
    /\ r.text = PiecesSaid(Said(h, "text"))
    /\ \A k \in 1..Len(r.blocks) : CallAgrees(CallSaid(h, k), r.blocks[k])
    /\ \A k \in 1..2 : k > Len(r.blocks) => CallSaid(h, k) = <<>>
    /\ \A i \in 1..Len(Said(h, "call")) : Said(h, "call")[i].index \in 1..Len(r.blocks)

LEMMA ChatCallStep ==
    ASSUME NEW r \in Readers({"tool_use"}), NEW h \in Seq(ChatEvents), NEW e \in ChatEvents, e.kind = "call",
           NEW s \in ChatCall(r, e), ~r.ended, ChatHeard(h, r)
    PROVE  ChatHeard(Append(h, e), s)
<1> DEFINE T == {"tool_use"}
           u == Append(h, e)
           i == e.index
           fresh == [type |-> "tool_use", id |-> 0, body |-> <<>>]
           calls == IF i = Len(r.blocks) + 1 THEN Append(r.blocks, fresh) ELSE r.blocks
           b == calls[i]
           id == IF e.id = 0 THEN b.id ELSE e.id
           half == [b EXCEPT !.id = id]
           c == [half EXCEPT !.body = Append(@, e.piece)]
           n == Len(r.blocks)
           m == Len(calls)
<1>0. i \in 1..2 /\ e.id \in 0..2 /\ r.blocks \in Seq(Blocks(T)) /\ n \in Nat
  BY ReaderType DEF ChatEvents
<1>1. fresh \in Blocks(T) /\ fresh.id = 0 /\ fresh.body = <<>>
  <2>1. "tool_use" \in T /\ 0 \in 0..2
    OBVIOUS
  <2> HIDE DEF T
  <2> QED BY <2>1, EmptyBlock
<1>2. /\ i \in DOMAIN calls /\ (e.id # 0 => b.id \in {0, e.id})
      /\ s = [r EXCEPT !.begun = TRUE,
                       !.blocks = [calls EXCEPT ![i].id = IF e.id = 0 THEN @ ELSE e.id,
                                                ![i].body = Append(@, e.piece)]]
  BY Zenon DEF ChatCall
<1> HIDE DEF fresh
<1>3. /\ calls \in Seq(Blocks(T)) /\ \A k \in 1..n : calls[k] = r.blocks[k]
      /\ m = (IF i = n + 1 THEN n + 1 ELSE n) /\ (i = n + 1 => calls[i] = fresh)
  <2>1. /\ Append(r.blocks, fresh) \in Seq(Blocks(T)) /\ Len(Append(r.blocks, fresh)) = n + 1
        /\ Append(r.blocks, fresh)[n + 1] = fresh
        /\ \A k \in 1..n : Append(r.blocks, fresh)[k] = r.blocks[k]
    BY <1>0, <1>1, AppendProperties
  <2> QED BY <1>0, <2>1
<1>4. m \in Nat /\ i \in 1..m /\ DOMAIN calls = 1..m
  BY <1>2, <1>3
<1> HIDE DEF calls
<1>5. b \in Blocks(T) /\ b.type = "tool_use" /\ b.id \in 0..2
  BY <1>3, <1>4, BlockType
<1> HIDE DEF m
<1> DEFINE blocks == [calls EXCEPT ![i].id = IF e.id = 0 THEN @ ELSE e.id, ![i].body = Append(@, e.piece)]
<1>6. blocks = [calls EXCEPT ![i] = c]
  BY <1>3, <1>4
<1>18. c.id = id /\ c.body = Append(b.body, e.piece)
  <2> HIDE DEF b, id
  <2> QED BY <1>5 DEF Blocks
<1>7. /\ Len(blocks) = m /\ blocks[i] = c /\ \A k \in 1..m : k # i => blocks[k] = calls[k]
  <2> HIDE DEF c
  <2>1. DOMAIN blocks = 1..m
    BY <1>4, <1>6
  <2> HIDE DEF blocks
  <2> QED BY <1>4, <1>6, <2>1
<1>8. s.blocks = blocks /\ s.ended = r.ended /\ s.text = r.text
  <2> HIDE DEF blocks
  <2>1. s = [r EXCEPT !.begun = TRUE, !.blocks = blocks]
    BY <1>2 DEF blocks
  <2> QED BY <2>1 DEF Readers
<1>9. /\ Said(u, "done") = Said(h, "done") /\ Said(u, "text") = Said(h, "text")
      /\ Said(u, "call") = Append(Said(h, "call"), e) /\ Said(h, "call") \in Seq(ChatEvents)
  BY SaidAppend
<1>10. /\ CallSaid(u, i) = Append(CallSaid(h, i), e) /\ CallSaid(h, i) \in Seq(ChatEvents)
       /\ \A k : k # i => CallSaid(u, k) = CallSaid(h, k)
  BY CallSaidAppend
<1> HIDE DEF u, blocks
<1>11. CallAgrees(CallSaid(h, i), b)
  <2>1. CASE i \in 1..n
    BY <1>3, <2>1 DEF ChatHeard
  <2>2. CASE i = n + 1
    <3>1. CallSaid(h, i) = <<>>
      BY <1>0, <2>2 DEF ChatHeard
    <3>2. b.body = <<>>
      BY <1>1, <1>3, <2>2
    <3> QED BY <3>1, <3>2, NothingSaid DEF CallAgrees
  <2> QED BY <1>0, <1>3, <1>4, <2>1, <2>2
<1>12. CallAgrees(CallSaid(u, i), c)
  <2> DEFINE q == CallSaid(h, i)
             w == Append(q, e)
  <2>1. b.body = PiecesSaid(q) /\ \A k \in 1..Len(q) : q[k].id \in {0, b.id}
    BY <1>11 DEF CallAgrees
  <2>2. PiecesSaid(w) = Append(PiecesSaid(q), e.piece)
    BY <1>10, PiecesAppend
  <2>3. Len(w) = Len(q) + 1 /\ Len(q) \in Nat /\ w[Len(q) + 1] = e /\ \A k \in 1..Len(q) : w[k] = q[k]
    BY <1>10, AppendProperties
  <2> HIDE DEF w, q, b
  <2> HIDE DEF c, id
  <2>4. c.id = id /\ c.body = Append(b.body, e.piece)
    BY <1>18
  <2>5. {0, b.id} \subseteq {0, id} /\ e.id \in {0, id}
    BY <1>2 DEF id
  <2>6. ASSUME NEW k \in 1..Len(w) PROVE w[k].id \in {0, c.id}
    <3>1. k \in 1..Len(q) \/ k = Len(q) + 1
      BY <2>3
    <3>2. CASE k \in 1..Len(q)
      BY <2>1, <2>3, <2>4, <2>5, <3>2
    <3>3. CASE k = Len(q) + 1
      BY <2>3, <2>4, <2>5, <3>3
    <3> QED BY <3>1, <3>2, <3>3
  <2>7. CallAgrees(w, c)
    BY <2>1, <2>2, <2>4, <2>6 DEF CallAgrees
  <2> QED BY <1>10, <2>7 DEF w, q
<1> HIDE DEF c, b, id
<1>13. ASSUME NEW k \in 1..m PROVE CallAgrees(CallSaid(u, k), blocks[k])
  <2>1. CASE k = i
    BY <1>7, <1>12, <2>1
  <2>2. CASE k # i
    <3>1. k \in 1..n
      BY <1>0, <1>3, <2>2
    <3>2. CallAgrees(CallSaid(h, k), r.blocks[k])
      BY <3>1 DEF ChatHeard
    <3> QED BY <1>3, <1>7, <1>10, <2>2, <3>1, <3>2
  <2> QED BY <2>1, <2>2
<1>14. ASSUME NEW k \in 1..2, k > m PROVE CallSaid(u, k) = <<>>
  <2>1. k # i /\ k > n
    BY <1>0, <1>3, <1>4, <1>14
  <2>2. CallSaid(h, k) = <<>>
    BY <2>1 DEF ChatHeard
  <2> QED BY <1>10, <2>1, <2>2
<1>15. ASSUME NEW k \in 1..Len(Said(u, "call")) PROVE Said(u, "call")[k].index \in 1..m
  <2> DEFINE q == Said(h, "call")
             w == Append(q, e)
  <2>1. Len(w) = Len(q) + 1 /\ Len(q) \in Nat /\ w[Len(q) + 1] = e /\ \A j \in 1..Len(q) : w[j] = q[j]
    BY <1>9, AppendProperties
  <2>2. \A j \in 1..Len(q) : q[j].index \in 1..n
    BY DEF ChatHeard
  <2>3. k \in 1..Len(w)
    BY <1>9
  <2> HIDE DEF w, q
  <2>4. k \in 1..Len(q) \/ k = Len(q) + 1
    BY <2>1, <2>3
  <2>5. CASE k \in 1..Len(q)
    <3>1. w[k].index \in 1..n
      BY <2>1, <2>2, <2>5
    <3>2. n <= m
      BY <1>0, <1>3
    <3>3. w[k].index \in 1..m
      <4> DEFINE x == w[k].index
      <4>1. x \in 1..n
        BY <3>1
      <4> HIDE DEF x, n
      <4>2. x \in 1..m
        BY <1>0, <1>4, <3>2, <4>1
      <4> QED BY <4>2 DEF x
    <3> QED BY <1>9, <3>3 DEF w, q
  <2>6. CASE k = Len(q) + 1
    <3>1. w[k].index \in 1..m
      BY <1>4, <2>1, <2>6
    <3> QED BY <1>9, <3>1 DEF w, q
  <2> QED BY <2>4, <2>5, <2>6
<1>16. SaidOnce(Said(u, "done"), s.ended) /\ s.text = PiecesSaid(Said(u, "text"))
  BY <1>8, <1>9 DEF ChatHeard
<1>17. Len(s.blocks) = m
  BY <1>7, <1>8
<1>19. ChatHeard(u, s)
  BY <1>8, <1>13, <1>14, <1>15, <1>16, <1>17 DEF ChatHeard
<1> QED BY <1>19 DEF u

LEMMA ChatStep ==
    ASSUME NEW r \in Readers({"tool_use"}), NEW h \in Seq(ChatEvents), NEW e \in ChatEvents,
           NEW s \in ChatReads(r, e), ~r.ended, ChatHeard(h, r)
    PROVE  ChatHeard(Append(h, e), s)
<1> DEFINE u == Append(h, e)
<1>1. \/ e.kind = "text" /\ s = [r EXCEPT !.begun = TRUE, !.text = Append(@, e.piece)]
      \/ e.kind = "call" /\ s \in ChatCall(r, e)
      \/ e.kind = "finish" /\ s = [r EXCEPT !.begun = TRUE, !.said = e.reason]
      \/ e.kind = "usage" /\ s = r
      \/ e.kind = "done" /\ s = [r EXCEPT !.ended = TRUE]
  BY DEF ChatReads
<1>2. ASSUME e.kind # "call", s.blocks = r.blocks, SaidOnce(Said(u, "done"), s.ended),
             s.text = PiecesSaid(Said(u, "text"))
      PROVE  ChatHeard(u, s)
  <2>1. Said(u, "call") = Said(h, "call") /\ \A k : CallSaid(u, k) = CallSaid(h, k)
    BY <1>2, SaidAppend, CallSaidAppend
  <2> HIDE DEF u
  <2> QED BY <1>2, <2>1 DEF ChatHeard
<1>3. /\ Said(u, "done") = IF e.kind = "done" THEN Append(Said(h, "done"), e) ELSE Said(h, "done")
      /\ Said(u, "text") = IF e.kind = "text" THEN Append(Said(h, "text"), e) ELSE Said(h, "text")
      /\ Said(h, "done") \in Seq(ChatEvents) /\ Said(h, "text") \in Seq(ChatEvents)
  BY SaidAppend
<1>4. r.ended = FALSE /\ SaidOnce(Said(h, "done"), r.ended) /\ r.text = PiecesSaid(Said(h, "text"))
  BY ReaderType DEF ChatHeard
<1> HIDE DEF u
<1>5. CASE e.kind = "text" /\ s = [r EXCEPT !.begun = TRUE, !.text = Append(@, e.piece)]
  <2>1. s.blocks = r.blocks /\ s.ended = r.ended /\ s.text = Append(r.text, e.piece)
    BY <1>5 DEF Readers
  <2>2. PiecesSaid(Append(Said(h, "text"), e)) = Append(PiecesSaid(Said(h, "text")), e.piece)
    BY <1>3, PiecesAppend
  <2> QED BY <1>2, <1>3, <1>4, <1>5, <2>1, <2>2 DEF u
<1>6. CASE e.kind = "call" /\ s \in ChatCall(r, e)
  BY <1>6, ChatCallStep
<1>7. CASE e.kind = "finish" /\ s = [r EXCEPT !.begun = TRUE, !.said = e.reason]
  <2>1. s.blocks = r.blocks /\ s.ended = r.ended /\ s.text = r.text
    BY <1>7 DEF Readers
  <2> QED BY <1>2, <1>3, <1>4, <1>7, <2>1 DEF u
<1>8. CASE e.kind = "usage" /\ s = r
  BY <1>2, <1>3, <1>4, <1>8 DEF u
<1>9. CASE e.kind = "done" /\ s = [r EXCEPT !.ended = TRUE]
  <2>1. s.blocks = r.blocks /\ s.ended = TRUE /\ s.text = r.text
    BY <1>9 DEF Readers
  <2>2. SaidOnce(Said(u, "done"), TRUE) /\ Said(u, "text") = Said(h, "text")
    <3>1. \A q \in Seq(ChatEvents) : SaidOnce(q, FALSE) => SaidOnce(Append(q, e), TRUE)
      BY DEF SaidOnce
    <3> QED BY <1>3, <1>4, <1>9, <3>1
  <2> QED BY <1>2, <1>4, <1>9, <2>1, <2>2 DEF u
<1> QED BY <1>1, <1>5, <1>6, <1>7, <1>8, <1>9 DEF u

OllamaHeard(h, r) ==
    /\ r.text = PiecesSaid(ChunkText(h))
    /\ Len(r.blocks) = Len(ChunkCalls(h))
    /\ r.ended => h # <<>> /\ h[Len(h)].done

LEMMA OllamaStep ==
    ASSUME NEW r \in Readers({"tool_use"}), NEW h \in Seq(OllamaEvents), NEW e \in OllamaEvents,
           NEW s \in OllamaReads(r, e), ~r.ended, OllamaHeard(h, r)
    PROVE  OllamaHeard(Append(h, e), s)
<1> DEFINE u == Append(h, e)
           call == [type |-> "tool_use", id |-> 0, body |-> <<"open", "close">>]
           said == IF e.model = "none" THEN r.said ELSE e.model
           words == IF e.piece = "none" THEN r.text ELSE Append(r.text, e.piece)
           blocks == IF e.calls = 0 THEN r.blocks ELSE Append(r.blocks, call)
<1>1. s = [r EXCEPT !.said = said, !.text = words, !.blocks = blocks, !.ended = e.done]
  BY DEF OllamaReads
<1>2. e.calls \in {0, 1}
  BY DEF OllamaEvents
<1>3. s.text = words /\ s.blocks = blocks /\ s.ended = e.done
  <2> HIDE DEF said, words, blocks
  <2> QED BY <1>1 DEF Readers
<1>4. words = PiecesSaid(ChunkText(u))
  <2>1. /\ ChunkText(u) = IF e.piece # "none" THEN Append(ChunkText(h), e) ELSE ChunkText(h)
        /\ ChunkText(h) \in Seq(OllamaEvents)
    BY ChunkTextAppend
  <2>2. PiecesSaid(Append(ChunkText(h), e)) = Append(PiecesSaid(ChunkText(h)), e.piece)
    BY <2>1, PiecesAppend
  <2>3. r.text = PiecesSaid(ChunkText(h))
    BY DEF OllamaHeard
  <2> HIDE DEF u
  <2> QED BY <2>1, <2>2, <2>3
<1>5. Len(blocks) = Len(ChunkCalls(u))
  <2>1. /\ ChunkCalls(u) = IF e.calls = 1 THEN Append(ChunkCalls(h), e) ELSE ChunkCalls(h)
        /\ ChunkCalls(h) \in Seq(OllamaEvents)
    BY ChunkCallsAppend
  <2>2. Len(Append(ChunkCalls(h), e)) = Len(ChunkCalls(h)) + 1
    BY <2>1
  <2>3. Len(Append(r.blocks, call)) = Len(r.blocks) + 1
    <3> HIDE DEF call
    <3> QED BY ReaderType
  <2>4. Len(r.blocks) = Len(ChunkCalls(h))
    BY DEF OllamaHeard
  <2> HIDE DEF u, call
  <2> QED BY <1>2, <2>1, <2>2, <2>3, <2>4
<1>6. u # <<>> /\ u[Len(u)] = e
  BY AppendProperties
<1> HIDE DEF u, words, blocks
<1>7. OllamaHeard(u, s)
  BY <1>3, <1>4, <1>5, <1>6 DEF OllamaHeard
<1> QED BY <1>7 DEF u

-----------------------------------------------------------------------------
(* ProviderStream: the answer of a stream that ended *)

LEMMA AnthropicIsWhole ==
    ASSUME reader \in Readers(TypesOf("anthropic")), heard \in Seq(AnthropicEvents),
           AnthropicHeard(heard, reader), reader.ended, answer = Decoded("anthropic", reader)
    PROVE  AnthropicWhole
<1> DEFINE starts == Said(heard, "block_start")
           stops == Said(heard, "block_stop")
           blocks == reader.blocks
           n == Len(blocks)
           I == {k \in DOMAIN starts : starts[k].type = "tool_use"}
           J == {k \in DOMAIN blocks : blocks[k].type \in {"tool_use", "function_call"}}
           tools == Picked(starts, I)
           calls == Picked(blocks, J)
<1>1. /\ blocks \in Seq(Blocks(TypesOf("anthropic"))) /\ n \in Nat
      /\ starts \in Seq(AnthropicEvents) /\ stops \in Seq(AnthropicEvents)
  <2>1. \A kind : Said(heard, kind) \in Seq(AnthropicEvents)
    BY SaidType
  <2> QED BY <2>1, ReaderType
<1>2. /\ Len(starts) = n
      /\ \A k \in 1..n : starts[k].index = k /\ starts[k].type = blocks[k].type /\ blocks[k].id = k
  BY DEF AnthropicHeard, StartsAgree
<1>3. Len(stops) = n /\ \A k \in 1..n : stops[k].index = k
  BY DEF AnthropicHeard, StopsAgree
<1>4. Len(Said(heard, "message_start")) = 1 /\ Len(Said(heard, "message_stop")) = 1
  <2>1. SaidOnce(Said(heard, "message_stop"), reader.ended) /\ SaidOnce(Said(heard, "message_start"), reader.begun)
    BY DEF AnthropicHeard
  <2>2. reader.begun
    BY DEF AnthropicHeard
  <2> QED BY <2>1, <2>2 DEF SaidOnce
<1>5. \A k \in 1..n : blocks[k].body = PiecesSaid(BlockSaid(heard, k))
  BY DEF AnthropicHeard, BodiesAgree
<1>6. answer.text = PiecesSaid(BlockText(heard))
  BY DEF AnthropicHeard, Decoded
<1>7. answer.calls = [i \in DOMAIN calls |-> Call(calls[i])]
  BY DEF Decoded, CallsOf
<1>8. I = J
  <2>1. DOMAIN starts = 1..n /\ DOMAIN blocks = 1..n
    BY <1>1, <1>2
  <2>2. ASSUME NEW k \in 1..n PROVE blocks[k].type # "function_call"
    <3>1. blocks[k] \in Blocks(TypesOf("anthropic"))
      BY <1>1
    <3>2. blocks[k].type \in TypesOf("anthropic")
      BY <3>1, BlockType
    <3> QED BY <3>2 DEF TypesOf
  <2> HIDE DEF starts, blocks
  <2> QED BY <1>2, <2>1, <2>2
<1>9. PickedTogether(starts, blocks, I)
  BY <1>1, <1>2, PickedAlike
<1>10. /\ Len(calls) = Len(tools)
       /\ \A k \in 1..Len(tools) : \E i \in DOMAIN starts : i \in I /\ tools[k] = starts[i] /\ calls[k] = blocks[i]
  <2>1. calls = Picked(blocks, I)
    BY <1>8, Zenon
  <2> QED BY <1>9, <2>1, Zenon DEF PickedTogether
<1>11. tools \in Seq(AnthropicEvents) /\ calls \in Seq(Blocks(TypesOf("anthropic")))
  BY <1>1, PickedType
<1>12. DOMAIN starts = 1..n /\ DOMAIN stops = 1..n /\ DOMAIN tools = 1..Len(tools) /\ DOMAIN calls = 1..Len(tools)
  BY <1>1, <1>2, <1>3, <1>10, <1>11
<1> DEFINE results == [k \in DOMAIN tools |->
                       [id |-> tools[k].index, body |-> PiecesSaid(BlockSaid(heard, tools[k].index))]]
<1>13. answer.calls = results
  <2> HIDE DEF tools, calls, starts, blocks, I
  <2>1. ASSUME NEW k \in 1..Len(tools)
        PROVE  Call(calls[k]) = [id |-> tools[k].index, body |-> PiecesSaid(BlockSaid(heard, tools[k].index))]
    <3>1. PICK i \in 1..n : tools[k] = starts[i] /\ calls[k] = blocks[i]
      BY <1>10, <1>12, <2>1
    <3>2. tools[k].index = i /\ calls[k].id = i /\ calls[k].body = PiecesSaid(BlockSaid(heard, i))
      BY <1>2, <1>5, <3>1
    <3> QED BY <3>2 DEF Call
  <2> QED BY <1>7, <1>12, <2>1
<1>14. [k \in DOMAIN starts |-> k] = [k \in DOMAIN stops |-> stops[k].index]
  <2> HIDE DEF starts, stops
  <2> QED BY <1>3, <1>12
<1>15. \A k \in DOMAIN starts : starts[k].index = k
  BY <1>2, <1>12
<1> HIDE DEF starts, stops, tools, results, I
<1> QED BY <1>4, <1>6, <1>13, <1>14, <1>15 DEF AnthropicWhole, starts, stops, tools, results, I

LEMMA ResponsesIsWhole ==
    ASSUME reader \in Readers(TypesOf("responses")), heard \in Seq(ResponsesEvents),
           ResponsesHeard(heard, reader), reader.ended, answer = Decoded("responses", reader)
    PROVE  ResponsesWhole
<1> DEFINE T == TypesOf("responses")
           added == Said(heard, "added")
           blocks == reader.blocks
           output == reader.output
           n == Len(blocks)
           I == {k \in DOMAIN added : added[k].item.type # "reasoning"}
           J == {k \in DOMAIN blocks : ~(blocks[k].type = "reasoning")}
           K == {k \in DOMAIN output : output[k].type \notin {"thinking", "reasoning"}}
           announced == Picked(added, I)
           acts == Picked(output, K)
           omitted == \A i \in DOMAIN output : ~(output[i].type = "reasoning")
           expected == IF omitted THEN Picked(blocks, J) ELSE blocks
<1>1. /\ blocks \in Seq(Blocks(T)) /\ n \in Nat /\ output \in Seq(ResponsesItems) /\ added \in Seq(ResponsesEvents)
  <2>1. \A kind : Said(heard, kind) \in Seq(ResponsesEvents)
    BY SaidType
  <2> QED BY <2>1, ReaderType
<1>2. Len(added) = n /\ \A k \in 1..n : added[k].item.type = blocks[k].type /\ added[k].item.id = blocks[k].id
  BY DEF ResponsesHeard, AddedAgree
<1>3. Len(Said(heard, "completed")) = 1
  BY DEF ResponsesHeard, SaidOnce
<1>4. /\ Len(expected) <= Len(output)
      /\ \A i \in DOMAIN expected : output[i].type = expected[i].type /\ output[i].id = expected[i].id
  <2>1. CompletedItems(reader, output)
    BY DEF ResponsesHeard
  <2> QED BY <2>1 DEF CompletedItems
<1>5. announced \in Seq(ResponsesEvents) /\ acts \in Seq(ResponsesItems)
  BY <1>1, PickedType
<1>6. DOMAIN added = 1..n /\ DOMAIN blocks = 1..n /\ DOMAIN output = 1..Len(output) /\ Len(output) \in Nat
  BY <1>1, <1>2
<1>7. I = J
  <2> HIDE DEF added, blocks
  <2> QED BY <1>2, <1>6
<1>8. \A k \in 1..Len(output) : output[k].type \in {"message", "function_call", "reasoning"} /\ output[k].id \in 1..2
  <2>1. \A k \in 1..Len(output) : output[k] \in ResponsesItems
    BY <1>1
  <2> QED BY <2>1 DEF ResponsesItems
<1>9. Len(announced) <= Len(acts) /\ \A k \in 1..Len(announced) : announced[k].item.id = acts[k].id
  <2>1. CASE omitted
    <3>1. acts = output
      <4>1. DOMAIN output \subseteq K
        BY <1>6, <1>8, <2>1
      <4> HIDE DEF output, K
      <4> QED BY <1>1, <4>1, PickedAll
    <3> DEFINE left == Picked(blocks, J)
    <3>2. expected = left
      BY <2>1
    <3>3. /\ Len(left) = Len(announced)
          /\ \A k \in 1..Len(announced) :
               \E i \in DOMAIN added : i \in I /\ announced[k] = added[i] /\ left[k] = blocks[i]
      <4>1. PickedTogether(added, blocks, I)
        BY <1>1, <1>2, PickedAlike
      <4> QED BY <1>7, <4>1 DEF PickedTogether
    <3>4. left \in Seq(Blocks(T))
      BY <1>1, PickedType
    <3>5. DOMAIN left = 1..Len(announced)
      BY <3>3, <3>4
    <3> HIDE DEF left, announced, acts, added, blocks, output, I, expected, omitted
    <3>6. ASSUME NEW k \in 1..Len(announced) PROVE announced[k].item.id = acts[k].id
      <4>1. PICK i \in 1..n : announced[k] = added[i] /\ left[k] = blocks[i]
        BY <1>6, <3>3, <3>6
      <4>2. output[k].id = left[k].id
        BY <1>4, <3>2, <3>5
      <4> QED BY <1>2, <3>1, <4>1, <4>2
    <3>7. Len(announced) <= Len(acts)
      BY <1>4, <3>1, <3>2, <3>3
    <3> QED BY <3>6, <3>7
  <2>2. CASE ~omitted
    <3>1. expected = blocks
      BY <2>2
    <3>2. n <= Len(output) /\ \A i \in 1..n : output[i].type = blocks[i].type /\ output[i].id = blocks[i].id
      BY <1>4, <1>6, <3>1
    <3> DEFINE front == SubSeq(output, 1, n)
               rest == SubSeq(output, n + 1, Len(output))
               begun == Picked(front, K)
    <3> HIDE DEF output, blocks, n
    <3>3. output = front \o rest
      <4>1. SubSeq(output, 1, Len(output)) = output
        BY <1>1, SubSeqFull
      <4>2. 1 \in 1..(Len(output) + 1) /\ n \in (1 - 1)..Len(output) /\ Len(output) \in n..Len(output)
        BY <1>1, <1>6, <3>2
      <4>3. SubSeq(output, 1, n) \o SubSeq(output, n + 1, Len(output)) = SubSeq(output, 1, Len(output))
        BY <1>1, <4>2, ConcatAdjacentSubSeq
      <4> QED BY <4>1, <4>3
    <3>4. front \in Seq(ResponsesItems) /\ Len(front) = n /\ \A i \in 1..n : front[i] = output[i]
      <4>1. 1 \in Int /\ n \in Int
        BY <1>1
      <4>2. \A i \in 1..n : output[i] \in ResponsesItems
        BY <1>1, <1>6, <3>2
      <4>3. front \in Seq(ResponsesItems) /\ Len(front) = (IF 1 <= n THEN n - 1 + 1 ELSE 0)
            /\ \A i \in 1..(n - 1 + 1) : front[i] = output[1 + i - 1]
        BY <4>1, <4>2, SubSeqProperties
      <4> HIDE DEF front
      <4> QED BY <1>1, <4>3
    <3>5. rest \in Seq(ResponsesItems)
      <4>1. n + 1 \in Int /\ Len(output) \in Int
        BY <1>1, <1>6
      <4>2. \A i \in (n + 1)..Len(output) : output[i] \in ResponsesItems
        BY <1>1, <1>6
      <4> QED BY <4>1, <4>2, SubSeqProperties
    <3> HIDE DEF front, rest
    <3>6. Leads(begun, acts, ResponsesItems)
      BY <3>3, <3>4, <3>5, PickedLeads
    <3>7. begun \in Seq(ResponsesItems)
      BY <3>4, PickedType
    <3>8. Len(begun) <= Len(acts) /\ \A k \in 1..Len(begun) : acts[k] = begun[k]
      <4>1. PICK more \in Seq(ResponsesItems) : acts = begun \o more
        BY <3>6 DEF Leads
      <4> HIDE DEF begun, acts
      <4> QED BY <3>7, <4>1, ConcatProperties
    <3>9. begun = Picked(front, I)
      <4>1. DOMAIN front = 1..n
        BY <3>4
      <4>2. ASSUME NEW i \in 1..n PROVE i \in K <=> i \in I
        <5>1. i \in 1..Len(output)
          BY <1>1, <1>6, <3>2
        <5>2. i \in K <=> output[i].type # "reasoning"
          BY <1>6, <1>8, <5>1
        <5>3. i \in I <=> added[i].item.type # "reasoning"
          BY <1>6
        <5> QED BY <1>2, <3>2, <5>2, <5>3
      <4> HIDE DEF I, K
      <4> QED BY <4>1, <4>2, PickedSame
    <3>10. /\ Len(begun) = Len(announced)
           /\ \A k \in 1..Len(announced) :
               \E i \in DOMAIN added : i \in I /\ announced[k] = added[i] /\ begun[k] = front[i]
      <4>1. PickedTogether(added, front, I)
        BY <1>1, <1>2, <3>4, PickedAlike
      <4> QED BY <3>9, <4>1 DEF PickedTogether
    <3> HIDE DEF begun, announced, acts, added, I, K
    <3>11. ASSUME NEW k \in 1..Len(announced) PROVE announced[k].item.id = acts[k].id
      <4>1. PICK i \in 1..n : announced[k] = added[i] /\ begun[k] = front[i]
        BY <1>6, <3>10, <3>11
      <4>2. acts[k] = output[i]
        BY <3>4, <3>8, <3>10, <4>1
      <4> QED BY <1>2, <3>2, <4>1, <4>2
    <3> QED BY <3>8, <3>10, <3>11
  <2> QED BY <2>1, <2>2
<1>10. answer.calls = [i \in DOMAIN acts |-> [id |-> acts[i].id, body |-> <<>>]]
  BY DEF Decoded, Actions
<1> DEFINE wanted == [k \in DOMAIN announced |-> announced[k].item.id]
           answered == [k \in DOMAIN answer.calls |-> answer.calls[k].id]
<1>11. /\ wanted \in Seq({0, 1, 2}) /\ Len(wanted) = Len(announced)
       /\ answered \in Seq({0, 1, 2}) /\ Len(answered) = Len(acts)
       /\ \A k \in 1..Len(wanted) : wanted[k] = answered[k]
  <2>1. DOMAIN announced = 1..Len(announced) /\ DOMAIN acts = 1..Len(acts)
        /\ Len(announced) \in Nat /\ Len(acts) \in Nat
    BY <1>5
  <2>2. \A k \in 1..Len(acts) : acts[k].id \in {0, 1, 2}
    <3>1. \A k \in 1..Len(acts) : acts[k] \in ResponsesItems
      BY <1>5
    <3> QED BY <3>1 DEF ResponsesItems
  <2> HIDE DEF announced, acts
  <2>3. answered = [k \in 1..Len(acts) |-> acts[k].id]
    BY <1>10, <2>1
  <2>4. wanted = [k \in 1..Len(announced) |-> announced[k].item.id]
    BY <2>1
  <2>5. \A k \in 1..Len(announced) : announced[k].item.id = acts[k].id /\ k \in 1..Len(acts)
    BY <1>9, <2>1
  <2> HIDE DEF wanted, answered
  <2>6. \A k \in 1..Len(announced) : wanted[k] = acts[k].id /\ wanted[k] \in {0, 1, 2}
    BY <2>2, <2>4, <2>5
  <2>7. wanted \in [1..Len(announced) -> {0, 1, 2}] /\ answered \in [1..Len(acts) -> {0, 1, 2}]
    BY <2>2, <2>3, <2>4, <2>6
  <2>8. wanted \in Seq({0, 1, 2}) /\ answered \in Seq({0, 1, 2}) /\ Len(wanted) = Len(announced) /\ Len(answered) = Len(acts)
    BY <2>1, <2>7
  <2>9. \A k \in 1..Len(announced) : answered[k] = acts[k].id
    BY <2>3, <2>5
  <2> QED BY <2>6, <2>8, <2>9
<1>12. IsPrefix(wanted, answered)
  <2> HIDE DEF wanted, answered
  <2> QED BY <1>9, <1>11, PrefixIs
<1> HIDE DEF added, I, announced
<1> QED BY <1>3, <1>12 DEF ResponsesWhole, added, I, announced

\* Where all blocks are calls.
LEMMA CallsOfCalls ==
    ASSUME NEW blocks \in Seq(Blocks({"tool_use"}))
    PROVE  CallsOf(blocks) = [i \in 1..Len(blocks) |-> Call(blocks[i])]
<1> DEFINE J == {i \in DOMAIN blocks : blocks[i].type \in {"tool_use", "function_call"}}
<1>1. \A i \in DOMAIN blocks : blocks[i].type = "tool_use"
  <2>1. \A i \in DOMAIN blocks : blocks[i] \in Blocks({"tool_use"})
    OBVIOUS
  <2> QED BY <2>1, BlockType
<1>2. DOMAIN blocks \subseteq J /\ DOMAIN blocks = 1..Len(blocks)
  BY <1>1
<1> HIDE DEF J
<1>3. Picked(blocks, J) = blocks
  BY <1>2, PickedAll
<1> QED BY <1>2, <1>3 DEF CallsOf, J

LEMMA ChatIsWhole ==
    ASSUME reader \in Readers({"tool_use"}), heard \in Seq(ChatEvents),
           ChatHeard(heard, reader), reader.ended, answer = Decoded("chat", reader)
    PROVE  ChatWhole
<1> DEFINE blocks == reader.blocks
           n == Len(blocks)
<1>1. blocks \in Seq(Blocks({"tool_use"})) /\ n \in Nat
  BY ReaderType
<1>2. answer.text = reader.text /\ answer.calls = [i \in 1..n |-> Call(blocks[i])]
  BY <1>1, CallsOfCalls DEF Decoded
<1>3. DOMAIN answer.calls = 1..n
      /\ \A k \in 1..n : answer.calls[k].id = blocks[k].id /\ answer.calls[k].body = blocks[k].body
  BY <1>2 DEF Call
<1>4. \A k : CallSaid(heard, k) \in Seq(ChatEvents) /\ Said(heard, "call") \in Seq(ChatEvents)
  BY CallSaidType, SaidType
<1>5. \A k : DOMAIN CallSaid(heard, k) = 1..Len(CallSaid(heard, k))
      /\ DOMAIN Said(heard, "call") = 1..Len(Said(heard, "call"))
  BY <1>4
<1>6. /\ Len(Said(heard, "done")) = 1 /\ reader.text = PiecesSaid(Said(heard, "text"))
      /\ \A k \in 1..n : CallAgrees(CallSaid(heard, k), blocks[k])
      /\ \A i \in 1..Len(Said(heard, "call")) : Said(heard, "call")[i].index \in 1..n
  BY DEF ChatHeard, SaidOnce
<1>7. ASSUME NEW k \in 1..n
      PROVE  /\ answer.calls[k].body = PiecesSaid(CallSaid(heard, k))
             /\ \A i \in DOMAIN CallSaid(heard, k) : CallSaid(heard, k)[i].id \in {0, answer.calls[k].id}
  BY <1>3, <1>5, <1>6 DEF CallAgrees
<1> HIDE DEF n, blocks
<1> QED BY <1>2, <1>3, <1>5, <1>6, <1>7 DEF ChatWhole

LEMMA OllamaIsWhole ==
    ASSUME reader \in Readers({"tool_use"}),
           OllamaHeard(heard, reader), reader.ended, answer = Decoded("ollama", reader)
    PROVE  OllamaWhole
<1>1. reader.blocks \in Seq(Blocks({"tool_use"}))
  BY ReaderType
<1>2. answer.text = reader.text /\ answer.calls = [i \in 1..Len(reader.blocks) |-> Call(reader.blocks[i])]
  BY <1>1, CallsOfCalls DEF Decoded
<1>3. Len(answer.calls) = Len(reader.blocks)
  BY <1>1, <1>2
<1> QED BY <1>2, <1>3 DEF OllamaHeard, OllamaWhole

-----------------------------------------------------------------------------
(* ProviderStream: conversations on the wire *)

Messages == [kind : {"text", "call", "result"}, id : 0..2, reasoned : BOOLEAN]
WireBlocks == [kind : {"text", "call", "result", "reasoning"}, id : 0..2]

\* A result stands behind its call.
Paired(ms) ==
    /\ ms \in Seq(Messages)
    /\ \A i \in 1..Len(ms) : ms[i].kind = "result" =>
           i - 1 \in 1..Len(ms) /\ ms[i - 1].kind = "call" /\ ms[i - 1].id = ms[i].id

\* The messages without what they replay.
Plain(ms) == [i \in DOMAIN ms |-> Block(ms[i].kind, ms[i].id)]

\* What CallsKeepTheirResults says of the items w of the conversation ms.
Unreasoned(w) == {i \in DOMAIN w : w[i].kind # "reasoning"}
Carries(w, ms) ==
    /\ w \in Seq(WireBlocks)
    /\ \A i \in 1..Len(w) : w[i].kind = "reasoning" => i + 1 \in 1..Len(w) /\ w[i + 1] = Block("call", w[i].id)
    /\ \A i \in 1..Len(w) : w[i].kind = "result" => i - 1 \in 1..Len(w) /\ w[i - 1] = Block("call", w[i].id)
    /\ Picked(w, Unreasoned(w)) = Plain(ms)

LEMMA PlainType ==
    ASSUME NEW ms \in Seq(Messages)
    PROVE  /\ Plain(ms) \in Seq(WireBlocks) /\ Len(Plain(ms)) = Len(ms)
           /\ \A i \in 1..Len(ms) : Plain(ms)[i] = Block(ms[i].kind, ms[i].id)
<1>1. DOMAIN ms = 1..Len(ms) /\ Len(ms) \in Nat /\ \A i \in 1..Len(ms) : ms[i] \in Messages
  OBVIOUS
<1>2. \A m \in Messages : Block(m.kind, m.id) \in WireBlocks
  BY DEF Messages, WireBlocks, Block
<1>3. \A i \in 1..Len(ms) : Plain(ms)[i] = Block(ms[i].kind, ms[i].id)
  BY <1>1 DEF Plain
<1>4. Plain(ms) = [i \in 1..Len(ms) |-> Plain(ms)[i]]
  BY <1>1 DEF Plain
<1>5. \A i \in 1..Len(ms) : Plain(ms)[i] \in WireBlocks
  BY <1>1, <1>2, <1>3
<1>6. Plain(ms) \in Seq(WireBlocks) /\ Len(Plain(ms)) = Len(ms)
  BY <1>1, <1>4, <1>5
<1> QED BY <1>3, <1>6

LEMMA PlainConcat ==
    ASSUME NEW a \in Seq(Messages), NEW b \in Seq(Messages)
    PROVE  Plain(a \o b) = Plain(a) \o Plain(b)
<1> DEFINE c == a \o b
           p == Plain(a)
           q == Plain(b)
           w == p \o q
           v == Plain(c)
<1>1. /\ c \in Seq(Messages) /\ Len(c) = Len(a) + Len(b) /\ Len(a) \in Nat /\ Len(b) \in Nat
      /\ \A i \in 1..(Len(a) + Len(b)) : c[i] = IF i <= Len(a) THEN a[i] ELSE b[i - Len(a)]
  BY ConcatProperties
<1> HIDE DEF c
<1>2. /\ v \in Seq(WireBlocks) /\ Len(v) = Len(c) /\ \A i \in 1..Len(c) : v[i] = Block(c[i].kind, c[i].id)
      /\ p \in Seq(WireBlocks) /\ Len(p) = Len(a) /\ \A i \in 1..Len(a) : p[i] = Block(a[i].kind, a[i].id)
      /\ q \in Seq(WireBlocks) /\ Len(q) = Len(b) /\ \A i \in 1..Len(b) : q[i] = Block(b[i].kind, b[i].id)
  BY <1>1, PlainType
<1> HIDE DEF p, q, v
<1>3. /\ w \in Seq(WireBlocks) /\ Len(w) = Len(a) + Len(b)
      /\ \A i \in 1..(Len(a) + Len(b)) : w[i] = IF i <= Len(a) THEN p[i] ELSE q[i - Len(a)]
  <2>1. /\ w \in Seq(WireBlocks) /\ Len(w) = Len(p) + Len(q)
        /\ \A i \in 1..(Len(p) + Len(q)) : w[i] = IF i <= Len(p) THEN p[i] ELSE q[i - Len(p)]
    <3>1. \A s, t \in Seq(WireBlocks) :
            /\ s \o t \in Seq(WireBlocks) /\ Len(s \o t) = Len(s) + Len(t)
            /\ \A i \in 1..(Len(s) + Len(t)) : (s \o t)[i] = IF i <= Len(s) THEN s[i] ELSE t[i - Len(s)]
      BY ConcatProperties, Zenon
    <3> QED BY <1>2, <3>1, Zenon
  <2> HIDE DEF w
  <2> QED BY <1>2, <2>1, Zenon
<1> HIDE DEF w
<1>4. \A i \in 1..Len(v) : v[i] = w[i]
  <2> TAKE i \in 1..Len(v)
  <2>1. i \in 1..(Len(a) + Len(b)) /\ i \in 1..Len(c)
    BY <1>1, <1>2
  <2>2. CASE i <= Len(a)
    <3>1. i \in 1..Len(a)
      BY <1>1, <2>1, <2>2
    <3> QED BY <1>1, <1>2, <1>3, <2>1, <2>2, <3>1
  <2>3. CASE ~(i <= Len(a))
    <3> DEFINE j == i - Len(a)
    <3>1. j \in 1..Len(b) /\ c[i] = b[j] /\ w[i] = q[j]
      BY <1>1, <1>3, <2>1, <2>3
    <3> HIDE DEF j
    <3> QED BY <1>2, <2>1, <3>1
  <2> QED BY <2>2, <2>3
<1>5. v = w
  BY <1>1, <1>2, <1>3, <1>4, SeqEqual
<1> QED BY <1>5 DEF c, p, q, v, w

LEMMA PairedConcat ==
    ASSUME NEW a, NEW b, Paired(a), Paired(b)
    PROVE  Paired(a \o b)
<1> DEFINE c == a \o b
<1>1. a \in Seq(Messages) /\ b \in Seq(Messages)
  BY DEF Paired
<1>2. /\ c \in Seq(Messages) /\ Len(c) = Len(a) + Len(b) /\ Len(a) \in Nat /\ Len(b) \in Nat
      /\ \A i \in 1..(Len(a) + Len(b)) : c[i] = IF i <= Len(a) THEN a[i] ELSE b[i - Len(a)]
  BY <1>1, ConcatProperties
<1> HIDE DEF c
<1>3. ASSUME NEW i \in 1..Len(c), c[i].kind = "result"
      PROVE  i - 1 \in 1..Len(c) /\ c[i - 1].kind = "call" /\ c[i - 1].id = c[i].id
  <2>1. CASE i <= Len(a)
    <3>1. i \in 1..Len(a) /\ c[i] = a[i]
      BY <1>2, <2>1
    <3>2. i - 1 \in 1..Len(a) /\ a[i - 1].kind = "call" /\ a[i - 1].id = a[i].id
      BY <1>3, <3>1 DEF Paired
    <3>3. i - 1 \in 1..Len(c) /\ c[i - 1] = a[i - 1]
      BY <1>2, <3>2
    <3> QED BY <3>1, <3>2, <3>3
  <2>2. CASE ~(i <= Len(a))
    <3> DEFINE j == i - Len(a)
    <3>1. j \in 1..Len(b) /\ c[i] = b[j] /\ i = Len(a) + j
      BY <1>2, <2>2
    <3> HIDE DEF j
    <3>2. j - 1 \in 1..Len(b) /\ b[j - 1].kind = "call" /\ b[j - 1].id = b[j].id
      BY <1>3, <3>1 DEF Paired
    <3>3. i - 1 \in 1..Len(c) /\ c[i - 1] = b[j - 1]
      <4>1. i - 1 \in 1..(Len(a) + Len(b)) /\ ~(i - 1 <= Len(a)) /\ i - 1 - Len(a) = j - 1
        BY <1>2, <3>1, <3>2
      <4> QED BY <1>2, <4>1
    <3> QED BY <3>1, <3>2, <3>3
  <2> QED BY <2>1, <2>2
<1> QED BY <1>2, <1>3 DEF Paired, c

LEMMA KeepsConcat ==
    ASSUME NEW v, NEW w, NEW a \in Seq(Messages), NEW b \in Seq(Messages), Carries(v, a), Carries(w, b)
    PROVE  Carries(v \o w, a \o b)
<1> DEFINE c == v \o w
           n == Len(v)
<1>1. v \in Seq(WireBlocks) /\ w \in Seq(WireBlocks)
  BY DEF Carries
<1>2. /\ c \in Seq(WireBlocks) /\ Len(c) = n + Len(w) /\ n \in Nat /\ Len(w) \in Nat
      /\ \A i \in 1..(n + Len(w)) : c[i] = IF i <= n THEN v[i] ELSE w[i - n]
  BY <1>1, ConcatProperties
<1>3. Picked(c, Unreasoned(c)) = Plain(a \o b)
  <2>1. \A i \in DOMAIN v : i \in Unreasoned(c) <=> i \in Unreasoned(v)
    <3>1. DOMAIN v = 1..n /\ DOMAIN c = 1..(n + Len(w))
      BY <1>1, <1>2
    <3> HIDE DEF c, n
    <3>2. ASSUME NEW i \in 1..n PROVE c[i] = v[i] /\ i \in 1..(n + Len(w))
      BY <1>2, <3>2
    <3> QED BY <3>1, <3>2 DEF Unreasoned
  <2>2. \A i \in 1..Len(w) : i \in Unreasoned(w) <=> n + i \in Unreasoned(c)
    <3>1. DOMAIN w = 1..Len(w) /\ DOMAIN c = 1..(n + Len(w))
      BY <1>1, <1>2
    <3> HIDE DEF c, n
    <3>2. ASSUME NEW i \in 1..Len(w) PROVE c[n + i] = w[i] /\ n + i \in 1..(n + Len(w))
      <4>1. n + i \in 1..(n + Len(w)) /\ ~(n + i <= n) /\ n + i - n = i
        BY <1>2
      <4> QED BY <1>2, <4>1
    <3> QED BY <3>1, <3>2 DEF Unreasoned
  <2>3. Picked(v, Unreasoned(c)) = Picked(v, Unreasoned(v))
    <3> HIDE DEF c
    <3> QED BY <2>1, PickedSame
  <2>4. Picked(v \o w, Unreasoned(c)) = Picked(v, Unreasoned(c)) \o Picked(w, Unreasoned(w))
    <3> HIDE DEF c
    <3> QED BY <1>1, <2>2, PickedConcat
  <2>5. Plain(a \o b) = Plain(a) \o Plain(b)
    BY PlainConcat
  <2>6. Picked(v, Unreasoned(v)) = Plain(a) /\ Picked(w, Unreasoned(w)) = Plain(b)
    BY DEF Carries
  <2> QED BY <2>3, <2>4, <2>5, <2>6
<1> HIDE DEF c, n
<1>4. ASSUME NEW i \in 1..Len(c), c[i].kind = "reasoning"
      PROVE  i + 1 \in 1..Len(c) /\ c[i + 1] = Block("call", c[i].id)
  <2>1. CASE i <= n
    <3>1. i \in 1..n /\ c[i] = v[i]
      BY <1>2, <2>1
    <3>2. i + 1 \in 1..n /\ v[i + 1] = Block("call", v[i].id)
      BY <1>4, <3>1 DEF Carries, n
    <3>3. i + 1 \in 1..Len(c) /\ c[i + 1] = v[i + 1]
      BY <1>2, <3>2
    <3> QED BY <3>1, <3>2, <3>3
  <2>2. CASE ~(i <= n)
    <3> DEFINE j == i - n
    <3>1. j \in 1..Len(w) /\ c[i] = w[j] /\ i = n + j
      BY <1>2, <2>2
    <3> HIDE DEF j
    <3>2. j + 1 \in 1..Len(w) /\ w[j + 1] = Block("call", w[j].id)
      BY <1>4, <3>1 DEF Carries
    <3>3. i + 1 \in 1..Len(c) /\ c[i + 1] = w[j + 1]
      <4>1. i + 1 \in 1..(n + Len(w)) /\ ~(i + 1 <= n) /\ i + 1 - n = j + 1
        BY <1>2, <3>1, <3>2
      <4> QED BY <1>2, <4>1
    <3> QED BY <3>1, <3>2, <3>3
  <2> QED BY <2>1, <2>2
<1>5. ASSUME NEW i \in 1..Len(c), c[i].kind = "result"
      PROVE  i - 1 \in 1..Len(c) /\ c[i - 1] = Block("call", c[i].id)
  <2>1. CASE i <= n
    <3>1. i \in 1..n /\ c[i] = v[i]
      BY <1>2, <2>1
    <3>2. i - 1 \in 1..n /\ v[i - 1] = Block("call", v[i].id)
      BY <1>5, <3>1 DEF Carries, n
    <3>3. i - 1 \in 1..Len(c) /\ c[i - 1] = v[i - 1]
      BY <1>2, <3>2
    <3> QED BY <3>1, <3>2, <3>3
  <2>2. CASE ~(i <= n)
    <3> DEFINE j == i - n
    <3>1. j \in 1..Len(w) /\ c[i] = w[j] /\ i = n + j
      BY <1>2, <2>2
    <3> HIDE DEF j
    <3>2. j - 1 \in 1..Len(w) /\ w[j - 1] = Block("call", w[j].id)
      BY <1>5, <3>1 DEF Carries
    <3>3. i - 1 \in 1..Len(c) /\ c[i - 1] = w[j - 1]
      <4>1. i - 1 \in 1..(n + Len(w)) /\ ~(i - 1 <= n) /\ i - 1 - n = j - 1
        BY <1>2, <3>1, <3>2
      <4> QED BY <1>2, <4>1
    <3> QED BY <3>1, <3>2, <3>3
  <2> QED BY <2>1, <2>2
<1> QED BY <1>2, <1>3, <1>4, <1>5 DEF Carries, c

\* A conversation without what it replays keeps its results.
LEMMA PlainKeeps ==
    ASSUME NEW ms, Paired(ms)
    PROVE  Carries(Plain(ms), ms)
<1> DEFINE w == Plain(ms)
<1>1. ms \in Seq(Messages) /\ w \in Seq(WireBlocks) /\ Len(w) = Len(ms)
      /\ \A i \in 1..Len(ms) : w[i] = Block(ms[i].kind, ms[i].id)
  BY PlainType DEF Paired
<1>2. \A i \in 1..Len(ms) : ms[i].kind \in {"text", "call", "result"}
  <2>1. \A i \in 1..Len(ms) : ms[i] \in Messages
    BY <1>1
  <2> QED BY <2>1 DEF Messages
<1>3. DOMAIN w = 1..Len(w)
  BY <1>1
<1> HIDE DEF w
<1>4. \A i \in 1..Len(w) : w[i].kind = ms[i].kind /\ w[i].id = ms[i].id
  <2>1. \A kind, id : Block(kind, id).kind = kind /\ Block(kind, id).id = id
    BY DEF Block
  <2> QED BY <1>1, <2>1
<1>5. Picked(w, Unreasoned(w)) = w
  <2>1. DOMAIN w \subseteq Unreasoned(w)
    BY <1>1, <1>2, <1>3, <1>4 DEF Unreasoned
  <2> QED BY <1>1, <2>1, PickedAll
<1>6. \A i \in 1..Len(w) : w[i].kind = "result" => i - 1 \in 1..Len(w) /\ w[i - 1] = Block("call", w[i].id)
  <2> SUFFICES ASSUME NEW i \in 1..Len(w), w[i].kind = "result"
               PROVE  i - 1 \in 1..Len(w) /\ w[i - 1] = Block("call", w[i].id)
    OBVIOUS
  <2>1. i - 1 \in 1..Len(ms) /\ ms[i - 1].kind = "call" /\ ms[i - 1].id = ms[i].id
    BY <1>1, <1>4 DEF Paired
  <2> QED BY <1>1, <1>4, <2>1
<1>7. Carries(w, ms)
  BY <1>1, <1>2, <1>4, <1>5, <1>6 DEF Carries, w
<1> QED BY <1>7 DEF w

LEMMA AnthropicMessagesType ==
    ASSUME NEW ms \in Seq(Messages)
    PROVE  /\ AnthropicMessages(ms) \in Seq(Seq(WireBlocks)) /\ Len(AnthropicMessages(ms)) = Len(ms)
           /\ \A i \in 1..Len(ms) : AnthropicMessages(ms)[i] = Replayed(ms[i]) \o <<Block(ms[i].kind, ms[i].id)>>
<1>1. DOMAIN ms = 1..Len(ms) /\ Len(ms) \in Nat /\ \A i \in 1..Len(ms) : ms[i] \in Messages
  OBVIOUS
<1>2. \A m \in Messages : Replayed(m) \o <<Block(m.kind, m.id)>> \in Seq(WireBlocks)
  <2> TAKE m \in Messages
  <2>1. Block(m.kind, m.id) \in WireBlocks /\ Block("reasoning", m.id) \in WireBlocks
    BY DEF Messages, WireBlocks, Block
  <2>2. Replayed(m) \in Seq(WireBlocks)
    BY <2>1 DEF Replayed
  <2> QED BY <2>1, <2>2
<1>3. \A i \in 1..Len(ms) : AnthropicMessages(ms)[i] = Replayed(ms[i]) \o <<Block(ms[i].kind, ms[i].id)>>
  BY <1>1 DEF AnthropicMessages
<1>4. AnthropicMessages(ms) = [i \in 1..Len(ms) |-> AnthropicMessages(ms)[i]]
  BY <1>1 DEF AnthropicMessages
<1>5. \A i \in 1..Len(ms) : AnthropicMessages(ms)[i] \in Seq(WireBlocks)
  BY <1>1, <1>2, <1>3
<1>6. AnthropicMessages(ms) \in Seq(Seq(WireBlocks)) /\ Len(AnthropicMessages(ms)) = Len(ms)
  BY <1>1, <1>4, <1>5
<1> QED BY <1>3, <1>6

LEMMA AnthropicMessagesConcat ==
    ASSUME NEW a \in Seq(Messages), NEW b \in Seq(Messages)
    PROVE  FlattenSeq(AnthropicMessages(a \o b)) = FlattenSeq(AnthropicMessages(a)) \o FlattenSeq(AnthropicMessages(b))
<1> DEFINE c == a \o b
           p == AnthropicMessages(a)
           q == AnthropicMessages(b)
           w == p \o q
           v == AnthropicMessages(c)
           item(m) == Replayed(m) \o <<Block(m.kind, m.id)>>
<1>1. /\ c \in Seq(Messages) /\ Len(c) = Len(a) + Len(b) /\ Len(a) \in Nat /\ Len(b) \in Nat
      /\ \A i \in 1..(Len(a) + Len(b)) : c[i] = IF i <= Len(a) THEN a[i] ELSE b[i - Len(a)]
  BY ConcatProperties
<1> HIDE DEF c
<1>2. /\ v \in Seq(Seq(WireBlocks)) /\ Len(v) = Len(c) /\ \A i \in 1..Len(c) : v[i] = item(c[i])
      /\ p \in Seq(Seq(WireBlocks)) /\ Len(p) = Len(a) /\ \A i \in 1..Len(a) : p[i] = item(a[i])
      /\ q \in Seq(Seq(WireBlocks)) /\ Len(q) = Len(b) /\ \A i \in 1..Len(b) : q[i] = item(b[i])
  BY <1>1, AnthropicMessagesType
<1> HIDE DEF p, q, v, item
<1>3. /\ w \in Seq(Seq(WireBlocks)) /\ Len(w) = Len(a) + Len(b)
      /\ \A i \in 1..(Len(a) + Len(b)) : w[i] = IF i <= Len(a) THEN p[i] ELSE q[i - Len(a)]
  <2>1. /\ w \in Seq(Seq(WireBlocks)) /\ Len(w) = Len(p) + Len(q)
        /\ \A i \in 1..(Len(p) + Len(q)) : w[i] = IF i <= Len(p) THEN p[i] ELSE q[i - Len(p)]
    <3>1. \A s, t \in Seq(Seq(WireBlocks)) :
            /\ s \o t \in Seq(Seq(WireBlocks)) /\ Len(s \o t) = Len(s) + Len(t)
            /\ \A i \in 1..(Len(s) + Len(t)) : (s \o t)[i] = IF i <= Len(s) THEN s[i] ELSE t[i - Len(s)]
      BY ConcatProperties, Zenon
    <3> QED BY <1>2, <3>1, Zenon
  <2> HIDE DEF w
  <2> QED BY <1>2, <2>1, Zenon
<1>4. FlattenSeq(w) = FlattenSeq(p) \o FlattenSeq(q)
  BY <1>2, FlattenConcat
<1> HIDE DEF w
<1>5. \A i \in 1..Len(v) : v[i] = w[i]
  <2> TAKE i \in 1..Len(v)
  <2>1. i \in 1..(Len(a) + Len(b)) /\ i \in 1..Len(c)
    BY <1>1, <1>2
  <2>2. CASE i <= Len(a)
    <3>1. i \in 1..Len(a)
      BY <1>1, <2>1, <2>2
    <3> QED BY <1>1, <1>2, <1>3, <2>1, <2>2, <3>1
  <2>3. CASE ~(i <= Len(a))
    <3> DEFINE j == i - Len(a)
    <3>1. j \in 1..Len(b) /\ c[i] = b[j] /\ w[i] = q[j]
      BY <1>1, <1>3, <2>1, <2>3
    <3> HIDE DEF j
    <3> QED BY <1>2, <2>1, <3>1
  <2> QED BY <2>2, <2>3
<1>6. v = w
  BY <1>1, <1>2, <1>3, <1>5, SeqEqual
<1> QED BY <1>4, <1>6 DEF c, p, q, v

\* One block per message is the plain conversation.
LEMMA ChatFlattened ==
    ASSUME NEW ms \in Seq(Messages)
    PROVE  FlattenSeq(ChatMessages(ms)) = Plain(ms)
<1> DEFINE w == Plain(ms)
<1>1. /\ w \in Seq(WireBlocks) /\ DOMAIN w = DOMAIN ms
      /\ \A i \in DOMAIN ms : w[i] = Block(ms[i].kind, ms[i].id)
  BY PlainType DEF Plain
<1> HIDE DEF w
<1>2. Parts(w, DOMAIN w) = ChatMessages(ms)
  BY <1>1 DEF Parts, ChatMessages
<1>3. Picked(w, DOMAIN w) = w
  BY <1>1, PickedAll
<1>4. Picked(w, DOMAIN w) = FlattenSeq(Parts(w, DOMAIN w))
  BY Zenon DEF Picked, Parts
<1> QED BY <1>2, <1>3, <1>4 DEF w

LEMMA UnreasonedFlattened ==
    ASSUME NEW ms \in Seq(Messages), \A i \in DOMAIN ms : ~ms[i].reasoned
    PROVE  FlattenSeq(AnthropicMessages(ms)) = Plain(ms)
<1>1. AnthropicMessages(ms) = ChatMessages(ms)
  <2>1. \A i \in DOMAIN ms : Block(ms[i].kind, ms[i].id) \in WireBlocks
    <3>1. \A i \in DOMAIN ms : ms[i] \in Messages
      OBVIOUS
    <3> QED BY <3>1 DEF Messages, WireBlocks, Block
  <2>2. \A x \in WireBlocks : <<>> \o <<x>> = <<x>>
    OBVIOUS
  <2>3. \A i \in DOMAIN ms : Replayed(ms[i]) \o <<Block(ms[i].kind, ms[i].id)>> = <<Block(ms[i].kind, ms[i].id)>>
    BY <2>1, <2>2 DEF Replayed
  <2> QED BY <2>3, Zenon DEF AnthropicMessages, ChatMessages
<1> QED BY <1>1, ChatFlattened

\* A call with its reasoning, and its result.
LEMMA ReasonedTurnKeeps ==
    ASSUME NEW id \in 1..2, NEW ms, ms = <<Message("call", id, TRUE), Message("result", id, FALSE)>>
    PROVE  Carries(FlattenSeq(AnthropicMessages(ms)), ms)
<1> DEFINE C == Block("call", id)
           S == Block("result", id)
           R == Block("reasoning", id)
           A == WireBlocks
           w == <<R, C, S>>
           I == {2, 3}
<1>1. C \in A /\ S \in A /\ R \in A
  BY DEF WireBlocks, Block
<1>2. /\ C.kind = "call" /\ S.kind = "result" /\ R.kind = "reasoning"
      /\ C.id = id /\ S.id = id /\ R.id = id
  BY DEF Block
<1>3. ms \in Seq(Messages) /\ Len(ms) = 2 /\ DOMAIN ms = 1..2
      /\ ms[1] = Message("call", id, TRUE) /\ ms[2] = Message("result", id, FALSE)
  <2>1. Message("call", id, TRUE) \in Messages /\ Message("result", id, FALSE) \in Messages
    BY DEF Message, Messages
  <2> DEFINE a == Message("call", id, TRUE)
             b == Message("result", id, FALSE)
  <2>2. a \in Messages /\ b \in Messages /\ ms = <<a, b>>
    BY <2>1
  <2> HIDE DEF a, b
  <2>3. ms \in Seq(Messages) /\ Len(ms) = 2 /\ DOMAIN ms = 1..2 /\ ms[1] = a /\ ms[2] = b
    <3>1. <<a, b>> \in Seq(Messages) /\ Len(<<a, b>>) = 2 /\ DOMAIN <<a, b>> = 1..2 /\ <<a, b>>[1] = a /\ <<a, b>>[2] = b
      BY <2>2, TwoIs
    <3> QED BY <2>2, <3>1, Zenon
  <2> QED BY <2>3 DEF a, b
<1>4. Replayed(ms[1]) \o <<Block(ms[1].kind, ms[1].id)>> = <<R>> \o <<C>>
      /\ Replayed(ms[2]) \o <<Block(ms[2].kind, ms[2].id)>> = <<>> \o <<S>>
  BY <1>3 DEF Replayed, Message
<1>5. Plain(ms) = <<C, S>>
  <2>1. Plain(ms) \in Seq(A) /\ Len(Plain(ms)) = 2
        /\ Plain(ms)[1] = Block(ms[1].kind, ms[1].id) /\ Plain(ms)[2] = Block(ms[2].kind, ms[2].id)
    <3>1. 1 \in 1..Len(ms) /\ 2 \in 1..Len(ms)
      BY <1>3
    <3> QED BY <1>3, <3>1, PlainType
  <2>2. Plain(ms)[1] = C /\ Plain(ms)[2] = S
    BY <1>3, <2>1 DEF Message
  <2> HIDE DEF C, S, A
  <2>3. <<C, S>> \in Seq(A) /\ Len(<<C, S>>) = 2 /\ <<C, S>>[1] = C /\ <<C, S>>[2] = S
    BY <1>1
  <2> DEFINE p == Plain(ms)
             q == <<C, S>>
  <2>4. p \in Seq(A) /\ q \in Seq(A) /\ Len(p) = 2 /\ Len(q) = 2 /\ p[1] = q[1] /\ p[2] = q[2]
    BY <2>1, <2>2, <2>3
  <2> HIDE DEF p, q
  <2>5. \A i \in 1..Len(p) : p[i] = q[i]
    BY <2>4
  <2>6. p = q
    BY <2>4, <2>5, SeqEqual
  <2> QED BY <2>6 DEF p, q
<1> HIDE DEF C, S, R, A
<1>6. FlattenSeq(AnthropicMessages(ms)) = w
  <2> DEFINE m == AnthropicMessages(ms)
             rc == <<R, C>>
             s == <<S>>
             both == Append(<<rc>>, s)
  <2>1. /\ m \in Seq(Seq(A)) /\ Len(m) = 2 /\ m[1] = <<R>> \o <<C>> /\ m[2] = <<>> \o <<S>>
    <3>1. 1 \in 1..Len(ms) /\ 2 \in 1..Len(ms)
      BY <1>3
    <3>2. /\ m \in Seq(Seq(A)) /\ Len(m) = 2
          /\ m[1] = Replayed(ms[1]) \o <<Block(ms[1].kind, ms[1].id)>>
          /\ m[2] = Replayed(ms[2]) \o <<Block(ms[2].kind, ms[2].id)>>
      BY <1>3, <3>1, AnthropicMessagesType, Zenon DEF A
    <3> QED BY <1>4, <3>2, Zenon
  <2>2. rc \in Seq(A) /\ s \in Seq(A) /\ <<R>> \o <<C>> = rc /\ <<>> \o <<S>> = s /\ rc \o s = w
    <3>1. rc \in Seq(A) /\ s \in Seq(A)
      BY <1>1
    <3>2. <<R>> \o <<C>> = rc /\ <<>> \o <<S>> = s /\ rc \o s = w
      BY <1>1, ShortJoined
    <3> QED BY <3>1, <3>2
  <2> HIDE DEF rc, s, m
  <2>3. /\ both \in Seq(Seq(A)) /\ Len(both) = 2 /\ both[1] = rc /\ both[2] = s /\ <<rc>> \in Seq(Seq(A))
    BY <2>2
  <2>4. FlattenSeq(both) = FlattenSeq(<<rc>>) \o s
    BY <2>2, <2>3, FlattenAppended
  <2>5. FlattenSeq(<<rc>>) = rc
    BY <2>2, FlattenOne
  <2> HIDE DEF both
  <2>6. \A i \in 1..Len(m) : m[i] = both[i]
    <3>1. m[1] = both[1] /\ m[2] = both[2]
      BY <2>1, <2>2, <2>3
    <3>2. \A i \in 1..Len(m) : i = 1 \/ i = 2
      BY <2>1
    <3> QED BY <3>1, <3>2
  <2>7. m = both
    BY <2>1, <2>3, <2>6, SeqEqual
  <2> QED BY <2>2, <2>4, <2>5, <2>7 DEF m
<1>7. w \in Seq(A) /\ Len(w) = 3 /\ DOMAIN w = 1..3 /\ w[1] = R /\ w[2] = C /\ w[3] = S
  BY <1>1
<1>8. Picked(w, I) = <<C, S>>
  <2> DEFINE one == Append(<<>>, R)
             two == Append(one, C)
  <2>1. one \in Seq(A) /\ two \in Seq(A) /\ <<>> \in Seq(A) /\ Len(<<>>) = 0 /\ Len(one) = 1 /\ Len(two) = 2
        /\ w = Append(two, S)
    BY <1>1
  <2> HIDE DEF one, two
  <2>2. 0 + 1 \notin I /\ 1 + 1 \in I /\ 2 + 1 \in I
    OBVIOUS
  <2> HIDE DEF I, w
  <2>3. Picked(one, I) = IF Len(<<>>) + 1 \in I THEN Append(Picked(<<>>, I), R) ELSE Picked(<<>>, I)
    <3>1. <<>> \in Seq(A)
      OBVIOUS
    <3>2. Picked(Append(<<>>, R), I) = IF Len(<<>>) + 1 \in I THEN Append(Picked(<<>>, I), R) ELSE Picked(<<>>, I)
      BY <1>1, <3>1, PickedMore, Zenon
    <3> QED BY <3>2, Zenon DEF one
  <2>4. Picked(two, I) = IF Len(one) + 1 \in I THEN Append(Picked(one, I), C) ELSE Picked(one, I)
    <3>1. Picked(Append(one, C), I) = IF Len(one) + 1 \in I THEN Append(Picked(one, I), C) ELSE Picked(one, I)
      <4>1. one \in Seq(A) /\ C \in A
        BY <1>1, <2>1
      <4> QED BY <4>1, PickedMore, Zenon
    <3> QED BY <3>1, Zenon DEF two
  <2>5. Picked(w, I) = IF Len(two) + 1 \in I THEN Append(Picked(two, I), S) ELSE Picked(two, I)
    <3>1. Picked(Append(two, S), I) = IF Len(two) + 1 \in I THEN Append(Picked(two, I), S) ELSE Picked(two, I)
      <4>1. two \in Seq(A) /\ S \in A
        BY <1>1, <2>1
      <4> QED BY <4>1, PickedMore, Zenon
    <3> QED BY <2>1, <3>1, Zenon
  <2>6. Picked(w, I) = Append(Append(<<>>, C), S)
    BY <2>1, <2>2, <2>3, <2>4, <2>5, PickedEmpty
  <2>7. Append(Append(<<>>, C), S) = <<C, S>>
    BY <1>1, ShortJoined
  <2> QED BY <2>6, <2>7, Zenon
<1> HIDE DEF w
<1>9. Unreasoned(w) = I
  BY <1>2, <1>7 DEF Unreasoned
<1>10. Picked(w, Unreasoned(w)) = Plain(ms)
  BY <1>5, <1>8, <1>9
<1>11. \A i \in 1..Len(w) : w[i].kind = "reasoning" => i + 1 \in 1..Len(w) /\ w[i + 1] = Block("call", w[i].id)
  <2>1. \A i \in 1..3 : w[i].kind = "reasoning" => i = 1
    BY <1>2, <1>7
  <2> QED BY <1>2, <1>7, <2>1 DEF C
<1>12. \A i \in 1..Len(w) : w[i].kind = "result" => i - 1 \in 1..Len(w) /\ w[i - 1] = Block("call", w[i].id)
  <2>1. \A i \in 1..3 : w[i].kind = "result" => i = 3
    BY <1>2, <1>7
  <2> QED BY <1>2, <1>7, <2>1 DEF C
<1>13. Carries(w, ms)
  BY <1>7, <1>10, <1>11, <1>12 DEF Carries, A
<1> QED BY <1>6, <1>13

\* One turn of a conversation.
LEMMA TurnKeeps ==
    ASSUME NEW id \in 1..2, NEW ms \in TurnShapes(id)
    PROVE  Paired(ms) /\ Carries(FlattenSeq(AnthropicMessages(ms)), ms)
<1>1. CASE ms = <<Message("text", 0, FALSE)>>
  <2>1. Message("text", 0, FALSE) \in Messages
    BY DEF Message, Messages
  <2>2. ms \in Seq(Messages) /\ Len(ms) = 1 /\ DOMAIN ms = 1..1 /\ ms[1] = Message("text", 0, FALSE)
    BY <1>1, <2>1, OneIs, Zenon
  <2>3. \A i \in 1..1 : ms[i].kind = "text" /\ ~ms[i].reasoned
    BY <2>2 DEF Message
  <2>4. Paired(ms)
    BY <2>2, <2>3 DEF Paired
  <2> QED BY <2>2, <2>3, <2>4, UnreasonedFlattened, PlainKeeps
<1>2. ASSUME NEW reasoned \in BOOLEAN, ms = <<Message("call", id, reasoned), Message("result", id, FALSE)>>
      PROVE  Paired(ms) /\ Carries(FlattenSeq(AnthropicMessages(ms)), ms)
  <2>1. Message("call", id, reasoned) \in Messages /\ Message("result", id, FALSE) \in Messages
    BY DEF Message, Messages
  <2>2. ms \in Seq(Messages) /\ Len(ms) = 2 /\ DOMAIN ms = 1..2
        /\ ms[1] = Message("call", id, reasoned) /\ ms[2] = Message("result", id, FALSE)
    <3> DEFINE a == Message("call", id, reasoned)
               b == Message("result", id, FALSE)
    <3>1. a \in Messages /\ b \in Messages /\ ms = <<a, b>>
      BY <1>2, <2>1
    <3> HIDE DEF a, b
    <3>2. ms \in Seq(Messages) /\ Len(ms) = 2 /\ DOMAIN ms = 1..2 /\ ms[1] = a /\ ms[2] = b
      BY <3>1
    <3> QED BY <3>2 DEF a, b
  <2>3. /\ ms[1].kind = "call" /\ ms[1].id = id /\ ms[1].reasoned = reasoned
        /\ ms[2].kind = "result" /\ ms[2].id = id /\ ~ms[2].reasoned
    BY <2>2 DEF Message
  <2>4. Paired(ms)
    <3>1. ASSUME NEW i \in 1..2, ms[i].kind = "result"
          PROVE  i - 1 \in 1..2 /\ ms[i - 1].kind = "call" /\ ms[i - 1].id = ms[i].id
      <4>1. i = 2
        BY <2>3, <3>1
      <4>2. i - 1 = 1 /\ 1 \in 1..2
        BY <4>1
      <4> QED BY <2>3, <4>1, <4>2
    <3> QED BY <2>2, <3>1 DEF Paired
  <2>5. CASE reasoned
    <3>1. ms = <<Message("call", id, TRUE), Message("result", id, FALSE)>>
      BY <1>2, <2>5
    <3> QED BY <2>4, <3>1, ReasonedTurnKeeps
  <2>6. CASE ~reasoned
    <3>1. \A i \in DOMAIN ms : ~ms[i].reasoned
      <4>1. \A i \in DOMAIN ms : i = 1 \/ i = 2
        BY <2>2
      <4>2. ~ms[1].reasoned /\ ~ms[2].reasoned
        BY <2>3, <2>6
      <4> QED BY <4>1, <4>2
    <3> QED BY <2>2, <2>4, <3>1, UnreasonedFlattened, PlainKeeps
  <2> QED BY <2>4, <2>5, <2>6
<1> QED BY <1>1, <1>2 DEF TurnShapes

LEMMA ConversationKeeps ==
    ASSUME NEW ms \in Conversations
    PROVE  Paired(ms) /\ Carries(FlattenSeq(AnthropicMessages(ms)), ms)
<1>1. CASE ms \in TurnShapes(1)
  BY <1>1, TurnKeeps
<1>2. ASSUME NEW a \in TurnShapes(1), NEW b \in TurnShapes(2), ms = a \o b
      PROVE  Paired(ms) /\ Carries(FlattenSeq(AnthropicMessages(ms)), ms)
  <2>1. Paired(a) /\ Carries(FlattenSeq(AnthropicMessages(a)), a)
    BY TurnKeeps
  <2>2. Paired(b) /\ Carries(FlattenSeq(AnthropicMessages(b)), b)
    BY TurnKeeps
  <2>3. a \in Seq(Messages) /\ b \in Seq(Messages)
    BY <2>1, <2>2 DEF Paired
  <2>4. FlattenSeq(AnthropicMessages(a \o b))
           = FlattenSeq(AnthropicMessages(a)) \o FlattenSeq(AnthropicMessages(b))
    BY <2>3, AnthropicMessagesConcat
  <2>5. Carries(FlattenSeq(AnthropicMessages(a \o b)), a \o b)
    BY <2>1, <2>2, <2>3, <2>4, KeepsConcat
  <2> QED BY <1>2, <2>1, <2>2, <2>5, PairedConcat
<1> QED BY <1>1, <1>2 DEF Conversations

\* In a conversation each result finds the name of its call.
LEMMA OllamaNames ==
    ASSUME NEW ms, Paired(ms)
    PROVE  OllamaMessages(ms) = ChatMessages(ms)
<1> DEFINE named(i) == {ms[j].id : j \in {j \in 1..(i - 1) : ms[j].kind = "call" /\ ms[j].id = ms[i].id}}
           name(i) == IF ms[i].kind # "result" THEN ms[i].id
                      ELSE IF named(i) = {} THEN 0 ELSE CHOOSE n \in named(i) : TRUE
<1>1. DOMAIN ms = 1..Len(ms) /\ Len(ms) \in Nat
  BY DEF Paired
<1>2. ASSUME NEW i \in DOMAIN ms PROVE name(i) = ms[i].id
  <2>1. CASE ms[i].kind # "result"
    BY <2>1
  <2>2. CASE ms[i].kind = "result"
    <3>1. i - 1 \in 1..Len(ms) /\ ms[i - 1].kind = "call" /\ ms[i - 1].id = ms[i].id
      BY <1>1, <2>2 DEF Paired
    <3>2. i - 1 \in 1..(i - 1)
      BY <1>1, <3>1
    <3>3. ms[i].id \in named(i)
      BY <3>1, <3>2
    <3>4. \A n \in named(i) : n = ms[i].id
      OBVIOUS
    <3> HIDE DEF named
    <3>5. (CHOOSE n \in named(i) : TRUE) \in named(i)
      BY <3>3
    <3> QED BY <2>2, <3>3, <3>4, <3>5
  <2> QED BY <2>1, <2>2
<1>3. OllamaMessages(ms) = [i \in DOMAIN ms |-> <<Block(ms[i].kind, name(i))>>]
  BY Zenon DEF OllamaMessages
<1> HIDE DEF name
<1> QED BY <1>2, <1>3 DEF ChatMessages

\* Every protocol keeps the results of a conversation.
LEMMA WireKeeps ==
    ASSUME NEW family \in ProtocolFamilies, NEW ms \in Conversations
    PROVE  Carries(FlattenSeq(Wire(family, ms)), ms)
<1>1. Paired(ms) /\ Carries(FlattenSeq(AnthropicMessages(ms)), ms) /\ ms \in Seq(Messages)
  BY ConversationKeeps DEF Paired
<1>2. CASE family = "anthropic"
  BY <1>1, <1>2 DEF Wire
<1>3. CASE family = "responses"
  <2>1. FlattenSeq(AnthropicMessages(ms)) \in Seq(WireBlocks)
    BY <1>1 DEF Carries
  <2>2. FlattenSeq(CanonicalInput(ms)) = FlattenSeq(AnthropicMessages(ms))
    BY <2>1, FlattenOne DEF CanonicalInput
  <2> QED BY <1>1, <1>3, <2>2 DEF Wire
<1>4. Carries(FlattenSeq(ChatMessages(ms)), ms)
  BY <1>1, ChatFlattened, PlainKeeps
<1>5. CASE family = "chat"
  BY <1>4, <1>5 DEF Wire
<1>6. CASE family = "ollama"
  BY <1>1, <1>4, <1>6, OllamaNames DEF Wire
<1> QED BY <1>2, <1>3, <1>5, <1>6 DEF ProtocolFamilies

-----------------------------------------------------------------------------
(* ProviderStream: the exchange *)

HeardBy(family, h, r) ==
    CASE family = "anthropic" -> AnthropicHeard(h, r) [] family = "responses" -> ResponsesHeard(h, r)
      [] family = "chat" -> ChatHeard(h, r) [] family = "ollama" -> OllamaHeard(h, r)

\* The text of the Response.
ReaderText(family, r) == IF family = "anthropic" THEN TextOf(r.blocks) ELSE r.text

\* What is pending and shown is what was read, until a line is refused.
Follows(p, t) ==
    /\ p.on => t = p.shown \o p.pending
    /\ Leads(p.shown, t, TextPieces)

LEMMA HeardFirst ==
    ASSUME NEW family \in ProtocolFamilies
    PROVE  /\ HeardBy(family, <<>>, EmptyReader)
           /\ Follows(NoPreview, ReaderText(family, EmptyReader))
<1> DEFINE r == EmptyReader
<1>1. /\ r.begun = FALSE /\ r.open = 0 /\ r.blocks = <<>> /\ r.text = <<>> /\ r.ended = FALSE
      /\ r.output = <<>> /\ Len(<<>>) = 0
  BY DEF EmptyReader
<1>2. TextOf(<<>>) = <<>>
  <2>1. [i \in DOMAIN <<>> |-> IF (<<>>)[i].type = "text" THEN (<<>>)[i].body ELSE <<>>] = <<>>
    OBVIOUS
  <2> QED BY <2>1, FlattenEmpty, Zenon DEF TextOf
<1>3. Follows(NoPreview, ReaderText(family, r))
  <2>1. ReaderText(family, r) = <<>>
    BY <1>1, <1>2 DEF ReaderText
  <2>2. <<>> \o <<>> = <<>> /\ <<>> \in Seq(TextPieces)
    OBVIOUS
  <2> QED BY <2>1, <2>2 DEF Follows, NoPreview, Leads
<1> HIDE DEF r
<1>4. AnthropicHeard(<<>>, r)
  BY <1>1, <1>2, NothingSaid DEF AnthropicHeard, SaidOnce, StartsAgree, StopsAgree, BodiesAgree
<1>5. ResponsesHeard(<<>>, r)
  BY <1>1, NothingSaid DEF ResponsesHeard, SaidOnce, AddedAgree
<1>6. ChatHeard(<<>>, r)
  BY <1>1, NothingSaid DEF ChatHeard, SaidOnce
<1>7. OllamaHeard(<<>>, r)
  BY <1>1, NothingSaid DEF OllamaHeard
<1>8. HeardBy(family, <<>>, r)
  BY <1>4, <1>5, <1>6, <1>7 DEF HeardBy, ProtocolFamilies
<1> QED BY <1>3, <1>8 DEF r

LEMMA HeardStep ==
    ASSUME NEW family \in ProtocolFamilies, NEW r \in Readers(TypesOf(family)),
           NEW h \in Seq(Events(family)), NEW e \in Events(family), NEW s \in ReadingsOf(family, r, e),
           ~r.ended, HeardBy(family, h, r)
    PROVE  HeardBy(family, Append(h, e), s)
<1>1. CASE family = "anthropic"
  BY <1>1, AnthropicStep DEF Events, ReadingsOf, HeardBy
<1>2. CASE family = "responses"
  BY <1>2, ResponsesStep DEF Events, ReadingsOf, HeardBy
<1>3. CASE family = "chat"
  BY <1>3, ChatStep DEF Events, ReadingsOf, HeardBy, TypesOf
<1>4. CASE family = "ollama"
  BY <1>4, OllamaStep DEF Events, ReadingsOf, HeardBy, TypesOf
<1> QED BY <1>1, <1>2, <1>3, <1>4 DEF ProtocolFamilies

\* What an event adds to the text is what the preview is handed, but for
\* the last chunk of an Ollama stream.
TextAdds(family, r, s, delta) ==
    IF delta # "none" THEN ReaderText(family, s) = Append(ReaderText(family, r), delta)
    ELSE \/ ReaderText(family, s) = ReaderText(family, r)
         \/ s.ended /\ \E x \in TextPieces : ReaderText(family, s) = Append(ReaderText(family, r), x)

LEMMA TextStep ==
    ASSUME NEW family \in ProtocolFamilies, family # "responses", NEW r \in Readers(TypesOf(family)),
           NEW h \in Seq(Events(family)), NEW e \in Events(family), NEW s \in ReadingsOf(family, r, e),
           ~r.ended, HeardBy(family, h, r)
    PROVE  TextAdds(family, r, s, Delta(family, e))
<1>1. CASE family = "anthropic"
  <2>1. h \in Seq(AnthropicEvents) /\ e \in AnthropicEvents
    BY <1>1 DEF Events
  <2>2. AnthropicHeard(h, r) /\ AnthropicHeard(Append(h, e), s)
    BY <1>1, HeardStep DEF HeardBy
  <2>3. /\ TextOf(r.blocks) = PiecesSaid(BlockText(h))
        /\ TextOf(s.blocks) = PiecesSaid(BlockText(Append(h, e)))
    BY <2>2 DEF AnthropicHeard
  <2>4. /\ BlockText(Append(h, e)) = IF e.kind = "block_delta" /\ e.piece \in TextPieces
                                     THEN Append(BlockText(h), e) ELSE BlockText(h)
        /\ BlockText(h) \in Seq(AnthropicEvents)
    BY <2>1, BlockTextAppend
  <2>5. PiecesSaid(Append(BlockText(h), e)) = Append(PiecesSaid(BlockText(h)), e.piece)
    BY <2>1, <2>4, PiecesAppend
  <2>6. /\ ReaderText(family, r) = TextOf(r.blocks) /\ ReaderText(family, s) = TextOf(s.blocks)
        /\ Delta(family, e) = IF e.kind = "block_delta" /\ e.piece \in TextPieces THEN e.piece ELSE "none"
    BY <1>1 DEF ReaderText, Delta
  <2>7. "none" \notin TextPieces
    BY DEF TextPieces
  <2> QED BY <2>3, <2>4, <2>5, <2>6, <2>7 DEF TextAdds
<1>2. CASE family = "chat"
  <2>1. e \in ChatEvents /\ s \in ChatReads(r, e) /\ r \in Readers({"tool_use"})
    BY <1>2 DEF Events, ReadingsOf, TypesOf
  <2>2. s.text = IF e.kind = "text" THEN Append(r.text, e.piece) ELSE r.text
    <3>1. \/ e.kind = "text" /\ s = [r EXCEPT !.begun = TRUE, !.text = Append(@, e.piece)]
          \/ e.kind = "call" /\ s \in ChatCall(r, e)
          \/ e.kind = "finish" /\ s = [r EXCEPT !.begun = TRUE, !.said = e.reason]
          \/ e.kind = "usage" /\ s = r
          \/ e.kind = "done" /\ s = [r EXCEPT !.ended = TRUE]
      BY <2>1 DEF ChatReads
    <3>2. s \in ChatCall(r, e) => \E blocks : s = [r EXCEPT !.begun = TRUE, !.blocks = blocks]
      BY Zenon DEF ChatCall
    <3>3. \A blocks : [r EXCEPT !.begun = TRUE, !.blocks = blocks].text = r.text
      BY <2>1 DEF Readers
    <3>4. e.kind = "call" /\ s \in ChatCall(r, e) => s.text = r.text
      BY <3>2, <3>3
    <3> QED BY <2>1, <3>1, <3>4 DEF Readers
  <2>3. Delta(family, e) = (IF e.kind = "text" THEN e.piece ELSE "none") /\ (e.kind = "text" => e.piece \in TextPieces)
    BY <1>2, <2>1 DEF Delta, ChatEvents
  <2>4. ReaderText(family, r) = r.text /\ ReaderText(family, s) = s.text /\ "none" \notin TextPieces
    BY <1>2 DEF ReaderText, TextPieces
  <2> QED BY <2>2, <2>3, <2>4 DEF TextAdds
<1>3. CASE family = "ollama"
  <2>1. e \in OllamaEvents /\ s \in OllamaReads(r, e) /\ r \in Readers({"tool_use"})
    BY <1>3 DEF Events, ReadingsOf, TypesOf
  <2> DEFINE words == IF e.piece = "none" THEN r.text ELSE Append(r.text, e.piece)
  <2>2. s.text = words /\ s.ended = e.done
    <3>1. \E said, blocks : s = [r EXCEPT !.said = said, !.text = words, !.blocks = blocks, !.ended = e.done]
      BY <2>1, Zenon DEF OllamaReads
    <3> HIDE DEF words
    <3> QED BY <2>1, <3>1 DEF Readers
  <2>3. Delta(family, e) = IF e.done THEN "none" ELSE e.piece
    BY <1>3 DEF Delta
  <2>4. ReaderText(family, r) = r.text /\ ReaderText(family, s) = s.text
    BY <1>3 DEF ReaderText
  <2>5. e.piece \in TextPieces \cup {"none"}
    BY <2>1 DEF OllamaEvents
  <2> QED BY <2>2, <2>3, <2>4, <2>5 DEF TextAdds
<1> QED BY <1>1, <1>2, <1>3 DEF ProtocolFamilies

\* The preview goes on.
LEMMA FollowsStep ==
    ASSUME NEW p \in Previews, NEW t \in Seq(TextPieces), NEW piece \in TextPieces, NEW displayed \in BOOLEAN,
           Follows(p, t)
    PROVE  Follows(Previewed(p, piece, displayed), Append(t, piece))
<1> DEFINE q == Previewed(p, piece, displayed)
           u == Append(t, piece)
<1>1. p.shown \in Seq(TextPieces) /\ p.pending \in Seq(TextPieces) /\ p.on \in BOOLEAN
  BY DEF Previews
<1>2. Leads(p.shown, u, TextPieces)
  BY <1>1, LeadsAppend DEF Follows
<1>3. piece # "none"
  BY DEF TextPieces
<1>4. CASE ~p.on
  <2>1. q = p
    BY <1>4 DEF Previewed
  <2> HIDE DEF q, u
  <2>2. Follows(q, u)
    BY <1>2, <1>4, <2>1 DEF Follows
  <2> QED BY <2>2 DEF q, u
<1>5. CASE p.on
  <2> DEFINE a == p.shown
             b == p.pending
  <2>1. t = a \o b
    BY <1>5 DEF Follows
  <2>2. a \in Seq(TextPieces) /\ b \in Seq(TextPieces) /\ <<piece>> \in Seq(TextPieces) /\ <<>> \in Seq(TextPieces)
        /\ a \o b \in Seq(TextPieces)
    BY <1>1
  <2>3. u = a \o Append(b, piece) /\ u = (a \o b) \o <<piece>> /\ u \in Seq(TextPieces)
    <3> HIDE DEF a, b
    <3>1. Append(a \o b, piece) = (a \o b) \o <<piece>> /\ Append(b, piece) = b \o <<piece>>
      BY <2>2, AppendIsConcat
    <3>2. (a \o b) \o <<piece>> = a \o (b \o <<piece>>)
      BY <2>2, ConcatAssociative
    <3> QED BY <2>1, <2>2, <3>1, <3>2
  <2> HIDE DEF u
  <2>4. CASE piece = "word"
    <3>1. q = [p EXCEPT !.pending = Append(@, piece)]
      BY <1>3, <1>5, <2>4 DEF Previewed
    <3>2. q.shown = a /\ q.pending = Append(b, piece)
      BY <3>1 DEF Previews
    <3> HIDE DEF q, a, b
    <3>3. Follows(q, u)
      BY <1>2, <2>3, <3>2 DEF Follows, a
    <3> QED BY <3>3 DEF q, u
  <2>5. CASE piece # "word" /\ displayed
    <3>1. q = [p EXCEPT !.pending = <<>>, !.shown = @ \o p.pending \o <<piece>>]
      BY <1>3, <1>5, <2>5 DEF Previewed
    <3>2. q.shown = (a \o b) \o <<piece>> /\ q.pending = <<>>
      BY <3>1 DEF Previews
    <3> HIDE DEF q, a, b
    <3>3. u \o <<>> = u /\ Leads(u, u, TextPieces)
      BY <2>3, ConcatEmptySeq, LeadsSelf
    <3>4. Follows(q, u)
      BY <2>3, <3>2, <3>3 DEF Follows
    <3> QED BY <3>4 DEF q, u
  <2>6. CASE piece # "word" /\ ~displayed
    <3>1. q = [p EXCEPT !.pending = <<>>, !.on = FALSE]
      BY <1>3, <1>5, <2>6 DEF Previewed
    <3>2. q.shown = p.shown /\ q.on = FALSE
      BY <3>1 DEF Previews
    <3> HIDE DEF q
    <3>3. Follows(q, u)
      BY <1>2, <3>2 DEF Follows
    <3> QED BY <3>3 DEF q, u
  <2> QED BY <2>4, <2>5, <2>6
<1> QED BY <1>1, <1>4, <1>5

ReaderTextType == \A family \in ProtocolFamilies : \A r \in Readers(TypesOf(family)) :
                     ReaderText(family, r) \in Seq(TextPieces)
LEMMA ReaderTextTyped == ReaderTextType
<1> SUFFICES ASSUME NEW family \in ProtocolFamilies, NEW r \in Readers(TypesOf(family))
             PROVE  ReaderText(family, r) \in Seq(TextPieces)
  BY DEF ReaderTextType
<1>1. r.text \in Seq(TextPieces) /\ r.blocks \in Seq(Blocks(TypesOf(family)))
  BY ReaderType
<1>2. TextOf(r.blocks) \in Seq(TextPieces)
  BY <1>1, TextOfType
<1> QED BY <1>1, <1>2 DEF ReaderText

\* While a stream is read, and when it has been answered.
StreamRead(family, h, r, p) ==
    ~r.ended /\ HeardBy(family, h, r) /\ (family # "responses" => Follows(p, ReaderText(family, r)))
StreamAnswered(family, h, r, p, a) ==
    /\ r.ended /\ HeardBy(family, h, r) /\ a = Decoded(family, r)
    /\ family # "responses" => Leads(p.shown, ReaderText(family, r), TextPieces)

\* A call that may be made again has shown nothing, and what was put
\* together belongs to the attempt that is read.
ExchangeInv ==
    /\ ProviderTyped
    /\ ~exchange.shownBefore
    /\ ~exchange.committed => preview = NoPreview
    /\ exchange.phase \in {"prepare", "open", "body", "failed"} => heard = <<>> /\ reader = EmptyReader
    /\ exchange.phase \in {"prepare", "open", "body"} => ~exchange.committed
    /\ exchange.phase = "body" => ~exchange.stream
    /\ exchange.phase = "reading" => exchange.stream /\ StreamRead(exchange.family, heard, reader, preview)
    /\ exchange.phase = "answered" /\ exchange.stream =>
           StreamAnswered(exchange.family, heard, reader, preview, answer)
    /\ request = NothingAsked
       \/ \E ms \in Conversations : request = [asked |-> ms, wire |-> Wire(exchange.family, ms)]

LEMMA ExchangeInvInit == ProviderInit => ExchangeInv
<1> SUFFICES ASSUME ProviderInit PROVE ExchangeInv
  OBVIOUS
<1>1. ProviderTyped
  BY ProviderTypedInit
<1>2. /\ exchange.phase = "prepare" /\ exchange.committed = FALSE /\ exchange.shownBefore = FALSE
      /\ request = NothingAsked /\ reader = EmptyReader /\ heard = <<>> /\ preview = NoPreview
  BY DEF ProviderInit
<1> QED BY <1>1, <1>2 DEF ExchangeInv

\* A failure forgets what was read, and is only tried again if nothing was.
LEMMA FailExchangeInv ==
    ASSUME ExchangeInv, ProviderTyped', NEW retryable \in BOOLEAN, NEW committed \in BOOLEAN,
           FailExchange(retryable, committed), ~committed => ~exchange.committed
    PROVE  ExchangeInv'
<1>1. /\ exchange' = [exchange EXCEPT !.phase = "failed", !.committed = committed,
                                      !.retryable = retryable /\ ~committed]
      /\ request' = NothingAsked /\ reader' = EmptyReader /\ heard' = <<>> /\ preview' = preview /\ answer' = answer
  BY DEF FailExchange
<1>2. /\ exchange'.phase = "failed" /\ exchange'.committed = committed
      /\ exchange'.shownBefore = exchange.shownBefore
  BY <1>1 DEF ExchangeInv, ProviderTyped, Exchanges
<1>3. ~exchange'.committed => preview' = NoPreview
  BY <1>1, <1>2 DEF ExchangeInv
<1> QED BY <1>1, <1>2, <1>3 DEF ExchangeInv

LEMMA ReadEventInv ==
    ASSUME ExchangeInv, ProviderTyped', ReadEvent
    PROVE  ExchangeInv'
<1> DEFINE family == exchange.family
<1>1. PICK e \in Events(family), displayed \in BOOLEAN :
         LET reads == ReadingsOf(family, reader, e) IN
         IF reads = {} THEN FailExchange(FALSE, CommittedBy(reads))
         ELSE /\ e.kind # "ping" /\ UNCHANGED request
              /\ \E r \in reads :
                   /\ preview' = Previewed(preview, Delta(family, e), displayed)
                   /\ IF r.ended /\ ~Decodes(family, r)
                      THEN /\ exchange' = [exchange EXCEPT !.phase = "failed", !.committed = TRUE]
                           /\ reader' = EmptyReader /\ heard' = <<>> /\ UNCHANGED answer
                      ELSE /\ exchange' = [exchange EXCEPT !.phase = IF r.ended THEN "answered" ELSE @,
                                                           !.committed = TRUE]
                           /\ reader' = r /\ heard' = Append(heard, e)
                           /\ answer' = IF r.ended THEN Decoded(family, r) ELSE answer
  BY Zenon DEF ReadEvent
<1> DEFINE reads == ReadingsOf(family, reader, e)
<1>2. /\ family \in ProtocolFamilies /\ exchange \in Exchanges /\ exchange.phase = "reading"
      /\ reader \in Readers(TypesOf(family)) /\ heard \in Seq(Events(family)) /\ preview \in Previews
      /\ exchange.stream /\ StreamRead(family, heard, reader, preview) /\ ~exchange.shownBefore
  BY ProviderAssumption DEF ExchangeInv, ProviderTyped, Exchanges, ReadEvent
<1>3. CASE reads = {}
  <2>1. FailExchange(FALSE, CommittedBy(reads))
    BY <1>1, <1>3
  <2>2. CommittedBy(reads) \in BOOLEAN /\ (~CommittedBy(reads) => ~exchange.committed)
    BY <1>2 DEF CommittedBy, Exchanges
  <2> HIDE DEF reads
  <2> QED BY <2>1, <2>2, FailExchangeInv
<1>4. CASE reads # {}
  <2>1. PICK r \in reads :
            /\ preview' = Previewed(preview, Delta(family, e), displayed)
            /\ IF r.ended /\ ~Decodes(family, r)
               THEN /\ exchange' = [exchange EXCEPT !.phase = "failed", !.committed = TRUE]
                    /\ reader' = EmptyReader /\ heard' = <<>> /\ UNCHANGED answer
               ELSE /\ exchange' = [exchange EXCEPT !.phase = IF r.ended THEN "answered" ELSE @,
                                                    !.committed = TRUE]
                    /\ reader' = r /\ heard' = Append(heard, e)
                    /\ answer' = IF r.ended THEN Decoded(family, r) ELSE answer
    BY <1>1, <1>4
  <2>2. request' = request
    BY <1>1, <1>4
  <2>3. \/ request' = NothingAsked
        \/ \E ms \in Conversations : request' = [asked |-> ms, wire |-> Wire(family, ms)]
    BY <2>2 DEF ExchangeInv
  <2>4. r \in Readers(TypesOf(family))
    BY <1>2, ReadType
  <2>5. ~reader.ended /\ HeardBy(family, heard, reader)
    BY <1>2 DEF StreamRead
  <2>6. HeardBy(family, Append(heard, e), r)
    BY <1>2, <2>5, HeardStep
  <2>7. family # "responses" =>
           /\ Leads(preview'.shown, ReaderText(family, r), TextPieces)
           /\ ~r.ended => Follows(preview', ReaderText(family, r))
    <3> SUFFICES ASSUME family # "responses"
                 PROVE  /\ Leads(preview'.shown, ReaderText(family, r), TextPieces)
                        /\ ~r.ended => Follows(preview', ReaderText(family, r))
      OBVIOUS
    <3> DEFINE delta == Delta(family, e)
               t == ReaderText(family, reader)
               u == ReaderText(family, r)
    <3>1. TextAdds(family, reader, r, delta)
      BY <1>2, <2>5, TextStep
    <3>2. t \in Seq(TextPieces) /\ Follows(preview, t) /\ delta \in TextPieces \cup {"none"}
      BY <1>2, ReaderTextTyped, DeltaType DEF ReaderTextType, StreamRead
    <3>3. preview' = Previewed(preview, delta, displayed)
      BY <2>1
    <3>4. preview.shown \in Seq(TextPieces)
      BY <1>2 DEF Previews
    <3>5. IF delta # "none" THEN u = Append(t, delta)
          ELSE u = t \/ (r.ended /\ \E x \in TextPieces : u = Append(t, x))
      BY <3>1 DEF TextAdds
    <3> HIDE DEF delta, t, u, reads, family
    <3>6. CASE delta # "none"
      <4>1. Follows(preview', u)
        BY <1>2, <3>2, <3>3, <3>5, <3>6, FollowsStep
      <4> QED BY <4>1 DEF Follows, u
    <3>7. CASE delta = "none"
      <4>1. preview' = preview
        BY <3>3, <3>7 DEF Previewed
      <4>2. CASE u = t
        <5>1. Follows(preview', u)
          BY <3>2, <4>1, <4>2
        <5> QED BY <5>1 DEF Follows, u
      <4>3. ASSUME r.ended, NEW x \in TextPieces, u = Append(t, x)
            PROVE  Leads(preview'.shown, u, TextPieces)
        <5>1. Leads(preview.shown, t, TextPieces)
          BY <3>2 DEF Follows
        <5> QED BY <3>2, <3>4, <4>1, <4>3, <5>1, LeadsAppend
      <4> QED BY <3>5, <3>7, <4>2, <4>3 DEF u
    <3> QED BY <3>6, <3>7
  <2> HIDE DEF reads
  <2>8. CASE r.ended /\ ~Decodes(family, r)
    <3>1. /\ exchange' = [exchange EXCEPT !.phase = "failed", !.committed = TRUE]
          /\ reader' = EmptyReader /\ heard' = <<>>
      BY <2>1, <2>8
    <3>2. /\ exchange'.phase = "failed" /\ exchange'.committed = TRUE /\ exchange'.family = family
          /\ exchange'.shownBefore = exchange.shownBefore
      BY <1>2, <3>1 DEF Exchanges
    <3> QED BY <1>2, <2>3, <3>1, <3>2 DEF ExchangeInv
  <2>9. CASE ~(r.ended /\ ~Decodes(family, r))
    <3>1. /\ exchange' = [exchange EXCEPT !.phase = IF r.ended THEN "answered" ELSE @, !.committed = TRUE]
          /\ reader' = r /\ heard' = Append(heard, e) /\ answer' = IF r.ended THEN Decoded(family, r) ELSE answer
      BY <2>1, <2>9
    <3>2. /\ exchange'.phase = (IF r.ended THEN "answered" ELSE "reading") /\ exchange'.committed = TRUE
          /\ exchange'.family = family /\ exchange'.shownBefore = exchange.shownBefore
          /\ exchange'.stream = exchange.stream
      BY <1>2, <3>1 DEF Exchanges
    <3> HIDE DEF family
    <3>3. CASE r.ended
      <4>1. StreamAnswered(exchange'.family, heard', reader', preview', answer')
        BY <2>6, <2>7, <3>1, <3>2, <3>3 DEF StreamAnswered
      <4> QED BY <1>2, <2>3, <3>2, <3>3, <4>1 DEF ExchangeInv
    <3>4. CASE ~r.ended
      <4>1. StreamRead(exchange'.family, heard', reader', preview')
        BY <2>6, <2>7, <3>1, <3>2, <3>4 DEF StreamRead
      <4> QED BY <1>2, <2>3, <3>2, <3>4, <4>1 DEF ExchangeInv
    <3> QED BY <3>3, <3>4
  <2> QED BY <2>8, <2>9
<1> QED BY <1>3, <1>4

LEMMA ExchangeInvNext == ExchangeInv /\ [ProviderNext]_providerVars => ExchangeInv'
<1> SUFFICES ASSUME ExchangeInv, [ProviderNext]_providerVars PROVE ExchangeInv'
  OBVIOUS
<1>0. exchange.committed \in BOOLEAN /\ exchange \in Exchanges /\ ProviderTyped'
  <2>1. ProviderTyped
    BY DEF ExchangeInv
  <2> QED BY <2>1, ProviderTypedNext DEF ProviderTyped, Exchanges
<1>1. CASE PrepareExchange
  <2>0. ~exchange.committed /\ exchange.phase = "prepare"
    BY <1>1 DEF ExchangeInv, PrepareExchange
  <2>1. CASE FailExchange(FALSE, FALSE)
    BY <1>0, <2>0, <2>1, FailExchangeInv
  <2>2. CASE ~FailExchange(FALSE, FALSE)
    <3>1. /\ \E ms \in Conversations : request' = [asked |-> ms, wire |-> Wire(exchange.family, ms)]
          /\ exchange' = [exchange EXCEPT !.phase = "open"]
          /\ reader' = reader /\ heard' = heard /\ preview' = preview
      BY <1>1, <2>2 DEF PrepareExchange
    <3>2. /\ exchange'.phase = "open" /\ exchange'.committed = exchange.committed
          /\ exchange'.family = exchange.family /\ exchange'.shownBefore = exchange.shownBefore
      BY <1>0, <3>1 DEF Exchanges
    <3> QED BY <1>0, <2>0, <3>1, <3>2 DEF ExchangeInv
  <2> QED BY <2>1, <2>2
<1>2. CASE OpenRequest
  <2>0. ~exchange.committed /\ exchange.phase = "open" /\ heard = <<>> /\ reader = EmptyReader
        /\ preview = NoPreview
    BY <1>2 DEF ExchangeInv, OpenRequest
  <2>1. ASSUME NEW code, FailExchange(StatusRetryable(code), FALSE) PROVE ExchangeInv'
    <3>1. StatusRetryable(code) \in BOOLEAN
      BY DEF StatusRetryable
    <3> QED BY <1>0, <2>0, <2>1, <3>1, FailExchangeInv
  <2>2. CASE FailExchange(TRUE, FALSE)
    BY <1>0, <2>0, <2>2, FailExchangeInv
  <2>3. CASE /\ exchange' = [exchange EXCEPT !.phase = IF exchange.stream THEN "reading" ELSE "body"]
             /\ request' = NothingAsked
             /\ UNCHANGED <<reader, heard, preview, answer>>
    <3>1. /\ exchange'.phase = (IF exchange.stream THEN "reading" ELSE "body")
          /\ exchange'.committed = exchange.committed /\ exchange'.stream = exchange.stream
          /\ exchange'.family = exchange.family /\ exchange'.shownBefore = exchange.shownBefore
      BY <1>0, <2>3 DEF Exchanges
    <3>2. exchange.family \in ProtocolFamilies
      BY <1>0, ProviderAssumption DEF Exchanges
    <3>3. StreamRead(exchange.family, <<>>, EmptyReader, NoPreview)
      <4>1. ~EmptyReader.ended
        BY DEF EmptyReader
      <4> QED BY <3>2, <4>1, HeardFirst DEF StreamRead
    <3>4. exchange'.phase = "reading" => exchange'.stream /\ StreamRead(exchange'.family, heard', reader', preview')
      BY <2>0, <2>3, <3>1, <3>3
    <3> QED BY <1>0, <2>0, <2>3, <3>1, <3>4 DEF ExchangeInv
  <2> QED BY <1>2, <2>1, <2>2, <2>3 DEF OpenRequest
<1>3. CASE ReadBody
  <2>0. ~exchange.committed /\ exchange.phase = "body" /\ ~exchange.stream
    BY <1>3 DEF ExchangeInv, ReadBody
  <2>1. ASSUME NEW retryable \in BOOLEAN, FailExchange(retryable, FALSE) PROVE ExchangeInv'
    BY <1>0, <2>0, <2>1, FailExchangeInv
  <2>2. CASE /\ exchange' = [exchange EXCEPT !.phase = "answered"]
             /\ UNCHANGED <<request, reader, heard, preview>>
    <3>1. /\ exchange'.phase = "answered" /\ exchange'.committed = exchange.committed
          /\ exchange'.stream = exchange.stream
          /\ exchange'.family = exchange.family /\ exchange'.shownBefore = exchange.shownBefore
      BY <1>0, <2>2 DEF Exchanges
    <3> QED BY <1>0, <2>0, <2>2, <3>1 DEF ExchangeInv
  <2> QED BY <1>3, <2>1, <2>2 DEF ReadBody
<1>4. CASE ReadEvent
  BY <1>0, <1>4, ReadEventInv
<1>5. CASE EndOfStream
  BY <1>0, <1>5, FailExchangeInv DEF EndOfStream
<1>6. CASE BadEvent
  BY <1>0, <1>6, FailExchangeInv DEF BadEvent
<1>7. CASE ConnectionLost
  BY <1>0, <1>7, FailExchangeInv DEF ConnectionLost
<1>8. CASE Retry
  <2>0. /\ ~exchange.committed /\ exchange.phase = "failed" /\ preview = NoPreview
        /\ heard = <<>> /\ reader = EmptyReader /\ ~exchange.shownBefore
    BY <1>8 DEF ExchangeInv, Retry
  <2>1. /\ exchange' = [exchange EXCEPT !.attempt = @ + 1, !.phase = "prepare", !.retryable = FALSE,
                                        !.shownBefore = @ \/ preview.shown # <<>>]
        /\ preview' = NoPreview /\ request' = request /\ reader' = reader /\ heard' = heard
    BY <1>8 DEF Retry
  <2>2. /\ exchange'.phase = "prepare" /\ exchange'.committed = exchange.committed
        /\ exchange'.family = exchange.family
        /\ exchange'.shownBefore = (exchange.shownBefore \/ preview.shown # <<>>)
    BY <1>0, <2>1 DEF Exchanges
  <2>3. preview.shown = <<>>
    BY <2>0 DEF NoPreview
  <2>4. \/ request' = NothingAsked
        \/ \E ms \in Conversations : request' = [asked |-> ms, wire |-> Wire(exchange'.family, ms)]
    BY <2>1, <2>2 DEF ExchangeInv
  <2> QED BY <1>0, <2>0, <2>1, <2>2, <2>3, <2>4 DEF ExchangeInv
<1>9. CASE UNCHANGED providerVars
  BY <1>9 DEF providerVars, ExchangeInv, ProviderTyped
<1> QED BY <1>1, <1>2, <1>3, <1>4, <1>5, <1>6, <1>7, <1>8, <1>9 DEF ProviderNext

\* The answer is whole.
LEMMA ExchangeWhole == ExchangeInv => AnswerIsWhole
<1> SUFFICES ASSUME ExchangeInv, exchange.phase = "answered", exchange.stream
             PROVE  /\ CASE exchange.family = "anthropic" -> AnthropicWhole
                         [] exchange.family = "responses" -> ResponsesWhole
                         [] exchange.family = "chat" -> ChatWhole
                         [] exchange.family = "ollama" -> OllamaWhole
                    /\ exchange.family # "responses" => IsPrefix(preview.shown, answer.text)
  BY DEF ExchangeInv, AnswerIsWhole
<1> DEFINE family == exchange.family
<1>1. /\ family \in ProtocolFamilies /\ reader \in Readers(TypesOf(family))
      /\ heard \in Seq(Events(family)) /\ preview \in Previews /\ answer.text \in Seq(TextPieces)
      /\ reader.ended /\ HeardBy(family, heard, reader) /\ answer = Decoded(family, reader)
      /\ family # "responses" => Leads(preview.shown, ReaderText(family, reader), TextPieces)
  BY ProviderAssumption DEF ExchangeInv, ProviderTyped, Exchanges, StreamAnswered
<1>2. family # "responses" => IsPrefix(preview.shown, answer.text)
  <2> SUFFICES ASSUME family # "responses" PROVE IsPrefix(preview.shown, answer.text)
    OBVIOUS
  <2>1. answer.text = ReaderText(family, reader)
    BY <1>1 DEF Decoded, ReaderText, ProtocolFamilies
  <2>2. preview.shown \in Seq(TextPieces)
    BY <1>1 DEF Previews
  <2> QED BY <1>1, <2>1, <2>2, LeadsPrefix
<1>3. CASE family = "anthropic"
  <2>1. AnthropicWhole
    BY <1>1, <1>3, AnthropicIsWhole DEF Events, HeardBy
  <2> QED BY <1>2, <1>3, <2>1
<1>4. CASE family = "responses"
  <2>1. ResponsesWhole
    BY <1>1, <1>4, ResponsesIsWhole DEF Events, HeardBy
  <2> QED BY <1>2, <1>4, <2>1
<1>5. CASE family = "chat"
  <2>1. ChatWhole
    BY <1>1, <1>5, ChatIsWhole DEF Events, HeardBy, TypesOf
  <2> QED BY <1>2, <1>5, <2>1
<1>6. CASE family = "ollama"
  <2>1. OllamaWhole
    BY <1>1, <1>6, OllamaIsWhole DEF HeardBy, TypesOf
  <2> QED BY <1>2, <1>6, <2>1
<1> QED BY <1>1, <1>3, <1>4, <1>5, <1>6 DEF ProtocolFamilies

\* Results follow their calls.
LEMMA ExchangeKeepsResults == ExchangeInv => CallsKeepTheirResults
<1> SUFFICES ASSUME ExchangeInv PROVE CallsKeepTheirResults
  OBVIOUS
<1> DEFINE w == FlattenSeq(request.wire)
<1>1. CASE request = NothingAsked
  <2>1. request.asked = <<>> /\ request.wire = <<>>
    BY <1>1 DEF NothingAsked
  <2>2. w = <<>>
    BY <2>1, FlattenEmpty
  <2>3. Picked(w, Unreasoned(w)) = <<>>
    BY <2>2, PickedEmpty
  <2>4. Plain(request.asked) = <<>>
    BY <2>1 DEF Plain
  <2>5. DOMAIN w = {}
    BY <2>2
  <2> HIDE DEF w
  <2> QED BY <2>3, <2>4, <2>5 DEF CallsKeepTheirResults, w, Unreasoned, Plain
<1>2. ASSUME NEW ms \in Conversations, request = [asked |-> ms, wire |-> Wire(exchange.family, ms)]
      PROVE  CallsKeepTheirResults
  <2>1. request.asked = ms /\ request.wire = Wire(exchange.family, ms)
    BY <1>2
  <2>2. exchange.family \in ProtocolFamilies
    BY ProviderAssumption DEF ExchangeInv, ProviderTyped, Exchanges
  <2>3. Carries(w, ms)
    BY <2>1, <2>2, WireKeeps
  <2>4. DOMAIN w = 1..Len(w)
    BY <2>3 DEF Carries
  <2>5. /\ \A i \in DOMAIN w : w[i].kind = "reasoning" => w[i + 1] = Block("call", w[i].id)
        /\ \A i \in DOMAIN w : w[i].kind = "result" => w[i - 1] = Block("call", w[i].id)
        /\ Picked(w, Unreasoned(w)) = Plain(request.asked)
    BY <2>1, <2>3, <2>4 DEF Carries
  <2> HIDE DEF w
  <2> QED BY <2>5, Zenon DEF CallsKeepTheirResults, w, Unreasoned, Plain
<1> QED BY <1>1, <1>2 DEF ExchangeInv

=============================================================================
