--------------------------- MODULE ProviderStream ---------------------------
(***************************************************************************)
(* One model call of the agent loop: pony/providers opens the request,     *)
(* reads the answer whole or as a stream of events in one of the four wire *)
(* protocols, and shows complete lines on the way; the loop repeats a call *)
(* that failed.  The backend may send any event, and the connection may    *)
(* end anywhere.  Text is a sequence of pieces, a "line" piece ends a      *)
(* line; the arguments of a tool call are two fragments that parse only    *)
(* together.                                                               *)
(***************************************************************************)
EXTENDS Naturals, SequencesExt

CONSTANTS Families,     \* the wire protocols
          MaxEvents,    \* bound: events of one stream
          MaxRetries    \* the length of _MODEL_RETRY_DELAYS

ProtocolFamilies == {"anthropic", "responses", "chat", "ollama"}
ASSUME ProviderAssumption == Families \subseteq ProtocolFamilies /\ MaxEvents \in Nat /\ MaxRetries \in Nat

VARIABLES exchange,   \* the call and its attempts
          request,    \* the conversation asked with, and its form on the wire
          reader,     \* what the reader of the stream has put together
          heard,      \* the events of this attempt
          preview,    \* what the user is shown of this attempt
          answer      \* the Response, once there is one

providerVars == <<exchange, request, reader, heard, preview, answer>>

TextPieces == {"word", "line"}
Pieces == TextPieces \cup {"open", "close", "signature"}
Nothing == [text |-> <<>>, calls |-> <<>>]

\* begun: message_start or a choice was seen; open: the block being filled;
\* said: what may be said only once (stop reason, finish reason or model).
EmptyReader == [begun |-> FALSE, open |-> 0, blocks |-> <<>>, text |-> <<>>, said |-> "none",
                ended |-> FALSE, output |-> <<>>]
NothingAsked == [asked |-> <<>>, wire |-> <<>>]
NoPreview == [pending |-> <<>>, shown |-> <<>>, on |-> TRUE]

ProviderInit ==
    /\ exchange \in [family : Families, stream : BOOLEAN, attempt : {1}, phase : {"prepare"},
                     committed : {FALSE}, retryable : {FALSE}, shownBefore : {FALSE}]
    /\ request = NothingAsked
    /\ reader = EmptyReader /\ heard = <<>> /\ preview = NoPreview /\ answer = Nothing

-----------------------------------------------------------------------------
(* The events of each protocol, and what its reader makes of one: the set  *)
(* is empty where the reader raises.                                       *)

AnthropicEvents ==
    [kind : {"message_start", "ping", "message_stop", "unknown"}]
    \cup [kind : {"message_delta"}, reason : {"end_turn", "pause_turn"}]
    \cup [kind : {"block_start"}, index : 1..2, type : {"text", "tool_use", "thinking"}]
    \cup [kind : {"block_delta"}, index : 1..2, piece : Pieces]
    \cup [kind : {"block_stop"}, index : 1..2]

PiecesOf(type) ==
    CASE type = "text" -> TextPieces [] type = "tool_use" -> {"open", "close"} [] OTHER -> {"signature"}

\* json.loads of the fragments of a tool call's arguments.
Parses(body) == body = <<"open", "close">>

AnthropicReads(r, e) ==
    CASE e.kind = "message_start" /\ ~r.begun -> {[r EXCEPT !.begun = TRUE]}
      [] e.kind = "ping" -> {r}
      [] e.kind = "message_delta" /\ r.begun -> {[r EXCEPT !.said = e.reason]}
      [] e.kind = "block_start" /\ r.begun /\ r.open = 0 /\ e.index = Len(r.blocks) + 1 ->
            {[r EXCEPT !.open = e.index, !.blocks = Append(@, [type |-> e.type, id |-> e.index, body |-> <<>>])]}
      [] e.kind = "block_delta" /\ e.index = r.open /\ e.piece \in PiecesOf(r.blocks[e.index].type) ->
            {[r EXCEPT !.blocks[e.index].body = Append(@, e.piece)]}
      [] e.kind = "block_stop" /\ e.index = r.open
         /\ LET b == r.blocks[e.index] IN b.type = "tool_use" /\ b.body # <<>> => Parses(b.body) ->
            {[r EXCEPT !.open = 0]}
      [] e.kind = "message_stop" /\ r.begun /\ r.open = 0 -> {[r EXCEPT !.ended = TRUE]}
      [] OTHER -> {}

ResponsesItems == [type : {"message", "function_call", "reasoning"}, id : 1..2]
ResponsesEvents ==
    [kind : {"added", "done"}, index : 1..2, item : ResponsesItems, later : BOOLEAN]
    \cup [kind : {"delta"}, index : 1..2, piece : TextPieces, later : BOOLEAN]
    \cup [kind : {"completed"}, later : BOOLEAN, output : UNION {[1..n -> ResponsesItems] : n \in 0..2}]

\* The elements of s at the positions in I.
Picked(s, I) == FlattenSeq([i \in DOMAIN s |-> IF i \in I THEN <<s[i]>> ELSE <<>>])

\* _completed_item_matches, _validate_completed_items: every item that was
\* announced is in the final object, in its place; a final object without
\* reasoning may leave out the reasoning items that were completed.
CompletedItems(r, output) ==
    LET Reasoning(b) == b.type = "reasoning"
        omitted == \A i \in DOMAIN output : ~Reasoning(output[i])
        expected == IF omitted THEN Picked(r.blocks, {i \in DOMAIN r.blocks : ~Reasoning(r.blocks[i])}) ELSE r.blocks
    IN /\ omitted => \A i \in DOMAIN r.blocks : Reasoning(r.blocks[i]) => r.blocks[i].body # <<>>
       /\ Len(expected) <= Len(output)
       /\ \A i \in DOMAIN expected : output[i].type = expected[i].type /\ output[i].id = expected[i].id

\* _validate_responses_sequence refuses an event that is not later than the
\* last; an item's body records that it was completed.
ResponsesReads(r, e) ==
    IF ~e.later THEN {}
    ELSE CASE e.kind = "added" /\ e.index = Len(r.blocks) + 1 ->
                {[r EXCEPT !.blocks = Append(@, [type |-> e.item.type, id |-> e.item.id, body |-> <<>>])]}
           [] e.kind = "done" /\ e.index \in DOMAIN r.blocks
              /\ r.blocks[e.index] = [type |-> e.item.type, id |-> e.item.id, body |-> <<>>] ->
                {[r EXCEPT !.blocks[e.index].body = <<"done">>]}
           [] e.kind = "delta" /\ e.index \in DOMAIN r.blocks /\ r.blocks[e.index].type = "message" -> {r}
           [] e.kind = "completed" /\ CompletedItems(r, e.output) ->
                {[r EXCEPT !.ended = TRUE, !.output = e.output]}
           [] OTHER -> {}

ChatEvents ==
    [kind : {"text"}, piece : TextPieces]
    \cup [kind : {"call"}, index : {1}, id : 0..2, piece : {"open", "close"}]
    \cup [kind : {"call"}, index : {2}, id : {0, 2}, piece : {"open", "close"}]
    \cup [kind : {"finish"}, reason : {"stop", "tool_calls"}]
    \cup [kind : {"usage", "empty", "done"}]

\* _chat_stream_tool_calls: calls are numbered in order, and one that has an
\* id keeps it; id 0 is a fragment without one.
ChatCall(r, e) ==
    LET calls == IF e.index = Len(r.blocks) + 1
                 THEN Append(r.blocks, [type |-> "tool_use", id |-> 0, body |-> <<>>]) ELSE r.blocks
    IN IF e.index \notin DOMAIN calls \/ (e.id # 0 /\ calls[e.index].id \notin {0, e.id}) THEN {}
       ELSE {[r EXCEPT !.begun = TRUE,
                       !.blocks = [calls EXCEPT ![e.index].id = IF e.id = 0 THEN @ ELSE e.id,
                                                ![e.index].body = Append(@, e.piece)]]}

ChatReads(r, e) ==
    CASE e.kind = "text" -> {[r EXCEPT !.begun = TRUE, !.text = Append(@, e.piece)]}
      [] e.kind = "call" -> ChatCall(r, e)
      [] e.kind = "finish" /\ r.said \in {"none", e.reason} -> {[r EXCEPT !.begun = TRUE, !.said = e.reason]}
      [] e.kind = "usage" -> {r}
      [] e.kind = "done" /\ r.begun -> {[r EXCEPT !.ended = TRUE]}
      [] OTHER -> {}

OllamaEvents == 
    [kind : {"chunk"}, piece : TextPieces \cup {"none"}, calls : {0}, done : BOOLEAN, model : {"m1", "m2"}]
    \cup [kind : {"chunk"}, piece : {"none"}, calls : {1}, done : BOOLEAN, model : {"none"}]

OllamaReads(r, e) ==
    IF "none" \notin {e.model, r.said} /\ e.model # r.said THEN {}
    ELSE {[r EXCEPT !.said = IF e.model = "none" THEN @ ELSE e.model,
                    !.text = IF e.piece = "none" THEN @ ELSE Append(@, e.piece),
                    !.blocks = IF e.calls = 0 THEN @
                               ELSE Append(@, [type |-> "tool_use", id |-> 0, body |-> <<"open", "close">>]),
                    !.ended = e.done]}

Events(family) ==
    CASE family = "anthropic" -> AnthropicEvents [] family = "responses" -> ResponsesEvents
      [] family = "chat" -> ChatEvents [] family = "ollama" -> OllamaEvents
ReadingsOf(family, r, e) ==
    CASE family = "anthropic" -> AnthropicReads(r, e) [] family = "responses" -> ResponsesReads(r, e)
      [] family = "chat" -> ChatReads(r, e) [] family = "ollama" -> OllamaReads(r, e)

\* What the reader hands to on_text_delta: the last chunk of an Ollama
\* stream is not shown.
Delta(family, e) ==
    CASE family = "anthropic" -> IF e.kind = "block_delta" /\ e.piece \in TextPieces THEN e.piece ELSE "none"
      [] family = "responses" -> IF e.kind = "delta" THEN e.piece ELSE "none"
      [] family = "chat" -> IF e.kind = "text" THEN e.piece ELSE "none"
      [] family = "ollama" -> IF e.done THEN "none" ELSE e.piece

-----------------------------------------------------------------------------
(* Decoding what was read into a Response. *)

Call(b) == [id |-> b.id, body |-> b.body]
Actions(blocks) == Picked(blocks, {i \in DOMAIN blocks : blocks[i].type \notin {"thinking", "reasoning"}})
CallsOf(blocks) ==
    LET calls == Picked(blocks, {i \in DOMAIN blocks : blocks[i].type \in {"tool_use", "function_call"}})
    IN [i \in DOMAIN calls |-> Call(calls[i])]
TextOf(blocks) == FlattenSeq([i \in DOMAIN blocks |-> IF blocks[i].type = "text" THEN blocks[i].body ELSE <<>>])

\* _anthropic_content: thinking comes first and is signed.
AnthropicDecodes(r) ==
    /\ r.said = "end_turn"
    /\ \A i \in DOMAIN r.blocks : r.blocks[i].type = "thinking" =>
           r.blocks[i].body # <<>> /\ \A j \in 1..i : r.blocks[j].type = "thinking"

\* _chat_content: a call is named and its arguments parse; a turn that ends
\* for tool calls has one.
ChatDecodes(r) ==
    /\ \A i \in DOMAIN r.blocks : r.blocks[i].id # 0 /\ Parses(r.blocks[i].body)
    /\ r.said = "tool_calls" => r.blocks # <<>>

Decodes(family, r) ==
    CASE family = "anthropic" -> AnthropicDecodes(r) [] family = "chat" -> ChatDecodes(r) [] OTHER -> TRUE

\* _decode_anthropic_response, _decode_responses_response,
\* _decode_chat_response, _decode_ollama_response
Decoded(family, r) ==
    CASE family = "anthropic" -> [text |-> TextOf(r.blocks), calls |-> CallsOf(r.blocks)]
      [] family = "responses" ->
            [text |-> <<>>, calls |-> [i \in DOMAIN Actions(r.output) |-> [id |-> Actions(r.output)[i].id, body |-> <<>>]]]
      [] OTHER -> [text |-> r.text, calls |-> CallsOf(r.blocks)]

-----------------------------------------------------------------------------
(* The preview. *)

\* SafeTextPreview.text_delta, _release_line: complete lines are shown, the
\* first one that is not safe or not displayed is the last.
Previewed(p, piece, displayed) ==
    IF ~p.on \/ piece = "none" THEN p
    ELSE IF piece = "word" THEN [p EXCEPT !.pending = Append(@, piece)]
    ELSE IF displayed THEN [p EXCEPT !.pending = <<>>, !.shown = @ \o p.pending \o <<piece>>]
    ELSE [p EXCEPT !.pending = <<>>, !.on = FALSE]

-----------------------------------------------------------------------------
(* The request: credentials and the conversation in the protocol's form.   *)

\* _validate_provider_credentials, _provider_auth_headers
CredentialsRefused(key, secure, mode) ==
    \/ mode = "other"
    \/ key = "missing" /\ mode # "none"
    \/ key = "padded"
    \/ key # "missing" /\ ~secure

\* The conversations the loop asks with: texts, and calls with their
\* results; a call may carry the reasoning its Response came with.
Message(kind, id, reasoned) == [kind |-> kind, id |-> id, reasoned |-> reasoned]
TurnShapes(id) == {<<Message("text", 0, FALSE)>>}
             \cup {<<Message("call", id, reasoned), Message("result", id, FALSE)>> : reasoned \in BOOLEAN}
Conversations == TurnShapes(1) \cup {a \o b : a \in TurnShapes(1), b \in TurnShapes(2)}

Block(kind, id) == [kind |-> kind, id |-> id]
Replayed(m) == IF m.reasoned THEN <<Block("reasoning", m.id)>> ELSE <<>>

\* _anthropic_request: the reasoning goes into the message of its call.
AnthropicMessages(ms) == [i \in DOMAIN ms |-> Replayed(ms[i]) \o <<Block(ms[i].kind, ms[i].id)>>]
\* _canonical_input: a flat list of items.
CanonicalInput(ms) == <<FlattenSeq(AnthropicMessages(ms))>>
\* _chat_messages: one message each, without reasoning.
ChatMessages(ms) == [i \in DOMAIN ms |-> <<Block(ms[i].kind, ms[i].id)>>]

\* Mutant of OllamaMessages: the name of the last call of the conversation.
OllamaMessagesLast(ms) ==
    LET last == {ms[i].id : i \in {i \in DOMAIN ms : ms[i].kind = "call"}}
    IN [i \in DOMAIN ms |-> <<Block(ms[i].kind, IF ms[i].kind # "result" THEN ms[i].id ELSE CHOOSE n \in last : \A m \in last : m <= n)>>]

\* _ollama_messages: a result has no id but the name of the call before it.
OllamaMessages(ms) ==
    LET named(i) == {ms[j].id : j \in {j \in 1..(i - 1) : ms[j].kind = "call" /\ ms[j].id = ms[i].id}}
    IN [i \in DOMAIN ms |-> <<Block(ms[i].kind, IF ms[i].kind # "result" THEN ms[i].id
                                               ELSE IF named(i) = {} THEN 0 ELSE CHOOSE n \in named(i) : TRUE)>>]

Wire(family, ms) ==
    CASE family = "anthropic" -> AnthropicMessages(ms) [] family = "responses" -> CanonicalInput(ms)
      [] family = "chat" -> ChatMessages(ms) [] family = "ollama" -> OllamaMessages(ms)

-----------------------------------------------------------------------------
(* The exchange. *)

\* _stream_failure_after_commit: nothing is retried once the stream has
\* begun.
FailExchange(retryable, committed) ==
    /\ exchange' = [exchange EXCEPT !.phase = "failed", !.committed = committed,
                                    !.retryable = retryable /\ ~committed]
    /\ request' = NothingAsked /\ reader' = EmptyReader /\ heard' = <<>>
    /\ UNCHANGED <<preview, answer>>

\* The request is built, or one of its checks raises.
PrepareExchange ==
    /\ exchange.phase = "prepare"
    /\ \E key \in {"missing", "padded", "given"}, secure \in BOOLEAN, mode \in {"bearer", "x-api-key", "none", "other"} :
         IF CredentialsRefused(key, secure, mode) THEN FailExchange(FALSE, FALSE)
         ELSE /\ \E ms \in Conversations : request' = [asked |-> ms, wire |-> Wire(exchange.family, ms)]
              /\ exchange' = [exchange EXCEPT !.phase = "open"]
              /\ UNCHANGED <<reader, heard, preview, answer>>

\* _http_failure: which statuses may be tried again.
StatusRetryable(code) == code \in {"request_timeout", "rate_limited", "http_5xx"}

\* _open_provider_response, _network_failure
OpenRequest ==
    /\ exchange.phase = "open"
    /\ \/ \E code \in {"request_timeout", "request_too_large", "rate_limited", "http_5xx", "redirect_blocked", "http_4xx"} :
              FailExchange(StatusRetryable(code), FALSE)
       \/ FailExchange(TRUE, FALSE)
       \/ /\ exchange' = [exchange EXCEPT !.phase = IF exchange.stream THEN "reading" ELSE "body"]
          /\ request' = NothingAsked
          /\ UNCHANGED <<reader, heard, preview, answer>>

\* complete: the body is read at once, too long, cut by the network, not
\* decodable, or a Response.
ReadBody ==
    /\ exchange.phase = "body"
    /\ \/ \E retryable \in BOOLEAN : FailExchange(retryable, FALSE)
       \/ /\ exchange' = [exchange EXCEPT !.phase = "answered"]
          /\ \E pieces \in {<<>>, <<"word">>} : answer' = [Nothing EXCEPT !.text = pieces]
          /\ UNCHANGED <<request, reader, heard, preview>>

\* callbacks.commit() comes after the checks of the whole event for Ollama,
\* before those of its contents for the others.
CommittedBy(reads) == exchange.committed \/ exchange.family # "ollama" \/ reads # {}

\* EventBound: a whole answer takes fewer events in the other protocols.
EventBound(family) ==
    CASE family = "anthropic" -> MaxEvents [] family = "responses" -> MaxEvents - 2 [] OTHER -> MaxEvents - 3

\* One event of the stream.
ReadEvent ==
    /\ exchange.phase = "reading" /\ Len(heard) < EventBound(exchange.family)
    /\ \E e \in Events(exchange.family), displayed \in BOOLEAN :
         LET reads == ReadingsOf(exchange.family, reader, e) IN
         IF reads = {} THEN FailExchange(FALSE, CommittedBy(reads))
         ELSE /\ e.kind # "ping" /\ UNCHANGED request
              /\ \E r \in reads :
                   /\ preview' = Previewed(preview, Delta(exchange.family, e), displayed)
                   /\ IF r.ended /\ ~Decodes(exchange.family, r)
                      THEN /\ exchange' = [exchange EXCEPT !.phase = "failed", !.committed = TRUE]
                           /\ reader' = EmptyReader /\ heard' = <<>> /\ UNCHANGED answer
                      ELSE /\ exchange' = [exchange EXCEPT !.phase = IF r.ended THEN "answered" ELSE @,
                                                           !.committed = TRUE]
                           /\ reader' = r /\ heard' = Append(heard, e)
                           /\ answer' = IF r.ended THEN Decoded(exchange.family, r) ELSE answer

\* Mutant of EndOfStream: the reader returns what it has when the stream
\* ends.
EndOfStreamTaken ==
    /\ exchange.phase = "reading" /\ reader.begun
    /\ exchange' = [exchange EXCEPT !.phase = "answered"]
    /\ answer' = Decoded(exchange.family, reader)
    /\ UNCHANGED <<request, reader, heard, preview>>

\* The stream ends between two events or inside one, and no reader has seen
\* its last event.
EndOfStream ==
    /\ exchange.phase = "reading"
    /\ FailExchange(FALSE, exchange.committed)

\* An event that reports an error, a line that is no event, too many of them.
BadEvent ==
    /\ exchange.phase = "reading"
    /\ \E committed \in {TRUE, exchange.committed} : FailExchange(FALSE, committed)

\* The connection is reset or times out while the stream is read.
ConnectionLost ==
    /\ exchange.phase = "reading"
    /\ FailExchange(TRUE, exchange.committed)

\* Mutant of Retry: one attempt too many.
RetryOneMore ==
    /\ exchange.phase = "failed" /\ ~exchange.committed /\ exchange.retryable
    /\ exchange.attempt <= MaxRetries + 1
    /\ exchange' = [exchange EXCEPT !.attempt = @ + 1, !.phase = "prepare", !.retryable = FALSE,
                                    !.shownBefore = @ \/ preview.shown # <<>>]
    /\ preview' = NoPreview
    /\ UNCHANGED <<request, reader, heard, answer>>

\* The agent loop: a failed call is made again while nothing of it was seen.
Retry ==
    /\ exchange.phase = "failed" /\ ~exchange.committed /\ exchange.retryable
    /\ exchange.attempt <= MaxRetries
    /\ exchange' = [exchange EXCEPT !.attempt = @ + 1, !.phase = "prepare", !.retryable = FALSE,
                                    !.shownBefore = @ \/ preview.shown # <<>>]
    /\ preview' = NoPreview
    /\ UNCHANGED <<request, reader, heard, answer>>

ProviderNext ==
    PrepareExchange \/ OpenRequest \/ ReadBody \/ ReadEvent \/ EndOfStream \/ BadEvent \/ ConnectionLost \/ Retry

ProviderSpec == ProviderInit /\ [][ProviderNext]_providerVars

-----------------------------------------------------------------------------

ProviderTypeOK ==
    /\ exchange \in [family : Families, stream : BOOLEAN, attempt : 1..(MaxRetries + 1), committed : BOOLEAN,
                     phase : {"prepare", "open", "reading", "body", "failed", "answered"},
                     retryable : BOOLEAN, shownBefore : BOOLEAN]
    /\ Len(heard) <= MaxEvents /\ reader.open \in 0..Len(reader.blocks)
    /\ preview.on \in BOOLEAN /\ preview.shown \in Seq(TextPieces)
    /\ answer.text \in Seq(TextPieces)

\* What the backend said, read from the events alone.
Said(h, kind) == Picked(h, {i \in DOMAIN h : h[i].kind = kind})
PiecesSaid(events) == [i \in DOMAIN events |-> events[i].piece]
BlockSaid(h, k) == Picked(h, {i \in DOMAIN h : h[i].kind = "block_delta" /\ h[i].index = k})
BlockText(h) == Picked(h, {i \in DOMAIN h : h[i].kind = "block_delta" /\ h[i].piece \in TextPieces})
CallSaid(h, k) == Picked(h, {i \in DOMAIN h : h[i].kind = "call" /\ h[i].index = k})
ChunkText(h) == Picked(h, {i \in DOMAIN h : h[i].piece # "none"})
ChunkCalls(h) == Picked(h, {i \in DOMAIN h : h[i].calls = 1})

AnthropicWhole ==
    LET starts == Said(heard, "block_start")
        stops == Said(heard, "block_stop")
        tools == Picked(starts, {k \in DOMAIN starts : starts[k].type = "tool_use"})
    IN /\ Len(Said(heard, "message_start")) = 1 /\ Len(Said(heard, "message_stop")) = 1
       /\ \A k \in DOMAIN starts : starts[k].index = k
       /\ [k \in DOMAIN starts |-> k] = [k \in DOMAIN stops |-> stops[k].index]
       /\ answer.text = PiecesSaid(BlockText(heard))
       /\ answer.calls =
             [k \in DOMAIN tools |-> [id |-> tools[k].index, body |-> PiecesSaid(BlockSaid(heard, tools[k].index))]]

ResponsesWhole ==
    LET added == Said(heard, "added")
        announced == Picked(added, {k \in DOMAIN added : added[k].item.type # "reasoning"})
    IN
    /\ Len(Said(heard, "completed")) = 1
    /\ IsPrefix([k \in DOMAIN announced |-> announced[k].item.id], [k \in DOMAIN answer.calls |-> answer.calls[k].id])

ChatWhole ==
    /\ Len(Said(heard, "done")) = 1
    /\ answer.text = PiecesSaid(Said(heard, "text"))
    /\ \A k \in DOMAIN answer.calls :
         /\ answer.calls[k].body = PiecesSaid(CallSaid(heard, k))
         /\ \A i \in DOMAIN CallSaid(heard, k) : CallSaid(heard, k)[i].id \in {0, answer.calls[k].id}
    /\ \A i \in DOMAIN Said(heard, "call") : Said(heard, "call")[i].index \in DOMAIN answer.calls

OllamaWhole ==
    /\ heard[Len(heard)].done
    /\ answer.text = PiecesSaid(ChunkText(heard))
    /\ Len(answer.calls) = Len(ChunkCalls(heard))

\* A streamed Response is all that the backend said, in the order it said
\* it, and was ended by the backend; what the user saw on the way is the
\* beginning of it (the final object of the Responses protocol replaces the
\* streamed text), and no earlier attempt showed anything.
AnswerIsWhole ==
    exchange.phase = "answered" =>
        /\ ~exchange.shownBefore
        /\ exchange.stream =>
             /\ CASE exchange.family = "anthropic" -> AnthropicWhole
                  [] exchange.family = "responses" -> ResponsesWhole
                  [] exchange.family = "chat" -> ChatWhole
                  [] exchange.family = "ollama" -> OllamaWhole
             /\ exchange.family # "responses" => IsPrefix(preview.shown, answer.text)

\* Reasoning the provider wants back stands directly before the call it
\* belongs to, and a result is the result of that call, in every protocol.
CallsKeepTheirResults ==
    LET wire == FlattenSeq(request.wire)
        result(i) == wire[i].kind = "result"
    IN /\ \A i \in DOMAIN wire : wire[i].kind = "reasoning" => wire[i + 1] = Block("call", wire[i].id)
       /\ \A i \in DOMAIN wire : result(i) => wire[i - 1] = Block("call", wire[i].id)
       /\ Picked(wire, {i \in DOMAIN wire : wire[i].kind # "reasoning"}) =
             [i \in DOMAIN request.asked |-> Block(request.asked[i].kind, request.asked[i].id)]

=============================================================================
