--------------------------------- MODULE Streams ---------------------------------
(***************************************************************************)
(* The answer of a provider, event by event: the SSE parser and the tool   *)
(* interception of ccr-sse, the translation of Claude's events for a       *)
(* Responses client (runtime/responses_stream.rs), and                     *)
(* process_with_tool_interception of main.rs.                              *)
(*                                                                         *)
(* The provider writes the events of its script, which arrive in chunks of *)
(* any size.  On the wire, event n is its line, perhaps with a character   *)
(* of two bytes in it, and two line feeds.  Which answers come as streams  *)
(* is told by Gateway; Exchange puts the two together.                     *)
(***************************************************************************)
EXTENDS Naturals, SequencesExt

CONSTANTS
    MaxBlocks,   \* bound of the model: content blocks of an answer
    MaxChunk,    \* bound of the model: bytes of a chunk
    Wide         \* events with a character of two bytes in their line

ASSUME StreamsAssumption == MaxBlocks \in Nat /\ MaxChunk \in Nat \ {0} /\ Wide \subseteq Nat

VARIABLES
    handling,  \* what the server does with the answer: "none", "translate" or "intercept"
    script,    \* the events the provider has written
    open,      \* the kind of its block that is open, or "none"
    wire,      \* bytes that have not arrived
    ended,     \* how the stream of the provider ended: "no", "eof" or "broken"
    buf,       \* SseParser.buf
    heard,     \* the events parsed so far: number of the event, and whether it is as sent
    blocks,    \* block_types: of each index that has been started, its kind
    out,       \* the events for the client
    calls,     \* tool calls intercepted, with the way each ended
    done       \* the client's stream is complete

streamVars == <<handling, script, open, wire, ended, buf, heard, blocks, out, calls, done>>

Kinds == {"text", "thinking", "tool_use"}

StreamInit ==
    /\ handling = "none"
    /\ script = <<>> /\ open = "none" /\ wire = <<>> /\ ended = "no"
    /\ buf = <<>> /\ heard = <<>> /\ blocks = <<>> /\ out = <<>> /\ calls = <<>> /\ done = FALSE

--------------------------------------------------------------------------------
(***************************************************************************)
(* The provider.                                                           *)
(***************************************************************************)
\* The headers of an answer: it is a stream, and has not begun.
Receive(how) ==
    /\ handling = "none" /\ handling' = how
    /\ UNCHANGED <<script, open, wire, ended, buf, heard, blocks, out, calls, done>>

Bytes(n) ==
    <<[line |-> n]>> \o (IF n \in Wide THEN <<[hi |-> n], [lo |-> n]>> ELSE <<>>)
    \o <<[nl |-> n], [nl |-> n]>>

Started == {i \in DOMAIN script : script[i].type = "content_block_start"}
Index   == Cardinality(Started) - 1

LastType == IF script = <<>> THEN "nothing" ELSE Last(script).type

Write(event, kind) ==
    /\ ended = "no"
    /\ script' = Append(script, event)
    /\ wire' = wire \o Bytes(Len(script) + 1)
    /\ open' = kind
    /\ UNCHANGED <<handling, ended, buf, heard, blocks, out, calls, done>>

\* The events of Claude's protocol, in the orders it allows; an error may come at any time.
ProviderWrites ==
    /\ handling # "none" /\ LastType \notin {"message_stop", "error"}
    /\ \/ /\ script = <<>>
          /\ Write([type |-> "message_start"], "none")
       \/ /\ LastType \in {"message_start", "content_block_stop"} /\ Index + 1 < MaxBlocks
          /\ \E kind \in Kinds : Write([type |-> "content_block_start", index |-> Index + 1, kind |-> kind], kind)
       \/ /\ LastType = "content_block_start"
          /\ Write([type |-> "content_block_delta", index |-> Index, kind |-> open], open)
       \/ /\ LastType \in {"content_block_start", "content_block_delta"}
          /\ Write([type |-> "content_block_stop", index |-> Index], "none")
       \/ /\ LastType = "content_block_stop"
          /\ Write([type |-> "message_delta"], "none")
       \/ /\ LastType = "message_delta"
          /\ Write([type |-> "message_stop"], "none")
       \/ /\ script # <<>>
          /\ Write([type |-> "error"], "none")

\* The provider closes the stream, after its last event or before, or the connection breaks.
ProviderEnds ==
    /\ handling # "none" /\ ended = "no"
    /\ ended' \in {"eof", "broken"}
    /\ UNCHANGED <<handling, script, open, wire, buf, heard, blocks, out, calls, done>>

--------------------------------------------------------------------------------
(***************************************************************************)
(* The parser.  Each chunk is decoded on its own: half a character at its  *)
(* end or its start becomes another character.                             *)
(***************************************************************************)
Spoiled == [spoiled |-> TRUE]

FromUtf8Lossy(chunk) ==
    [i \in DOMAIN chunk |->
        IF \/ "hi" \in DOMAIN chunk[i] /\ i = Len(chunk)
           \/ "lo" \in DOMAIN chunk[i] /\ i = 1
        THEN Spoiled ELSE chunk[i]]

IsFeed(byte) == "nl" \in DOMAIN byte

\* The ends of the blocks in a buffer.
Ends(text) == {i \in 2..Len(text) : IsFeed(text[i]) /\ IsFeed(text[i - 1])}

\* The event of a block of bytes: its number, and whether all of it is as sent.
EventOf(bytes) ==
    [number |-> Head(bytes).line, whole |-> ~Contains(bytes, Spoiled)]

\* Mutant: the events that have been parsed stay in the buffer.
UnparsedKept(text) == text

\* The k-th end from the front.
EndOf(text, k) == CHOOSE i \in Ends(text) : Cardinality({j \in Ends(text) : j <= i}) = k

\* SseParser::feed: the events that are complete, and what stays in the buffer.
Parsed(text) ==
    LET start(k) == IF k = 1 THEN 1 ELSE EndOf(text, k - 1) + 1
    IN  [k \in 1..Cardinality(Ends(text)) |-> EventOf(SubSeq(text, start(k), EndOf(text, k)))]

Unparsed(text) == IF Ends(text) = {} THEN text ELSE SubSeq(text, Max(Ends(text)) + 1, Len(text))

--------------------------------------------------------------------------------
(***************************************************************************)
(* The translation of an event.                                            *)
(***************************************************************************)
Item(type, e) == [type |-> type, index |-> e.index]

\* block_types has the kind of a block under its index.
KindOf(kinds, e) == IF e.index + 1 \in DOMAIN kinds THEN kinds[e.index + 1] ELSE "unknown"

Created == <<[type |-> "created"], [type |-> "in_progress"]>>

\* A call is an item of its own; everything else becomes a message with one part.
BlockStart(e) == <<Item("item.added", e)>> \o (IF e.kind = "tool_use" THEN <<>> ELSE <<Item("part.added", e)>>)

BlockDelta(e) ==
    CASE e.kind = "text"     -> <<Item("text.delta", e)>>
      [] e.kind = "tool_use" -> <<Item("arguments.delta", e)>>
      [] OTHER               -> <<>>

BlockStop(e, kinds) ==
    (IF KindOf(kinds, e) = "tool_use" THEN <<Item("arguments.done", e)>>
     ELSE <<Item("text.done", e), Item("part.done", e)>>)
    \o <<Item("item.done", e)>>

\* responses_sse_from_anthropic_event
ResponsesEvents(e, kinds) ==
    CASE e.type = "message_start"       -> Created
      [] e.type = "content_block_start" -> BlockStart(e)
      [] e.type = "content_block_delta" -> BlockDelta(e)
      [] e.type = "content_block_stop"  -> BlockStop(e, kinds)
      [] e.type = "message_stop"        -> <<[type |-> "completed"]>>
      [] e.type = "error"               -> <<[type |-> "error"]>>
      [] OTHER                          -> <<>>

\* Mutant: only the blocks of text are remembered.
KindsAfterText(e, kinds) ==
    IF e.type = "content_block_start" /\ e.kind = "text" THEN Append(kinds, e.kind) ELSE kinds

\* The kinds of the blocks after the event: they are never forgotten.
KindsAfter(e, kinds) == IF e.type = "content_block_start" THEN Append(kinds, e.kind) ELSE kinds

Translated(events) ==
    FoldLeft(LAMBDA acc, h :
                 [kinds |-> KindsAfter(script[h.number], acc.kinds),
                  out   |-> acc.out \o ResponsesEvents(script[h.number], KindsAfter(script[h.number], acc.kinds))],
             [kinds |-> blocks, out |-> out], events)

\* A chunk arrives: it is parsed and, for a Responses client, translated.  The interception
\* waits for the end.
Chunk ==
    /\ ~done /\ wire # <<>>
    /\ \E n \in 1..MaxChunk :
          /\ n <= Len(wire)
          /\ LET text   == buf \o (IF handling = "translate" THEN FromUtf8Lossy(SubSeq(wire, 1, n))
                                   ELSE SubSeq(wire, 1, n))
                 events == IF handling = "translate" THEN Parsed(text) ELSE <<>>
             IN  /\ buf' = IF handling = "translate" THEN Unparsed(text) ELSE text
                 /\ heard' = heard \o events
                 /\ out' = Translated(events).out
                 /\ blocks' = Translated(events).kinds
          /\ wire' = SubSeq(wire, n + 1, Len(wire))
    /\ UNCHANGED <<handling, script, open, ended, calls, done>>

\* The end of the provider's stream is the end of the client's: a block that is not complete
\* is dropped, and a broken connection is an error of the transport.
TranslationEnds ==
    /\ handling = "translate" /\ ~done
    /\ \/ ended = "eof" /\ wire = <<>>
       \/ ended = "broken"
    /\ done' = TRUE
    /\ UNCHANGED <<handling, script, open, wire, ended, buf, heard, blocks, out, calls>>

--------------------------------------------------------------------------------
(***************************************************************************)
(* Tool interception.  It takes every tool call out of the answer, those   *)
(* of the client's own tools as well, which the agent then fails.          *)
(***************************************************************************)
Passthrough == [buffering |-> -1, forward |-> <<>>, calls |-> <<>>]

\* Mutant: the state stays when a call is complete.
RewriterFeedKeeps(r, e) ==
    CASE e.type = "content_block_start" /\ e.kind = "tool_use" -> [r EXCEPT !.buffering = e.index]
      [] e.type = "content_block_delta" /\ r.buffering # -1 -> r
      [] e.type = "content_block_stop" /\ r.buffering = e.index ->
            [r EXCEPT !.calls = Append(@, [index |-> e.index, result |-> "none"])]
      [] OTHER -> [r EXCEPT !.forward = Append(@, e)]

\* SseRewriter::feed
RewriterFeed(r, e) ==
    CASE e.type = "content_block_start" /\ e.kind = "tool_use" -> [r EXCEPT !.buffering = e.index]
      [] e.type = "content_block_delta" /\ r.buffering # -1 -> r
      [] e.type = "content_block_stop" /\ r.buffering = e.index ->
            [r EXCEPT !.buffering = -1, !.calls = Append(@, [index |-> e.index, result |-> "none"])]
      [] OTHER -> [r EXCEPT !.forward = Append(@, e)]

Rewritten(events) == FoldLeft(LAMBDA r, h : RewriterFeed(r, script[h.number]), Passthrough, events)

\* All of the answer is read before any of it is looked at.
Intercept ==
    /\ handling = "intercept" /\ ~done /\ heard = <<>> /\ wire = <<>> /\ ended = "eof"
    /\ heard' = Parsed(buf)
    /\ out' = Rewritten(heard').forward
    /\ calls' = Rewritten(heard').calls
    /\ done' = (calls' = <<>>)
    /\ buf' = Unparsed(buf)
    /\ UNCHANGED <<handling, script, open, wire, ended, blocks>>

\* The answer cannot be read to its end: the client gets an error instead of it.
InterceptFails ==
    /\ handling = "intercept" /\ ~done /\ heard = <<>> /\ ended = "broken"
    /\ out' = <<[type |-> "error"]>> /\ done' = TRUE
    /\ UNCHANGED <<handling, script, open, wire, ended, buf, heard, blocks, calls>>

Waiting == {k \in DOMAIN calls : calls[k].result = "none"}

\* execute_tool: analyzeImage may succeed; any other tool, and every error, is a failure.
ExecuteTool ==
    /\ handling = "intercept" /\ ~done /\ Waiting # {}
    /\ \E result \in {"ok", "failed"} : calls' = [calls EXCEPT ![Min(Waiting)].result = result]
    /\ UNCHANGED <<handling, script, open, wire, ended, buf, heard, blocks, out, done>>

\* invoke_continuation: a request of the server to itself with the calls and their results.
\* The pictures have been replaced, so this answer is not intercepted; its message_start and
\* message_stop are taken out.
Continuations ==
    LET block(kind) == <<[type |-> "content_block_start", index |-> 0, kind |-> kind],
                         [type |-> "content_block_stop", index |-> 0]>>
    IN  {block(kind) \o <<[type |-> "message_delta"]>> : kind \in {"text", "tool_use"}}
        \cup {<<[type |-> "error"]>>}

Continue ==
    /\ handling = "intercept" /\ ~done /\ calls # <<>> /\ Waiting = {}
    /\ \E events \in Continuations : out' = out \o events
    /\ done' = TRUE
    /\ UNCHANGED <<handling, script, open, wire, ended, buf, heard, blocks, calls>>

StreamNext ==
    \/ ProviderWrites \/ ProviderEnds
    \/ Chunk \/ TranslationEnds
    \/ Intercept \/ InterceptFails \/ ExecuteTool \/ Continue

--------------------------------------------------------------------------------
\* The events of which all bytes have arrived.
Arrived == {n \in DOMAIN script : \A i \in DOMAIN wire : ~Contains(Bytes(n), wire[i])}

Of(types) == {k \in DOMAIN out : out[k].type \in types}

\* However the answer is cut into chunks, the parser finds the events that have arrived, each
\* once and in order, and none is damaged that has only characters of one byte (SseParser::feed).
ChunksDontMatter ==
    handling = "translate" =>
        /\ [k \in DOMAIN heard |-> heard[k].number] = [k \in 1..Cardinality(Arrived) |-> k]
        /\ \A k \in DOMAIN heard : heard[k].whole \/ heard[k].number \in Wide

\* For a Responses client every item is announced before anything else is said of it, gets
\* events of one kind only, and is done once, before the response is completed, after which
\* nothing comes; the items of a complete answer are all done
\* (responses_sse_from_anthropic_event).
ItemsAreClosed ==
    handling = "translate" =>
        /\ \A k \in DOMAIN out : "index" \in DOMAIN out[k] =>
              LET same   == {j \in DOMAIN out : "index" \in DOMAIN out[j] /\ out[j].index = out[k].index}
                  spoken == {out[j].type : j \in same}
              IN  /\ out[Min(same)].type = "item.added"
                  /\ Cardinality(same \cap Of({"item.added"})) = 1
                  /\ \A j \in same \cap Of({"item.done"}) : j = Max(same)
                  /\ \/ spoken \cap {"text.delta", "text.done", "part.added", "part.done"} = {}
                     \/ spoken \cap {"arguments.delta", "arguments.done"} = {}
        /\ \A k \in Of({"completed"}) :
              /\ k = Len(out)
              /\ {out[j].index : j \in Of({"item.added"})} = {out[j].index : j \in Of({"item.done"})}

\* The indices of the calls in the answer, those of the calls that were complete, and the
\* events that are not about calls.
HeardEvent(k) == script[heard[k].number]
HeardOf(type)  == {k \in DOMAIN heard : HeardEvent(k).type = type}

Tools     == {HeardEvent(k).index : k \in {j \in HeardOf("content_block_start") : HeardEvent(j).kind = "tool_use"}}
Complete  == {HeardEvent(k).index : k \in HeardOf("content_block_stop")} \cap Tools
Untouched == {k \in DOMAIN heard : "index" \in DOMAIN HeardEvent(k) => HeardEvent(k).index \notin Tools}

\* Interception leaves no part of a call in what the client gets, takes nothing else away and
\* adds nothing until all calls are answered, and every call that was complete has one result,
\* in the order of the calls (SseRewriter::feed, process_with_tool_interception).
CallsAreTaken ==
    handling = "intercept" /\ heard # <<>> =>
        /\ \A k \in Untouched : LET place == Cardinality({j \in Untouched : j <= k})
                                IN  place \in DOMAIN out /\ out[place] = HeardEvent(k)
        /\ Len(out) = Cardinality(Untouched) \/ (done /\ calls # <<>>)
        /\ {calls[k].index : k \in DOMAIN calls} = Complete
        /\ \A j, k \in DOMAIN calls : j < k => calls[j].index < calls[k].index
        /\ done => Waiting = {}

================================================================================
