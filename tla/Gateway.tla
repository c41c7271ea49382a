--------------------------------- MODULE Gateway ---------------------------------
(***************************************************************************)
(* Conversations through the server: what Claude Code and Codex say, how   *)
(* /v1/messages and /v1/responses turn each request into one of a          *)
(* provider, and in which protocol the answer goes back.  Which provider   *)
(* is asked is the business of the route pool; here any may be.            *)
(*                                                                         *)
(* A client sends its whole conversation every time.  What is said in it   *)
(* is numbered, word by word, and so are its pictures and its calls; there *)
(* are also words of the system prompt, of the result of a call, and those *)
(* that stand for a picture.                                               *)
(***************************************************************************)
EXTENDS EndpointTest

CONSTANTS
    Providers,      \* provider entries, with the route that names them
    ClaudeOptions,  \* what a request of Claude Code has besides its messages
    CodexOptions,   \* what a request of Codex has besides its input
    MaxMessages     \* bound of the model: the length of a conversation

\* The system prompts of Claude Code: none, a text, or blocks of text.
SystemPrompts ==
    LET words == Seq([kind : {"prompt"}, of : Nat])
    IN  {Odd} \cup [text : words] \cup [blocks : Seq([type : {"text"}, text : words])]

\* What the clients ask for besides their messages does not bring messages of its own.
\* (`prompt`, one of the StateFields, is the field where a request to Vercel has its messages.)
ASSUME GatewayAssumption ==
    /\ MaxMessages \in Nat
    /\ \A p \in Providers : p.use \in Seq(STRING)
    /\ \A o \in ClaudeOptions :
          "contents" \notin DOMAIN o /\ "system" \in DOMAIN o /\ o.system \in SystemPrompts
    /\ \A o \in CodexOptions : {"input", "messages", "contents", "prompt"} \cap DOMAIN o = {}

Inbound == {"AnthropicMessages", "OpenAiResponses"}

VARIABLES
    inbound,   \* the protocol of the client
    messages,  \* the conversation so far, as the client sends it
    told,      \* history variable: the same as numbers, see Told
    turn,      \* "user", "server" or "provider"
    sent       \* the last request: what was asked, of whom, and what came of it

vars == <<inbound, messages, told, turn, sent>>

\* `calls`: of the provider; `firsts`: the first answer of each message that answers any.
Told == [words |-> 0, pictures |-> 0, calls |-> 0, firsts |-> {}, pending |-> <<>>]

Init ==
    /\ inbound \in Inbound
    /\ messages = <<>> /\ told = Told /\ turn = "user" /\ sent = NoRequest

--------------------------------------------------------------------------------
Word(kind, n) == [kind |-> kind, of |-> n]

Claude == inbound = "AnthropicMessages"

TextBlock(role, word) ==
    [type |-> IF Claude THEN "text" ELSE IF role = "user" THEN "input_text" ELSE "output_text",
     text |-> <<Word("said", word)>>]

PictureBlock(n) ==
    IF Claude
    THEN [type |-> "image", source |-> [kind |-> IF n = 1 THEN "base64" ELSE "url", of |-> n]]
    ELSE [type |-> "input_image", url |-> [scheme |-> IF n = 1 THEN "data64" ELSE "http", of |-> n]]

Attachment == [type |-> IF Claude THEN "file" ELSE "input_file"]

Said(role, content) == [role |-> role, content |-> content]

Room(n) == Len(messages) + n <= MaxMessages

Append1(t, message) ==
    /\ messages' = Append(messages, message)
    /\ told' = t
    /\ UNCHANGED inbound

\* The user writes: text alone, or blocks with a picture or a file.
UserSays ==
    /\ turn = "user" /\ told.pending = <<>> /\ Room(1)
    /\ LET t    == [told EXCEPT !.words = @ + 1]
           text == TextBlock("user", t.words)
       IN  \/ /\ Claude
              /\ Append1(t, Said("user", Text(<<Word("said", t.words)>>)))
           \/ Append1(t, Said("user", Blocks(<<text>>)))
           \/ Append1([t EXCEPT !.pictures = @ + 1],
                      Said("user", Blocks(<<text, PictureBlock(t.pictures + 1)>>)))
           \/ Append1(t, Said("user", Blocks(<<text, Attachment>>)))
    /\ turn' = "server" /\ sent' = NoRequest

\* The client answers every pending call: Claude Code in one message, with or without text,
\* Codex with an item for each.
ClientAnswers ==
    /\ turn = "user" /\ told.pending # <<>>
    /\ LET ids     == told.pending
           t       == [told EXCEPT !.pending = <<>>,
                          !.firsts = @ \cup (IF Claude THEN {ids[1]} ELSE {ids[i] : i \in DOMAIN ids})]
           results == [i \in DOMAIN ids |->
                          [type |-> "tool_result", tool_use_id |-> ids[i], content |-> Text(<<Word("result", ids[i])>>)]]
           outputs == [i \in DOMAIN ids |-> [type |-> "function_call_output", call_id |-> ids[i]]]
       IN  \/ /\ Claude /\ Append1(t, Said("user", Blocks(results)))
           \/ /\ Claude
              /\ Append1([t EXCEPT !.words = @ + 1],
                         Said("user", Blocks(Append(results, TextBlock("user", t.words + 1)))))
           \/ /\ ~Claude
              /\ messages' = messages \o outputs /\ told' = t /\ UNCHANGED inbound
    /\ turn' = "server" /\ sent' = NoRequest

--------------------------------------------------------------------------------
Placeholder(n) == [type |-> "text", text |-> <<Word("picture", n)>>]

IsPicture(b) == b.type = "image"

HasPicture(message) == \E i \in DOMAIN BlocksOf(message) : IsPicture(BlocksOf(message)[i])

\* ImageAgent::detect
AgentHandles(body) == \E i \in DOMAIN body.messages : HasPicture(body.messages[i])

\* Mutant: the numbers start again with every message.
PictureNumberInMessage(list, i, j) == Cardinality({k \in 1..j : IsPicture(BlocksOf(list[i])[k])})

\* The number of the picture in block j of message i: they are counted over all users' messages.
PictureNumber(list, i, j) ==
    LET before(k)   == IF k = i THEN 1..j ELSE DOMAIN BlocksOf(list[k])
        pictures(k) == {l \in before(k) : list[k].role = "user" /\ IsPicture(BlocksOf(list[k])[l])}
    IN  Cardinality(UNION {{k} \X pictures(k) : k \in 1..i})

\* ImageAgent::modify_request: a text stands for each picture of the user, and the model is
\* told about the tool, unless the system prompt is a single text.
ModifyRequest(body) ==
    LET prompt == [type |-> "text", text |-> <<Word("prompt", 0)>>]
        block(i, j) ==
            LET b == BlocksOf(body.messages[i])[j]
            IN  IF IsPicture(b) /\ body.messages[i].role = "user"
                THEN Placeholder(PictureNumber(body.messages, i, j)) ELSE b
        message(i) ==
            IF HasPicture(body.messages[i])
            THEN Put(body.messages[i], "content",
                     Blocks([j \in DOMAIN BlocksOf(body.messages[i]) |-> block(i, j)]))
            ELSE body.messages[i]
        system ==
            CASE IsText(body.system)   -> body.system
              [] IsBlocks(body.system) -> Blocks(Append(body.system.blocks, prompt))
              [] OTHER                 -> Blocks(<<prompt>>)
    IN  [body EXCEPT !.messages = [i \in DOMAIN @ |-> message(i)], !.system = system, !.tools = "claude"]

\* The body that the handler has after it parsed a request of Claude Code: all the
\* fields of MessagesRequest, null or not, and none besides.
ClaudeBody(options) == Put(options, "messages", messages)

\* Codex sends its items as input or messages; or one text; or only a state.
CodexBody(options) ==
    LET asked == Drop(options, {"form"})
    IN  CASE options.form = "items"    -> Put(asked, "input", [items |-> messages])
          [] options.form = "messages" -> Put(asked, "messages", messages)
          [] options.form = "text"     -> Put(asked, "input", Text(<<Word("said", 1)>>))
          [] OTHER                     -> asked

\* The protocol of the answer that the client gets.
AnswerProtocol(request) ==
    IF request.mode = "BasicPost" \/ request.mode = "AnthropicMessages"
    THEN IF inbound = "OpenAiResponses" /\ request.stream THEN "OpenAiResponses" ELSE "AnthropicMessages"
    ELSE request.mode

Outcome(request, p, options) ==
    IF request.ok
    THEN Joined(request, [use |-> p.use, asked |-> Asked(options), answer |-> AnswerProtocol(request)])
    ELSE NoRequest

\* A refused request is an error for the client; its user may go on.
Ask(p, body, options) ==
    LET request == BuildUpstreamRequest(inbound, p.route, p, body)
    IN  /\ sent' = Outcome(request, p, options)
        /\ turn' = IF request.ok THEN "provider" ELSE "user"
        /\ UNCHANGED <<inbound, messages, told>>

Messages ==
    /\ turn = "server" /\ Claude
    /\ \E p \in Providers, options \in ClaudeOptions :
          LET body == ClaudeBody(options)
          IN  Ask(p, IF AgentHandles(body) THEN ModifyRequest(body) ELSE body, options)

Responses ==
    /\ turn = "server" /\ ~Claude
    /\ \E p \in Providers, options \in CodexOptions :
          /\ options.form = "text" => told = [Told EXCEPT !.words = 1]
          /\ Ask(p, CodexBody(options), options)

\* The provider answers in the protocol of the client, as far as this one understands it.
ProviderSays ==
    /\ turn = "provider" /\ sent.answer = inbound /\ Room(2)
    /\ LET t == [told EXCEPT !.words = @ + 1]
       IN  Append1(t, Said("assistant", Blocks(<<TextBlock("assistant", t.words)>>)))
    /\ turn' = "user" /\ sent' = NoRequest

\* One call, or two at a time.
ProviderCalls ==
    /\ turn = "provider" /\ sent.answer = inbound /\ Room(2)
    /\ \E n \in 1..2 :
          LET ids  == [i \in 1..n |-> told.calls + i]
              t    == [told EXCEPT !.calls = @ + n, !.pending = ids]
              uses == [i \in 1..n |-> [type |-> IF Claude THEN "tool_use" ELSE "function_call", id |-> ids[i]]]
          IN  IF Claude
              THEN Append1([t EXCEPT !.words = @ + 1],
                           Said("assistant", Blocks(<<TextBlock("assistant", t.words + 1)>> \o uses)))
              ELSE messages' = messages \o uses /\ told' = t /\ UNCHANGED inbound
    /\ turn' = "user" /\ sent' = NoRequest

Next == UserSays \/ ClientAnswers \/ Messages \/ Responses \/ ProviderSays \/ ProviderCalls

Spec == Init /\ [][Next]_vars

--------------------------------------------------------------------------------
BlocksIn(message) ==
    LET content == ContentOf(message) IN IF IsBlocks(content) THEN content.blocks ELSE <<>>

\* What a message has, each with its number, its block and its place there; fields of the
\* message itself have block 0.
Part(block, place, of) == [block |-> block, place |-> place, of |-> of]

Texts(message) ==
    IF IsText(ContentOf(message)) THEN <<ContentOf(message).text>>
    ELSE [i \in DOMAIN BlocksIn(message) |->
             IF "text" \in DOMAIN BlocksIn(message)[i] THEN BlocksIn(message)[i].text ELSE <<>>]

WordsIn(message, kind) ==
    UNION {{Part(i, j, Texts(message)[i][j].of) : j \in {k \in DOMAIN Texts(message)[i] : Texts(message)[i][k].kind = kind}}
           : i \in DOMAIN Texts(message)}

\* The blocks of some types.
Those(message, types) == {i \in DOMAIN BlocksIn(message) : BlocksIn(message)[i].type \in types}

PicturesIn(message) ==
    {LET b == BlocksIn(message)[i] IN Part(i, 1, IF IsPicture(b) THEN b.source.of ELSE b.url.of)
     : i \in Those(message, {"image", "image_url", "input_image"})}

\* The calls and the answers in a message or an item.
CallsIn(message) ==
    {Part(i, 1, BlocksIn(message)[i].id) : i \in Those(message, {"tool_use"})}
    \cup (IF "tool_calls" \in DOMAIN message
          THEN {Part(0, i, message.tool_calls[i]) : i \in DOMAIN message.tool_calls} ELSE {})
    \cup (IF "id" \in DOMAIN message THEN {Part(0, 0, message.id)} ELSE {})

AnswersIn(message) ==
    {Part(i, 1, BlocksIn(message)[i].tool_use_id) : i \in Those(message, {"tool_result"})}
    \cup (IF "tool_call_id" \in DOMAIN message THEN {Part(0, 1, message.tool_call_id)} ELSE {})
    \cup (IF "call_id" \in DOMAIN message THEN {Part(0, 0, message.call_id)} ELSE {})

\* The protocol whose call or answer a part is: in a block, in an item or in a field of a message.
FormOf(part) ==
    IF part.block # 0 THEN "anthropic" ELSE IF part.place = 0 THEN "responses" ELSE "chat"

\* The parts of all messages, given those of each.
All(parts) == UNION {{[message |-> i, part |-> p] : p \in parts[i]} : i \in DOMAIN parts}

Earlier(p, q) == p.block < q.block \/ (p.block = q.block /\ p.place < q.place)
Before(t, u)  == t.message < u.message \/ (t.message = u.message /\ Earlier(t.part, u.part))

Ascending(all) == \A t, u \in all : Before(t, u) => t.part.of < u.part.of
Numbers(all)   == {t.part.of : t \in all}

Upstream == MessagesOf(sent.body)

\* What the client has said reaches the provider, whatever its protocol and its transformers:
\* every word of the conversation once and in order, and every picture, the same one, or
\* for a picture of Claude Code the text with its number
\* (ImageAgent::modify_request, build_upstream_request).
ContentArrives ==
    sent.ok /\ Upstream # <<>> =>
        LET words == All([i \in DOMAIN Upstream |-> WordsIn(Upstream[i], "said")])
            shown == All([i \in DOMAIN Upstream |->
                             IF Claude THEN WordsIn(Upstream[i], "picture") ELSE PicturesIn(Upstream[i])])
        IN  /\ Numbers(words) = 1..told.words /\ Ascending(words)
            /\ Numbers(shown) = 1..told.pictures /\ Ascending(shown)

\* What a provider sees of the calls, in the form of its own protocol.
\* Where there is a conversion (Claude Code to Claude's protocol or to chat, Codex to Responses):
\* the calls it made, all and in order, and the answers in order, each after its call and
\* once; all of them, but a chat provider has only the first of each message, and the other
\* results of parallel calls are lost to it (message_to_openai_chat).
\* Where there is none (Codex to the other two, Claude Code to Responses), no call and no
\* answer at all, and the request is not refused: what they are in stays in the client's form,
\* although plan-009 of the repository demands a conversion or an error.
\* The bodies for Gemini are left out: the code knows no calls of that protocol.
CallsArePaired ==
    sent.ok /\ Upstream # <<>> /\ "contents" \notin DOMAIN sent.body =>
        LET target     == Target(sent.mode)
            own(parts) == {p \in parts : FormOf(p) = target}
            calls      == All([i \in DOMAIN Upstream |-> own(CallsIn(Upstream[i]))])
            answers    == All([i \in DOMAIN Upstream |-> own(AnswersIn(Upstream[i]))])
        IN  IF Claude <=> target = "responses" THEN calls = {} /\ answers = {}
            ELSE /\ Numbers(calls) = 1..told.calls /\ Ascending(calls)
                 /\ Numbers(answers) = IF target = "chat" THEN told.firsts ELSE 1..told.calls
                 /\ Ascending(answers)
                 /\ \A a \in answers : \E c \in calls : c.part.of = a.part.of /\ c.message < a.message

\* A stream that a client gets is one of its own protocol: what
\* validate_stream_compatibility lets through is what the handlers can pass on or translate.
StreamsAreUnderstood == sent.ok /\ sent.stream => sent.answer = inbound

\* A client gets a stream exactly when it asked for one.  Only vertex-claude, which takes
\* the field away and leaves the client waiting for events, makes it otherwise.
StreamsAsAsked == sent.ok => sent.stream = (sent.asked /\ ~Contains(sent.use, "vertex-claude"))

OnlyText == \A i \in DOMAIN messages : \A b \in ToSet(BlocksOf(messages[i])) : "text" \in DOMAIN b

\* The requests that the clients may make next which bring the conversation and name a model.
NextBodies(p) ==
    LET bodies == IF Claude THEN {ClaudeBody(o) : o \in ClaudeOptions}
                  ELSE {CodexBody(o) : o \in {c \in CodexOptions : c.form \in {"items", "messages"}}}
    IN  {body \in bodies : UpstreamModelName(body, p.route, p) # ""}

\* What an available provider of the Config tab is good for: a conversation in words becomes a
\* request for it, in the protocol and with the authorization of the test, unless the client
\* asks for a stream that the provider's protocol cannot give it.  Such a provider is called
\* available all the same, and every streamed request of that client to it is refused.
\* The test is not put through the provider's transformers: of the fields of the body it tells
\* something only where there are none.
TestedAsServed ==
    turn = "server" /\ OnlyText =>
        \A p \in {q \in Providers : CanBeAvailable(q)} : \A body \in NextBodies(p) :
            LET request == BuildUpstreamRequest(inbound, p.route, p, body)
                tested  == EndpointTestRequest(p)
                streams == Asked(body) /\ ~Contains(p.use, "vertex-claude")
            IN  /\ request.ok <=> (streams => StreamCompatible(inbound, tested.mode))
                /\ request.ok =>
                      /\ <<request.mode, request.auth>> = <<tested.mode, tested.auth>>
                      /\ p.use = <<>> =>
                            {"model", "input", "messages"} \cap DOMAIN tested.body \subseteq DOMAIN request.body

================================================================================
