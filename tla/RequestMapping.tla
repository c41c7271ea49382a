------------------------------ MODULE RequestMapping ------------------------------
(***************************************************************************)
(* From the request of a client to the request sent to a provider:         *)
(* protocol/body_mapping.rs of ccr-server.                                 *)
(*                                                                         *)
(* Text is a sequence of words.  A picture is a source [kind, of] for      *)
(* Claude and a url [scheme, of] for OpenAI; "data64" stands for the URLs  *)
(* that hold their picture.  A conversion that fails yields Refused, and   *)
(* the request is refused when a Refused is anywhere in it.                *)
(***************************************************************************)
EXTENDS Providers

Refused == [type |-> "refused"]

\* The three protocols a content can be written for.
Target(mode) ==
    CASE mode = "OpenAiChat" -> "chat"
      [] mode = "OpenAiResponses" -> "responses"
      [] OTHER -> "anthropic"

TextType == [anthropic |-> "text", chat |-> "text", responses |-> "input_text"]

UrlOf(source) == [scheme |-> IF source.kind = "base64" THEN "data64" ELSE "http", of |-> source.of]
SourceOf(url) == [kind |-> IF url.scheme = "data64" THEN "base64" ELSE "url", of |-> url.of]

\* A picture without a url, or with a source of an unknown kind, is refused.
ClaudePicture(b) ==
    IF b.type = "image" THEN b
    ELSE IF "url" \notin DOMAIN b THEN Refused
    ELSE [type |-> "image", source |-> SourceOf(b.url)]

ResponsesPicture(b) ==
    IF b.type = "image"
    THEN IF b.source.kind \in {"base64", "url"}
         THEN [type |-> "input_image", url |-> UrlOf(b.source)] ELSE Refused
    ELSE IF "url" \notin DOMAIN b THEN Refused
    ELSE [type |-> "input_image", url |-> b.url]

\* An input_image goes to a chat provider as it is.
ChatPicture(b) ==
    IF b.type # "image" THEN b
    ELSE IF b.source.kind \in {"base64", "url"}
    THEN [type |-> "image_url", url |-> UrlOf(b.source)] ELSE Refused

ContentBlockForTarget(b, target) ==
    CASE b.type \in {"text", "input_text", "output_text"} -> [type |-> TextType[target], text |-> b.text]
      [] b.type \in {"image", "image_url", "input_image"} ->
            CASE target = "anthropic" -> ClaudePicture(b)
              [] target = "chat"      -> ChatPicture(b)
              [] OTHER                -> ResponsesPicture(b)
      [] b.type \in {"input_audio", "audio", "file", "input_file"} -> Refused
      [] OTHER -> b   \* tool_use, tool_result and unknown types

BlocksFor(blocks, target) == [i \in DOMAIN blocks |-> ContentBlockForTarget(blocks[i], target)]

\* A content that is neither text nor blocks is refused.
NormalizeMessage(message, target) ==
    IF "content" \notin DOMAIN message \/ IsText(message.content) THEN message
    ELSE Put(message, "content",
             Blocks(IF IsBlocks(message.content) THEN BlocksFor(message.content.blocks, target)
                    ELSE <<Refused>>))

NormalizeMessages(messages, target) ==
    [i \in DOMAIN messages |-> NormalizeMessage(messages[i], target)]

--------------------------------------------------------------------------------
(***************************************************************************)
(* A message of Claude for the chat protocol.  With a tool result in it,   *)
(* it becomes the answer to the first of them, made of all its text.       *)
(***************************************************************************)
BlocksOf(message) ==
    IF "content" \in DOMAIN message /\ IsBlocks(message.content) THEN message.content.blocks ELSE <<>>

BlockAsText(b) ==
    IF "text" \in DOMAIN b THEN b.text
    ELSE IF "content" \in DOMAIN b /\ IsText(b.content) THEN b.content.text
    ELSE <<>>

MessageContentAsText(message) ==
    FoldLeft(LAMBDA text, b : text \o BlockAsText(b), <<>>, BlocksOf(message))

ToolMessage(message) ==
    [role |-> "tool",
     tool_call_id |-> Head(OfType(BlocksOf(message), "tool_result")).tool_use_id,
     content |-> Text(MessageContentAsText(message))]

WithoutTools(blocks) ==
    Selected(blocks, {blocks[i].type : i \in DOMAIN blocks} \ {"tool_use", "tool_result"})

ChatContent(message) ==
    LET kept == WithoutTools(BlocksOf(message))
    IN  IF IsText(message.content) THEN message.content
        ELSE IF ~IsBlocks(message.content) THEN Blocks(<<Refused>>)
        ELSE IF kept = <<>> THEN Text(<<>>)
        ELSE Blocks(BlocksFor(kept, "chat"))

ToolCalls(message) ==
    LET uses == OfType(BlocksOf(message), "tool_use") IN [i \in DOMAIN uses |-> uses[i].id]

\* Mutant: what the user writes next to the results of the tools comes first.
MessageToOpenAiChatSpokenFirst(message) ==
    LET spoken == [role |-> message.role, content |-> ChatContent(message)]
    IN  IF OfType(BlocksOf(message), "tool_result") # <<>> /\ WithoutTools(BlocksOf(message)) = <<>>
        THEN ToolMessage(message)
        ELSE IF ToolCalls(message) = <<>> THEN spoken
        ELSE Put(spoken, "tool_calls", ToolCalls(message))

MessageToOpenAiChat(message) ==
    LET spoken == [role |-> message.role, content |-> ChatContent(message)]
    IN  IF OfType(BlocksOf(message), "tool_result") # <<>> THEN ToolMessage(message)
        ELSE IF ToolCalls(message) = <<>> THEN spoken
        ELSE Put(spoken, "tool_calls", ToolCalls(message))

MessageToResponsesInput(message) ==
    [role |-> message.role,
     content |-> Blocks(IF IsText(message.content) THEN <<[type |-> "input_text", text |-> message.content.text]>>
                        ELSE IF IsBlocks(message.content) THEN BlocksFor(message.content.blocks, "responses")
                        ELSE <<Refused>>)]

--------------------------------------------------------------------------------
\* Those of the fields that are there, the first of each group, under the name of the group.
Copied(body, groups) ==
    LET first(g) == SelectInSeq(groups[g], LAMBDA f : f \in DOMAIN body)
    IN  [g \in {h \in DOMAIN groups : first(h) # 0} |-> body[groups[g][first(g)]]]

\* Mutant: the stream flag is left out.
CopyCommonRequestFieldsUnstreamed(body, mode) ==
    Copied(body,
        IF mode = "OpenAiResponses"
        THEN [reasoning |-> <<"reasoning">>, max_output_tokens |-> <<"max_output_tokens", "max_tokens">>]
        ELSE [max_tokens |-> <<"max_tokens", "max_output_tokens">>])

CopyCommonRequestFields(body, mode) ==
    Copied(body,
        IF mode = "OpenAiResponses"
        THEN [stream |-> <<"stream">>, reasoning |-> <<"reasoning">>,
              max_output_tokens |-> <<"max_output_tokens", "max_tokens">>]
        ELSE [stream |-> <<"stream">>, max_tokens |-> <<"max_tokens", "max_output_tokens">>])

AnthropicBodyToOpenAiChat(body, model) ==
    LET system   == [i \in DOMAIN SystemText(body) |->
                        [role |-> "system", content |-> Text(SystemText(body)[i])]]
        messages == [i \in DOMAIN body.messages |-> MessageToOpenAiChat(body.messages[i])]
    IN  Joined([model |-> model, messages |-> system \o messages],
               CopyCommonRequestFields(body, "OpenAiChat"))

AnthropicBodyToOpenAiResponses(body, model) ==
    LET system == [i \in DOMAIN SystemText(body) |->
                      [role |-> "system",
                       content |-> Blocks(<<[type |-> "input_text", text |-> SystemText(body)[i]]>>)]]
        items  == [i \in DOMAIN body.messages |-> MessageToResponsesInput(body.messages[i])]
    IN  Joined([model |-> model, input |-> [items |-> system \o items]],
               CopyCommonRequestFields(body, "OpenAiResponses"))

PrepareAnthropicBodyForMode(body, model, mode) ==
    CASE mode = "OpenAiChat"      -> AnthropicBodyToOpenAiChat(body, model)
      [] mode = "OpenAiResponses" -> AnthropicBodyToOpenAiResponses(body, model)
      [] OTHER -> Put(Put(body, "model", model), "messages", NormalizeMessages(body.messages, "anthropic"))

--------------------------------------------------------------------------------
(***************************************************************************)
(* The body of a Responses client: its `input` is a text or a list of      *)
(* items, some of which have no content; it may have messages instead, or  *)
(* only a state that the provider keeps.                                   *)
(***************************************************************************)
StateFields == {"previous_response_id", "conversation_id", "prompt"}

ResponsesInputToMessages(body, target) ==
    IF "messages" \in DOMAIN body THEN NormalizeMessages(body.messages, target)
    ELSE IF "text" \in DOMAIN body.input THEN <<[role |-> "user", content |-> body.input]>>
    ELSE IF "items" \in DOMAIN body.input THEN NormalizeMessages(body.input.items, target)
    ELSE <<[role |-> "user", content |-> Blocks(<<Refused>>)]>>

EnsureResponsesInput(body) ==
    IF "input" \in DOMAIN body \/ "messages" \notin DOMAIN body THEN body
    ELSE Put(Drop(body, {"messages"}), "input", [items |-> body.messages])

\* validate_responses_has_input_or_state, reject_state_only_responses_request and
\* the requests that have nothing to convert
NothingToSend(body, mode) ==
    LET fields == {"input", "messages"} \cup (IF mode = "OpenAiResponses" THEN StateFields ELSE {})
    IN  fields \cap DOMAIN body = {}

PrepareResponsesBodyForMode(body, model, mode) ==
    IF mode = "OpenAiResponses" THEN EnsureResponsesInput(Put(body, "model", model))
    ELSE Joined([model |-> model, messages |-> ResponsesInputToMessages(body, Target(mode))],
                Copied(body, [stream |-> <<"stream">>,
                              max_tokens |-> <<"max_output_tokens", "max_tokens">>]))

--------------------------------------------------------------------------------
\* The model: the one of the route, that of the request, or the only one of the provider.
\* "" stands for a name that is blank.
UpstreamModelName(body, route, p) ==
    LET named == SelectSeq(<<route.model>> \o (IF "model" \in DOMAIN body THEN <<body.model>> ELSE <<>>)
                           \o (IF Len(p.models) = 1 THEN p.models ELSE <<>>),
                           LAMBDA name : name # "")
    IN  IF named = <<>> THEN "" ELSE Head(named)

\* Mutant: whatever a Responses client asks for can be translated.
StreamCompatibleWithCodex(inbound, mode) == inbound = mode \/ inbound = "OpenAiResponses"

\* A stream is passed on, or translated from Claude's protocol for a Responses client.
StreamCompatible(inbound, mode) ==
    \/ inbound = mode
    \/ inbound = "OpenAiResponses" /\ mode \in {"AnthropicMessages", "BasicPost"}

\* Mutant: OpenAI's protocols have one header and all the others another.
AuthHeaderByCompany(mode) ==
    IF mode \in {"OpenAiChat", "OpenAiResponses"} THEN "authorization" ELSE "x-api-key"

AuthHeader(mode) == IF mode = "AnthropicMessages" THEN "x-api-key" ELSE "authorization"

\* The messages of a body, wherever the conversion or a transformer has put them.
MessagesOf(body) ==
    IF "messages" \in DOMAIN body THEN body.messages
    ELSE IF "contents" \in DOMAIN body THEN body.contents
    ELSE IF "prompt" \in DOMAIN body THEN body.prompt
    ELSE IF "input" \in DOMAIN body /\ "items" \in DOMAIN body.input THEN body.input.items
    ELSE IF "input" \in DOMAIN body /\ "text" \in DOMAIN body.input
    THEN <<[role |-> "user", content |-> body.input]>>
    ELSE <<>>

ContentOf(message) ==
    IF "content" \in DOMAIN message THEN message.content
    ELSE IF "parts" \in DOMAIN message THEN message.parts
    ELSE Text(<<>>)

\* A conversion leaves its messages under one of two names.
HasRefused(body) ==
    LET converted == IF "messages" \in DOMAIN body THEN body.messages
                     ELSE IF "input" \in DOMAIN body /\ "items" \in DOMAIN body.input THEN body.input.items
                     ELSE <<>>
    IN  \E i \in DOMAIN converted :
            LET content == ContentOf(converted[i])
            IN  IsBlocks(content) /\ Contains(content.blocks, Refused)

NoRequest == [ok |-> FALSE]

BuildUpstreamRequest(inbound, route, p, body) ==
    LET mode     == Mode(ResolveProviderApiKind(p))
        model    == UpstreamModelName(body, route, p)
        prepared == IF inbound = "AnthropicMessages"
                    THEN PrepareAnthropicBodyForMode(body, model, mode)
                    ELSE PrepareResponsesBodyForMode(body, model, mode)
        upstream == ApplyChain(p.use, prepared)
    IN  IF \/ model = ""
           \/ inbound = "OpenAiResponses" /\ NothingToSend(body, mode)
           \/ HasRefused(prepared)
           \/ Asked(upstream) /\ ~StreamCompatible(inbound, mode)
           \/ p.credential # "found"
        THEN NoRequest
        ELSE [ok |-> TRUE, mode |-> mode, auth |-> AuthHeader(mode), body |-> upstream,
              stream |-> Asked(upstream)]

================================================================================
