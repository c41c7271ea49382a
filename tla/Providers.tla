-------------------------------- MODULE Providers --------------------------------
(***************************************************************************)
(* What a provider of the configuration speaks and what its transformers   *)
(* do to a request: provider_kind.rs of ccr-app-core, and ccr-transformer. *)
(*                                                                         *)
(* A JSON object is a function from the names of its fields to their       *)
(* values.  Content is Text(words), Blocks(blocks) or Odd; a field that is *)
(* there but null is Odd, "null" or Null.                                  *)
(***************************************************************************)
EXTENDS Naturals, Integers, SequencesExt

Null == -1

Text(words)    == [text |-> words]
Blocks(blocks) == [blocks |-> blocks]
Odd            == [odd |-> TRUE]

IsText(c)   == "text" \in DOMAIN c
IsBlocks(c) == "blocks" \in DOMAIN c

\* The fields of both objects; where both have one, that of the first.
Joined(object, other) ==
    [f \in DOMAIN object \cup DOMAIN other |-> IF f \in DOMAIN object THEN object[f] ELSE other[f]]

Put(object, field, value) == Joined([f \in {field} |-> value], object)
Drop(object, fields)      == Restrict(object, DOMAIN object \ fields)

\* One field of an object under another name, if it is there.
Renamed(object, from, to) ==
    IF from \in DOMAIN object THEN Put(Drop(object, {from}), to, object[from]) ELSE object

--------------------------------------------------------------------------------
(***************************************************************************)
(* The kind of a provider.  The configuration may say it; otherwise it     *)
(* follows from its transformers, whose names are compared in lower case   *)
(* here but not by the registry that applies them, and then from words in  *)
(* its name and URL.                                                       *)
(***************************************************************************)
Lowered == [DeepSeek |-> "deepseek"]
LowerCase(name) == IF name \in DOMAIN Lowered THEN Lowered[name] ELSE name

Brands == <<"openrouter", "deepseek", "groq", "vercel">>

BrandKind == [openrouter |-> "OpenRouter", deepseek |-> "DeepSeek",
              groq |-> "Groq", vercel |-> "Vercel"]

\* The kind of the first of the brands that is among the words, if any is.
Branded(words) ==
    LET i == SelectInSeq(Brands, LAMBDA b : b \in words)
    IN  IF i = 0 THEN <<>> ELSE <<BrandKind[Brands[i]]>>

KindOfUrl(words) ==
    IF "/responses" \in words THEN "OpenAiResponses"
    ELSE IF "/chat/completions" \in words THEN "OpenAiChat"
    ELSE IF words \cap {"/v1/messages", "/anthropic", "anthropic", "claude"} # {} THEN "AnthropicMessages"
    ELSE "Custom"

InferProviderApiKind(p) ==
    LET uses   == {LowerCase(n) : n \in ToSet(p.use)}
        openai == IF "/responses" \in p.words THEN "OpenAiResponses" ELSE "OpenAiChat"
        spoken == (IF "anthropic" \in uses THEN <<"AnthropicMessages">> ELSE <<>>)
                  \o (IF "openai" \in uses THEN <<openai>> ELSE <<>>)
    IN  Head(Branded(uses) \o spoken \o Branded(p.words) \o <<KindOfUrl(p.words)>>)

ResolveProviderApiKind(p) == IF p.api_kind = "none" THEN InferProviderApiKind(p) ELSE p.api_kind

\* endpoint_test_mode: the protocol that a kind speaks.
Mode(kind) ==
    CASE kind = "OpenAiResponses" -> "OpenAiResponses"
      [] kind \in {"AnthropicMessages", "AnthropicCompatible"} -> "AnthropicMessages"
      [] kind = "Custom" -> "BasicPost"
      [] OTHER -> "OpenAiChat"

--------------------------------------------------------------------------------
(***************************************************************************)
(* The transformers of the registry.                                       *)
(***************************************************************************)

\* The blocks of some types, in order.
Selected(blocks, types) ==
    FoldLeft(LAMBDA list, b : IF b.type \in types THEN Append(list, b) ELSE list, <<>>, blocks)

OfType(blocks, type) == Selected(blocks, {type})

\* The text of a system prompt: of several blocks, the first text.
TextFromSystem(system) ==
    IF IsText(system) THEN <<system.text>>
    ELSE IF IsBlocks(system)
    THEN LET texts == OfType(system.blocks, "text")
         IN  IF texts = <<>> THEN <<>> ELSE <<Head(texts).text>>
    ELSE <<>>

SystemText(body) == IF "system" \in DOMAIN body THEN TextFromSystem(body.system) ELSE <<>>

\* Mutant: of several blocks, the first is kept.
FlatContentOfAny(message) ==
    IF /\ "content" \in DOMAIN message /\ IsBlocks(message.content)
       /\ "text" \in DOMAIN message.content.blocks[1]
    THEN Put(message, "content", Text(message.content.blocks[1].text))
    ELSE message

\* A content of a single block that has a text becomes that text.
FlatContent(message) ==
    IF /\ "content" \in DOMAIN message /\ IsBlocks(message.content)
       /\ Len(message.content.blocks) = 1 /\ "text" \in DOMAIN message.content.blocks[1]
    THEN Put(message, "content", Text(message.content.blocks[1].text))
    ELSE message

\* The system prompt is taken out, and put in front of the messages if there are any.
OpenAi(body) ==
    LET system == [i \in DOMAIN SystemText(body) |->
                      [role |-> "system", content |-> Text(SystemText(body)[i])]]
        rest   == Drop(body, {"system", "thinking"})
    IN  IF "messages" \in DOMAIN body
        THEN Put(rest, "messages", system \o [i \in DOMAIN body.messages |-> FlatContent(body.messages[i])])
        ELSE rest

GeminiMessage(message) ==
    LET modelled == IF "role" \in DOMAIN message /\ message.role = "assistant"
                    THEN Put(message, "role", "model") ELSE message
        parts    == IF IsText(message.content)
                    THEN Blocks(<<[type |-> "part", text |-> message.content.text]>>)
                    ELSE message.content
    IN  IF "content" \in DOMAIN message
        THEN Put(Drop(modelled, {"content"}), "parts", parts)
        ELSE modelled

Gemini(body) ==
    LET system   == SystemText(body)
        rest     == Drop(body, {"system", "messages", "thinking", "max_tokens"})
        prompted == IF system = <<>> THEN rest ELSE Put(rest, "systemInstruction", Text(system[1]))
    IN  IF "messages" \in DOMAIN body
        THEN Put(prompted, "contents", [i \in DOMAIN body.messages |-> GeminiMessage(body.messages[i])])
        ELSE prompted

Capped(body, field, limit) ==
    IF field \in DOMAIN body /\ body[field] > limit THEN Put(body, field, limit) ELSE body

\* The tools are rewritten as functions; those that already are lose their names.
AsFunctions(tools) == IF tools = "claude" THEN "functions" ELSE "nameless"

Asked(body) == "stream" \in DOMAIN body /\ body.stream

Groq(body)     == Drop(OpenAi(body), {"thinking", "stream_options"})
Cerebras(body) == Drop(OpenAi(body), {"thinking", "tools", "stream_options"})

DeepSeek(body) == Capped(body, "max_tokens", 8192)
MaxToken(body) == Capped(body, "max_tokens", 4096)

MaxCompletionTokens(body) ==
    Capped(body, IF "max_completion_tokens" \in DOMAIN body THEN "max_completion_tokens" ELSE "max_tokens", 4096)

ToolUse(body) ==
    IF "tools" \in DOMAIN body /\ body.tools # "null"
    THEN Put(body, "tools", AsFunctions(body.tools)) ELSE body

Reasoning(body) == Drop(body, {"thinking"})

\* A null is there.
ForceReasoning(body) ==
    IF "thinking" \in DOMAIN body THEN body ELSE Put(body, "thinking", "enabled")

StreamOptions(body) == IF Asked(body) THEN Put(body, "stream_options", "include_usage") ELSE body

VertexClaude(body) == Drop(body, {"stream"})
VertexGemini(body) == Drop(Gemini(body), {"stream_options"})

Vercel(body) ==
    Renamed(Renamed(Drop(body, {"thinking"}), "messages", "prompt"), "max_tokens", "maxTokens")

\* The registry.  anthropic, cleancache and enhancetool leave all of this as it is, and
\* a name that is not in the registry is skipped.
TransformRequest(name, body) ==
    CASE name \in {"openai", "openrouter"} -> OpenAi(body)
      [] name = "groq"                -> Groq(body)
      [] name = "cerebras"            -> Cerebras(body)
      [] name = "deepseek"            -> DeepSeek(body)
      [] name = "maxtoken"            -> MaxToken(body)
      [] name = "maxcompletiontokens" -> MaxCompletionTokens(body)
      [] name = "gemini"              -> Gemini(body)
      [] name = "vertex-gemini"       -> VertexGemini(body)
      [] name = "tooluse"             -> ToolUse(body)
      [] name = "reasoning"           -> Reasoning(body)
      [] name = "forcereasoning"      -> ForceReasoning(body)
      [] name = "streamoptions"       -> StreamOptions(body)
      [] name = "vertex-claude"       -> VertexClaude(body)
      [] name = "vercel"              -> Vercel(body)
      [] OTHER                        -> body

ApplyChain(names, body) == FoldLeft(LAMBDA b, n : TransformRequest(n, b), body, names)

================================================================================
