---------------------------- MODULE ExchangeProofs ----------------------------
(***************************************************************************)
(* Proofs about the requests that the server sends, while conversations go *)
(* on and answers are streamed: for any providers with any transformers,   *)
(* any clients and conversations of any length.                            *)
(***************************************************************************)
EXTENDS Exchange, FiniteSetTheorems, WellFoundedInduction, TLAPS

--------------------------------------------------------------------------------
(***************************************************************************)
(* The protocol of the answer                                              *)
(***************************************************************************)
ProtocolInv ==
    /\ inbound \in Inbound
    /\ sent.ok \in BOOLEAN
    /\ StreamsAreUnderstood

LEMMA AskedIsUnderstood ==
    ASSUME ProtocolInv, NEW p, NEW body, NEW options, Ask(p, body, options)
    PROVE  ProtocolInv'
<1> DEFINE request == BuildUpstreamRequest(inbound, p.route, p, body)
<1>1. sent' = Outcome(request, p, options) /\ inbound' = inbound
    BY DEF Ask
<1>2. PICK mode, auth, upstream :
          \/ request = NoRequest
          \/ /\ request = [ok |-> TRUE, mode |-> mode, auth |-> auth, body |-> upstream,
                           stream |-> Asked(upstream)]
             /\ ~(Asked(upstream) /\ ~StreamCompatible(inbound, mode))
    BY DEF BuildUpstreamRequest
<1> HIDE DEF request
<1>3. CASE request = NoRequest
    BY <1>1, <1>3 DEF Outcome, NoRequest, ProtocolInv, StreamsAreUnderstood
<1>4. CASE /\ request = [ok |-> TRUE, mode |-> mode, auth |-> auth, body |-> upstream,
                         stream |-> Asked(upstream)]
           /\ ~(Asked(upstream) /\ ~StreamCompatible(inbound, mode))
  <2>1. sent' = Joined(request, [use |-> p.use, asked |-> Asked(options), answer |-> AnswerProtocol(request)])
    BY <1>1, <1>4 DEF Outcome
  <2>2. /\ sent'.ok = TRUE /\ sent'.stream = Asked(upstream)
        /\ sent'.answer = AnswerProtocol(request)
    BY <2>1, <1>4 DEF Joined
  <2>3. Asked(upstream) => AnswerProtocol(request) = inbound
    BY <1>4 DEF AnswerProtocol, StreamCompatible, ProtocolInv, Inbound
  <2> QED
    BY <2>2, <2>3, <1>1 DEF ProtocolInv, StreamsAreUnderstood
<1> QED
    BY <1>2, <1>3, <1>4

LEMMA ProtocolStep == ProtocolInv /\ [ExchangeNext]_<<vars, streamVars>> => ProtocolInv'
<1> SUFFICES ASSUME ProtocolInv, [ExchangeNext]_<<vars, streamVars>>
             PROVE  ProtocolInv'
    OBVIOUS
<1>1. CASE inbound' = inbound /\ sent' = NoRequest
    BY <1>1 DEF ProtocolInv, StreamsAreUnderstood, NoRequest
<1>2. CASE UserSays \/ ClientAnswers \/ ProviderSays \/ ProviderCalls \/ StreamBegins
    BY <1>1, <1>2 DEF UserSays, ClientAnswers, ProviderSays, ProviderCalls, Append1, StreamBegins
<1>3. CASE Messages
    BY <1>3, AskedIsUnderstood DEF Messages
<1>4. CASE Responses
    BY <1>4, AskedIsUnderstood DEF Responses
<1>5. CASE UNCHANGED vars
    BY <1>5 DEF vars, ProtocolInv, StreamsAreUnderstood
<1> QED
    BY <1>2, <1>3, <1>4, <1>5 DEF ExchangeNext, Next

\* A stream that a client gets is one of its own protocol
\* (validate_stream_compatibility and the handlers).
THEOREM StreamsUnderstood == ExchangeSpec => []StreamsAreUnderstood
<1>1. ExchangeInit => ProtocolInv
    BY DEF ExchangeInit, Init, ProtocolInv, StreamsAreUnderstood, NoRequest
<1>2. ProtocolInv => StreamsAreUnderstood
    BY DEF ProtocolInv
<1> QED
    BY <1>1, <1>2, ProtocolStep, PTL DEF ExchangeSpec

--------------------------------------------------------------------------------
(***************************************************************************)
(* Induction up to a number, for a set: what is in the set from 0 on.      *)
(***************************************************************************)
Less == {ss \in Nat \X Nat : ss[1] < ss[2]}

LEMMA LessIsWellFounded == IsWellFoundedOn(Less, Nat)
    BY NatLessThanWellFounded DEF OpToRel, Less

LEMMA InductionUpTo ==
    ASSUME NEW N \in Nat, NEW T, 0 \in T, \A n \in 0..N : n \in T /\ n < N => n + 1 \in T
    PROVE  \A n \in 0..N : n \in T
<1> DEFINE C == {n \in 0..N : n \notin T}
<1> SUFFICES ASSUME C # {} PROVE FALSE
    OBVIOUS
<1>1. PICK n \in C : \A m \in C : ~ (<<m, n>> \in Less)
  <2>1. C \subseteq Nat
    OBVIOUS
  <2> HIDE DEF C
  <2> QED
    BY <2>1, WFMin, LessIsWellFounded
<1>2. n \in Nat /\ n # 0 /\ n - 1 \in 0..N /\ n - 1 < N /\ n - 1 + 1 = n
    OBVIOUS
<1>3. n - 1 \in C
    BY <1>2
<1>4. <<n - 1, n>> \in Less
    BY <1>2 DEF Less
<1> QED
    BY <1>1, <1>3, <1>4

--------------------------------------------------------------------------------
(***************************************************************************)
(* A chain of transformers is applied from its first to its last.          *)
(***************************************************************************)
ChainUpTo(g, names, body, n) ==
    g = [s \in SUBSET (1..n) |->
            IF s = {} THEN body ELSE TransformRequest(names[Max(s)], g[s \ {Max(s)}])]

LEMMA ChainDef ==
    ASSUME NEW names \in Seq(STRING), NEW body
    PROVE  ApplyChain(names, body) = (CHOOSE g : ChainUpTo(g, names, body, Len(names)))[1..Len(names)]
<1>1. DOMAIN names = 1..Len(names)
    OBVIOUS
<1> QED
    BY <1>1 DEF ApplyChain, FoldLeft, MapThenFoldSet, ChainUpTo

LEMMA LastOfSome ==
    ASSUME NEW n \in Nat, NEW s \in SUBSET (1..(n + 1)), n + 1 \in s
    PROVE  Max(s) = n + 1
<1>1. \A x \in s : x \in Nat /\ n + 1 >= x
    OBVIOUS
<1>2. \A x \in s : (\A y \in s : x >= y) => x = n + 1
    BY <1>1
<1> QED
    BY <1>1, <1>2 DEF Max

LEMMA ChainExists ==
    ASSUME NEW names, NEW body, NEW N \in Nat
    PROVE  \E g : ChainUpTo(g, names, body, N)
<1> DEFINE T == {n \in 0..N : \E g : ChainUpTo(g, names, body, n)}
<1>1. 0 \in T
  <2>1. ChainUpTo([s \in SUBSET (1..0) |-> body], names, body, 0)
    <3>1. \A s \in SUBSET (1..0) : s = {}
        OBVIOUS
    <3> QED
        BY <3>1 DEF ChainUpTo
  <2> QED
    BY <2>1
<1>2. ASSUME NEW n \in 0..N, n \in T, n < N
      PROVE  n + 1 \in T
  <2>1. PICK g : ChainUpTo(g, names, body, n)
    BY <1>2
  <2> DEFINE h == [s \in SUBSET (1..(n + 1)) |->
                      IF n + 1 \in s THEN TransformRequest(names[n + 1], g[s \ {n + 1}]) ELSE g[s]]
  <2>2. ASSUME NEW s \in SUBSET (1..(n + 1))
        PROVE  h[s] = IF s = {} THEN body ELSE TransformRequest(names[Max(s)], h[s \ {Max(s)}])
    <3>1. CASE n + 1 \in s
      <4>1. Max(s) = n + 1
        BY <3>1, LastOfSome
      <4>2. s \ {n + 1} \in SUBSET (1..(n + 1)) /\ n + 1 \notin s \ {n + 1} /\ s # {}
        BY <3>1
      <4>3. h[s \ {n + 1}] = g[s \ {n + 1}]
        BY <4>2
      <4> QED
        BY <3>1, <4>1, <4>2, <4>3
    <3>2. CASE n + 1 \notin s
      <4>1. s \in SUBSET (1..n)
        BY <3>2
      <4>2. h[s] = g[s]
        BY <3>2
      <4>3. g[s] = IF s = {} THEN body ELSE TransformRequest(names[Max(s)], g[s \ {Max(s)}])
        BY <4>1, <2>1 DEF ChainUpTo
      <4>4. h[s \ {Max(s)}] = g[s \ {Max(s)}]
        <5>1. s \ {Max(s)} \in SUBSET (1..(n + 1)) /\ n + 1 \notin s \ {Max(s)}
          BY <3>2
        <5> QED
          BY <5>1
      <4> QED
        BY <4>2, <4>3, <4>4
    <3> QED
      BY <3>1, <3>2
  <2>3. ChainUpTo(h, names, body, n + 1)
    <3>1. DOMAIN h = SUBSET (1..(n + 1))
        OBVIOUS
    <3> HIDE DEF h
    <3>2. \A s \in SUBSET (1..(n + 1)) :
             h[s] = IF s = {} THEN body ELSE TransformRequest(names[Max(s)], h[s \ {Max(s)}])
        BY <2>2
    <3>3. h = [s \in SUBSET (1..(n + 1)) |-> h[s]]
        BY <3>1 DEF h
    <3> QED
        BY <3>2, <3>3 DEF ChainUpTo
  <2> HIDE DEF h
  <2>4. n + 1 \in 0..N
    BY <1>2
  <2> QED
    BY <2>3, <2>4
<1>3. \A n \in 0..N : n \in T /\ n < N => n + 1 \in T
    BY <1>2
<1> HIDE DEF T
<1>4. N \in T
    BY <1>1, <1>3, InductionUpTo
<1> QED
    BY <1>4 DEF T

LEMMA ChainSteps ==
    ASSUME NEW names \in Seq(STRING), NEW body
    PROVE  \E after :
              /\ after[0] = body
              /\ \A k \in 1..Len(names) : after[k] = TransformRequest(names[k], after[k - 1])
              /\ ApplyChain(names, body) = after[Len(names)]
<1> DEFINE N == Len(names)
           g == CHOOSE f : ChainUpTo(f, names, body, N)
<1>1. N \in Nat
    OBVIOUS
<1>2. ChainUpTo(g, names, body, N)
    BY <1>1, ChainExists
<1>3. ApplyChain(names, body) = g[1..N]
    BY ChainDef
<1> HIDE DEF g, N
<1> DEFINE after == [k \in 0..N |-> g[1..k]]
<1>4. g[{}] = body
    BY <1>2 DEF ChainUpTo
<1>5. ASSUME NEW k \in 1..N
      PROVE  g[1..k] = TransformRequest(names[k], g[1..(k - 1)])
  <2>1. k \in Nat /\ k - 1 \in Nat /\ k - 1 + 1 = k /\ 1..k \in SUBSET (1..N) /\ k \in 1..k
    BY <1>1
  <2>2. Max(1..k) = k
    BY <2>1, LastOfSome
  <2>3. (1..k) \ {k} = 1..(k - 1)
    BY <2>1
  <2> QED
    BY <1>2, <2>1, <2>2, <2>3 DEF ChainUpTo
<1>6. after[0] = body
  <2>1. 1..0 = {}
    OBVIOUS
  <2> QED
    BY <1>1, <1>4, <2>1
<1>7. \A k \in 1..N : after[k] = TransformRequest(names[k], after[k - 1])
    BY <1>1, <1>5
<1>8. ApplyChain(names, body) = after[N]
    BY <1>1, <1>3
<1> HIDE DEF after
<1> QED
    BY <1>6, <1>7, <1>8 DEF N

--------------------------------------------------------------------------------
(***************************************************************************)
(* Whether a stream is asked for is left as it is by all transformers but  *)
(* one.                                                                    *)
(***************************************************************************)
LEMMA PutKeeps ==
    ASSUME NEW b, NEW f, NEW v, f # "stream"
    PROVE  Asked(Put(b, f, v)) <=> Asked(b)
    BY DEF Asked, Put, Joined

LEMMA DropKeeps ==
    ASSUME NEW b, NEW fields, "stream" \notin fields
    PROVE  Asked(Drop(b, fields)) <=> Asked(b)
    BY DEF Asked, Drop, Restrict

LEMMA CappedKeeps ==
    ASSUME NEW b, NEW f, NEW limit, f # "stream"
    PROVE  Asked(Capped(b, f, limit)) <=> Asked(b)
    BY PutKeeps DEF Capped

LEMMA RenamedKeeps ==
    ASSUME NEW b, NEW from, NEW to, from # "stream", to # "stream"
    PROVE  Asked(Renamed(b, from, to)) <=> Asked(b)
    BY PutKeeps, DropKeeps DEF Renamed

LEMMA OpenAiKeeps ==
    ASSUME NEW b
    PROVE  Asked(OpenAi(b)) <=> Asked(b)
    BY PutKeeps, DropKeeps DEF OpenAi

LEMMA GeminiKeeps ==
    ASSUME NEW b
    PROVE  Asked(Gemini(b)) <=> Asked(b)
    BY PutKeeps, DropKeeps DEF Gemini

LEMMA TransformerKeeps ==
    ASSUME NEW name, NEW b
    PROVE  Asked(TransformRequest(name, b)) <=> Asked(b) /\ name # "vertex-claude"
<1>1. Asked(Groq(b)) <=> Asked(b)
    BY OpenAiKeeps, DropKeeps DEF Groq
<1>2. Asked(Cerebras(b)) <=> Asked(b)
    BY OpenAiKeeps, DropKeeps DEF Cerebras
<1>3. Asked(DeepSeek(b)) <=> Asked(b)
    BY CappedKeeps DEF DeepSeek
<1>4. Asked(MaxToken(b)) <=> Asked(b)
    BY CappedKeeps DEF MaxToken
<1>5. Asked(MaxCompletionTokens(b)) <=> Asked(b)
    BY CappedKeeps DEF MaxCompletionTokens
<1>6. Asked(VertexGemini(b)) <=> Asked(b)
    BY GeminiKeeps, DropKeeps DEF VertexGemini
<1>7. Asked(ToolUse(b)) <=> Asked(b)
    BY PutKeeps DEF ToolUse
<1>8. Asked(Reasoning(b)) <=> Asked(b)
    BY DropKeeps DEF Reasoning
<1>9. Asked(ForceReasoning(b)) <=> Asked(b)
    BY PutKeeps DEF ForceReasoning
<1>10. Asked(StreamOptions(b)) <=> Asked(b)
    BY PutKeeps DEF StreamOptions
<1>11. ~Asked(VertexClaude(b))
    BY DEF VertexClaude, Asked, Drop, Restrict
<1>12. Asked(Vercel(b)) <=> Asked(b)
    BY DropKeeps, RenamedKeeps DEF Vercel
<1> QED
    BY <1>1, <1>2, <1>3, <1>4, <1>5, <1>6, <1>7, <1>8, <1>9, <1>10, <1>11, <1>12,
       OpenAiKeeps, GeminiKeeps DEF TransformRequest

LEMMA ChainKeeps ==
    ASSUME NEW names \in Seq(STRING), NEW body
    PROVE  Asked(ApplyChain(names, body)) <=> Asked(body) /\ ~Contains(names, "vertex-claude")
<1>1. PICK after :
         /\ after[0] = body
         /\ \A k \in 1..Len(names) : after[k] = TransformRequest(names[k], after[k - 1])
         /\ ApplyChain(names, body) = after[Len(names)]
    BY ChainSteps
<1> DEFINE N == Len(names)
           T == {k \in 0..N : Asked(after[k]) <=>
                    Asked(body) /\ \A i \in 1..k : names[i] # "vertex-claude"}
<1>2. N \in Nat
    OBVIOUS
<1>3. 0 \in T
    BY <1>1, <1>2
<1>4. ASSUME NEW k \in 0..N, k \in T, k < N
      PROVE  k + 1 \in T
  <2>1. k + 1 \in 1..N /\ k + 1 - 1 = k /\ k + 1 \in 0..N
    BY <1>2, <1>4
  <2>2. Asked(after[k + 1]) <=> Asked(after[k]) /\ names[k + 1] # "vertex-claude"
    BY <1>1, <2>1, TransformerKeeps
  <2>3. \A i \in 1..(k + 1) : i \in 1..k \/ i = k + 1
    BY <2>1
  <2>4. \A i \in 1..k : i \in 1..(k + 1)
    BY <2>1
  <2> QED
    BY <1>4, <2>1, <2>2, <2>3, <2>4
<1>5. \A k \in 0..N : k \in T /\ k < N => k + 1 \in T
    BY <1>4
<1> HIDE DEF T, N
<1>6. N \in T
  <2>1. \A k \in 0..N : k \in T
    BY <1>2, <1>3, <1>5, InductionUpTo
  <2> QED
    BY <1>2, <2>1
<1>7. Asked(after[N]) <=> Asked(body) /\ \A i \in 1..N : names[i] # "vertex-claude"
    BY <1>6 DEF T
<1>8. Contains(names, "vertex-claude") <=> \E i \in 1..N : names[i] = "vertex-claude"
    BY DEF Contains, N
<1> QED
    BY <1>1, <1>7, <1>8 DEF N

--------------------------------------------------------------------------------
(***************************************************************************)
(* And by the preparation of the body for the protocol of the provider.    *)
(***************************************************************************)
LEMMA JoinedKeeps ==
    ASSUME NEW a, NEW b, "stream" \notin DOMAIN a
    PROVE  Asked(Joined(a, b)) <=> Asked(b)
    BY DEF Asked, Joined

LEMMA CopiedKeeps ==
    ASSUME NEW body, NEW groups, "stream" \in DOMAIN groups, groups["stream"] = <<"stream">>
    PROVE  Asked(Copied(body, groups)) <=> Asked(body)
<1> DEFINE there  == {i \in 1..Len(groups["stream"]) : groups["stream"][i] \in DOMAIN body}
           first(g) == SelectInSeq(groups[g], LAMBDA f : f \in DOMAIN body)
<1>1. first("stream") = IF "stream" \in DOMAIN body THEN 1 ELSE 0
  <2>1. Len(groups["stream"]) = 1 /\ groups["stream"][1] = "stream"
    OBVIOUS
  <2>2. there = IF "stream" \in DOMAIN body THEN {1} ELSE {}
    BY <2>1
  <2>3. Min({1}) = 1
    BY DEF Min
  <2> QED
    BY <2>2, <2>3 DEF SelectInSeq
<1>2. Copied(body, groups) = [g \in {h \in DOMAIN groups : first(h) # 0} |-> body[groups[g][first(g)]]]
    BY DEF Copied
<1> HIDE DEF first
<1>3. "stream" \in DOMAIN Copied(body, groups) <=> "stream" \in DOMAIN body
    BY <1>1, <1>2
<1>4. "stream" \in DOMAIN body => Copied(body, groups)["stream"] = body["stream"]
  <2>1. groups["stream"][1] = "stream"
    OBVIOUS
  <2> QED
    BY <1>1, <1>2, <2>1
<1> QED
    BY <1>3, <1>4 DEF Asked

LEMMA CommonFieldsKeep ==
    ASSUME NEW body, NEW mode
    PROVE  Asked(CopyCommonRequestFields(body, mode)) <=> Asked(body)
<1> DEFINE responses == [stream |-> <<"stream">>, reasoning |-> <<"reasoning">>,
                         max_output_tokens |-> <<"max_output_tokens", "max_tokens">>]
           others    == [stream |-> <<"stream">>, max_tokens |-> <<"max_tokens", "max_output_tokens">>]
<1>1. /\ "stream" \in DOMAIN responses /\ responses["stream"] = <<"stream">>
      /\ "stream" \in DOMAIN others /\ others["stream"] = <<"stream">>
    OBVIOUS
<1>2. CopyCommonRequestFields(body, mode) =
          Copied(body, IF mode = "OpenAiResponses" THEN responses ELSE others)
    BY DEF CopyCommonRequestFields
<1> HIDE DEF responses, others
<1> QED
    BY <1>1, <1>2, CopiedKeeps

LEMMA PreparedForClaudeKeeps ==
    ASSUME NEW body, NEW model, NEW mode
    PROVE  Asked(PrepareAnthropicBodyForMode(body, model, mode)) <=> Asked(body)
<1>1. ASSUME NEW a, NEW b
      PROVE  Asked(Joined([model |-> a, messages |-> b], CopyCommonRequestFields(body, "OpenAiChat")))
             <=> Asked(body)
  <2>1. "stream" \notin DOMAIN [model |-> a, messages |-> b]
    OBVIOUS
  <2> QED
    BY <2>1, JoinedKeeps, CommonFieldsKeep
<1>2. ASSUME NEW a, NEW b
      PROVE  Asked(Joined([model |-> a, input |-> b], CopyCommonRequestFields(body, "OpenAiResponses")))
             <=> Asked(body)
  <2>1. "stream" \notin DOMAIN [model |-> a, input |-> b]
    OBVIOUS
  <2> QED
    BY <2>1, JoinedKeeps, CommonFieldsKeep
<1>3. Asked(AnthropicBodyToOpenAiChat(body, model)) <=> Asked(body)
    BY <1>1 DEF AnthropicBodyToOpenAiChat
<1>4. Asked(AnthropicBodyToOpenAiResponses(body, model)) <=> Asked(body)
    BY <1>2 DEF AnthropicBodyToOpenAiResponses
<1>5. Asked(Put(Put(body, "model", model), "messages", NormalizeMessages(body.messages, "anthropic")))
      <=> Asked(body)
    BY PutKeeps
<1> QED
    BY <1>3, <1>4, <1>5 DEF PrepareAnthropicBodyForMode

LEMMA PreparedForCodexKeeps ==
    ASSUME NEW body, NEW model, NEW mode
    PROVE  Asked(PrepareResponsesBodyForMode(body, model, mode)) <=> Asked(body)
<1>1. Asked(EnsureResponsesInput(Put(body, "model", model))) <=> Asked(body)
    BY PutKeeps, DropKeeps DEF EnsureResponsesInput
<1> DEFINE groups == [stream |-> <<"stream">>, max_tokens |-> <<"max_output_tokens", "max_tokens">>]
           fields(m) == [model |-> model, messages |-> m]
<1>2. "stream" \in DOMAIN groups /\ groups["stream"] = <<"stream">>
    OBVIOUS
<1>3. ASSUME NEW m
      PROVE  "stream" \notin DOMAIN fields(m)
    OBVIOUS
<1>4. PrepareResponsesBodyForMode(body, model, mode) =
         IF mode = "OpenAiResponses" THEN EnsureResponsesInput(Put(body, "model", model))
         ELSE Joined(fields(ResponsesInputToMessages(body, Target(mode))), Copied(body, groups))
    BY DEF PrepareResponsesBodyForMode
<1> HIDE DEF groups, fields
<1>5. Asked(Joined(fields(ResponsesInputToMessages(body, Target(mode))), Copied(body, groups))) <=> Asked(body)
    BY <1>2, <1>3, JoinedKeeps, CopiedKeeps
<1> QED
    BY <1>1, <1>4, <1>5

LEMMA ModifiedKeeps ==
    ASSUME NEW body
    PROVE  Asked(ModifyRequest(body)) <=> Asked(body)
<1>1. ASSUME NEW messages2, NEW system2
      PROVE  Asked([body EXCEPT !.messages = messages2, !.system = system2, !.tools = "claude"]) <=> Asked(body)
    BY DEF Asked
<1> QED
    BY <1>1 DEF ModifyRequest

LEMMA BodiesKeep ==
    ASSUME NEW options
    PROVE  /\ Asked(ClaudeBody(options)) <=> Asked(options)
           /\ Asked(CodexBody(options)) <=> Asked(options)
    BY PutKeeps, DropKeeps DEF ClaudeBody, CodexBody

AsAskedInv == sent.ok \in BOOLEAN /\ StreamsAsAsked

LEMMA AskedIsSent ==
    ASSUME NEW p \in Providers, NEW body, NEW options,
           Asked(body) <=> Asked(options), Ask(p, body, options)
    PROVE  AsAskedInv'
<1> DEFINE request == BuildUpstreamRequest(inbound, p.route, p, body)
<1>1. sent' = Outcome(request, p, options)
    BY DEF Ask
<1>2. PICK mode, auth, prepared :
          /\ \/ request = NoRequest
             \/ request = [ok |-> TRUE, mode |-> mode, auth |-> auth,
                           body |-> ApplyChain(p.use, prepared), stream |-> Asked(ApplyChain(p.use, prepared))]
          /\ Asked(prepared) <=> Asked(body)
  <2> DEFINE m        == Mode(ResolveProviderApiKind(p))
             model    == UpstreamModelName(body, p.route, p)
             prepared == IF inbound = "AnthropicMessages"
                         THEN PrepareAnthropicBodyForMode(body, model, m)
                         ELSE PrepareResponsesBodyForMode(body, model, m)
  <2>1. Asked(prepared) <=> Asked(body)
    BY PreparedForClaudeKeeps, PreparedForCodexKeeps
  <2>2. \/ request = NoRequest
        \/ request = [ok |-> TRUE, mode |-> m, auth |-> AuthHeader(m),
                      body |-> ApplyChain(p.use, prepared), stream |-> Asked(ApplyChain(p.use, prepared))]
    BY DEF BuildUpstreamRequest
  <2> QED
    BY <2>1, <2>2
<1>3. Asked(ApplyChain(p.use, prepared)) <=> Asked(options) /\ ~Contains(p.use, "vertex-claude")
    BY <1>2, ChainKeeps, GatewayAssumption
<1> HIDE DEF request
<1>4. CASE request = NoRequest
    BY <1>1, <1>4 DEF Outcome, NoRequest, AsAskedInv, StreamsAsAsked
<1>5. CASE request = [ok |-> TRUE, mode |-> mode, auth |-> auth, body |-> ApplyChain(p.use, prepared),
                      stream |-> Asked(ApplyChain(p.use, prepared))]
  <2>1. sent' = Joined(request, [use |-> p.use, asked |-> Asked(options), answer |-> AnswerProtocol(request)])
    BY <1>1, <1>5 DEF Outcome
  <2>2. /\ sent'.ok = TRUE /\ sent'.stream = Asked(ApplyChain(p.use, prepared))
        /\ sent'.asked = Asked(options) /\ sent'.use = p.use
    BY <2>1, <1>5 DEF Joined
  <2>3. Asked(ApplyChain(p.use, prepared)) \in BOOLEAN
    BY DEF Asked
  <2> QED
    BY <2>2, <2>3, <1>3 DEF AsAskedInv, StreamsAsAsked
<1> QED
    BY <1>2, <1>4, <1>5

LEMMA AsAskedStep == AsAskedInv /\ [ExchangeNext]_<<vars, streamVars>> => AsAskedInv'
<1> SUFFICES ASSUME AsAskedInv, [ExchangeNext]_<<vars, streamVars>>
             PROVE  AsAskedInv'
    OBVIOUS
<1>1. CASE sent' = NoRequest
    BY <1>1 DEF AsAskedInv, StreamsAsAsked, NoRequest
<1>2. CASE UserSays \/ ClientAnswers \/ ProviderSays \/ ProviderCalls \/ StreamBegins
    BY <1>1, <1>2 DEF UserSays, ClientAnswers, ProviderSays, ProviderCalls, StreamBegins
<1>3. CASE Messages
  <2>1. PICK p \in Providers, options \in ClaudeOptions :
           LET body == ClaudeBody(options)
           IN  Ask(p, IF AgentHandles(body) THEN ModifyRequest(body) ELSE body, options)
    BY <1>3 DEF Messages
  <2> QED
    BY <2>1, ModifiedKeeps, BodiesKeep, AskedIsSent
<1>4. CASE Responses
  <2>1. PICK p \in Providers, options \in CodexOptions : Ask(p, CodexBody(options), options)
    BY <1>4 DEF Responses
  <2> QED
    BY <2>1, BodiesKeep, AskedIsSent
<1>5. CASE UNCHANGED vars
    BY <1>5 DEF vars, AsAskedInv, StreamsAsAsked
<1> QED
    BY <1>2, <1>3, <1>4, <1>5 DEF ExchangeNext, Next

\* A client gets a stream exactly when it asked for one, whatever the transformers but for
\* vertex-claude (build_upstream_request).
THEOREM StreamsComeAsAsked == ExchangeSpec => []StreamsAsAsked
<1>1. ExchangeInit => AsAskedInv
    BY DEF ExchangeInit, Init, AsAskedInv, StreamsAsAsked, NoRequest
<1>2. AsAskedInv => StreamsAsAsked
    BY DEF AsAskedInv
<1> QED
    BY <1>1, <1>2, AsAskedStep, PTL DEF ExchangeSpec

--------------------------------------------------------------------------------
(***************************************************************************)
(* A list is what it takes for the provers to see that something is a      *)
(* sequence, of whatever it is: the messages have no set to be taken from. *)
(***************************************************************************)
Listed(s) == Len(s) \in Nat /\ DOMAIN s = 1..Len(s) /\ s \in Seq({s[i] : i \in DOMAIN s})

LEMMA MadeList ==
    ASSUME NEW n \in Nat, NEW s, s = [i \in 1..n |-> s[i]]
    PROVE  Listed(s) /\ Len(s) = n
<1> DEFINE S == {s[i] : i \in 1..n}
<1>1. DOMAIN s = 1..n
    OBVIOUS
<1>2. s \in [1..n -> S]
    OBVIOUS
<1> HIDE DEF S
<1>3. s \in Seq(S) /\ Len(s) = n
    BY <1>2
<1> QED
    BY <1>1, <1>3 DEF Listed, S

LEMMA SequenceIsList ==
    ASSUME NEW S, NEW s \in Seq(S)
    PROVE  Listed(s)
<1>1. Len(s) \in Nat /\ s = [i \in 1..Len(s) |-> s[i]]
    OBVIOUS
<1> QED
    BY <1>1, MadeList

LEMMA MappedList ==
    ASSUME NEW s, Listed(s), NEW t, DOMAIN t = DOMAIN s, t = [i \in DOMAIN s |-> t[i]]
    PROVE  Listed(t) /\ Len(t) = Len(s)
    BY MadeList DEF Listed

LEMMA JoinedLists ==
    ASSUME NEW s, NEW t, Listed(s), Listed(t)
    PROVE  /\ Listed(s \o t)
           /\ \A i \in DOMAIN (s \o t) :
                 \/ \E j \in DOMAIN s : (s \o t)[i] = s[j]
                 \/ \E j \in DOMAIN t : (s \o t)[i] = t[j]
<1> DEFINE S == {s[i] : i \in DOMAIN s} \cup {t[i] : i \in DOMAIN t}
<1>1. s \in Seq(S) /\ t \in Seq(S)
  <2>1. s \in [1..Len(s) -> S] /\ t \in [1..Len(t) -> S] /\ Len(s) \in Nat /\ Len(t) \in Nat
    BY DEF Listed
  <2> QED
    BY <2>1
<1> HIDE DEF S
<1>2. s \o t \in Seq(S)
    BY <1>1
<1>3. Listed(s \o t)
    BY <1>2, SequenceIsList
<1>4. ASSUME NEW i \in DOMAIN (s \o t)
      PROVE  \/ \E j \in DOMAIN s : (s \o t)[i] = s[j]
             \/ \E j \in DOMAIN t : (s \o t)[i] = t[j]
  <2>1. i \in 1..(Len(s) + Len(t)) /\ Len(s) \in Nat /\ Len(t) \in Nat
    BY <1>1, <1>2
  <2>2. CASE i <= Len(s)
    BY <1>1, <2>1, <2>2
  <2>3. CASE i > Len(s)
    <3>1. i - Len(s) \in DOMAIN t /\ (s \o t)[i] = t[i - Len(s)]
      BY <1>1, <2>1, <2>3
    <3> QED
      BY <3>1
  <2> QED
    BY <2>1, <2>2, <2>3
<1> QED
    BY <1>3, <1>4

LEMMA AppendedList ==
    ASSUME NEW s, NEW x, Listed(s)
    PROVE  /\ Listed(Append(s, x))
           /\ \A i \in DOMAIN Append(s, x) : Append(s, x)[i] = x \/ \E j \in DOMAIN s : Append(s, x)[i] = s[j]
<1> DEFINE S == {s[i] : i \in DOMAIN s} \cup {x}
<1>1. s \in Seq(S)
  <2>1. s \in [1..Len(s) -> S] /\ Len(s) \in Nat
    BY DEF Listed
  <2> QED
    BY <2>1
<1>2. x \in S
    OBVIOUS
<1> HIDE DEF S
<1>3. Append(s, x) \in Seq(S)
    BY <1>1, <1>2
<1>4. Listed(Append(s, x))
    BY <1>3, SequenceIsList
<1>5. ASSUME NEW i \in DOMAIN Append(s, x)
      PROVE  Append(s, x)[i] = x \/ (i \in DOMAIN s /\ Append(s, x)[i] = s[i])
  <2>1. Len(s) \in Nat /\ DOMAIN s = 1..Len(s) /\ Append(s, x) = s \o <<x>> /\ <<x>> \in Seq(S)
    BY <1>1, <1>2
  <2>4. i \in 1..(Len(s) + 1)
    BY <1>1, <1>2
  <2>2. CASE i = Len(s) + 1
    BY <1>1, <2>1, <2>2
  <2>3. CASE i \in 1..Len(s)
    BY <1>1, <2>1, <2>3
  <2> QED
    BY <2>1, <2>2, <2>3, <2>4
<1> QED
    BY <1>4, <1>5

LEMMA AppendedParts ==
    ASSUME NEW s, NEW x, Listed(s)
    PROVE  /\ Len(Append(s, x)) = Len(s) + 1
           /\ Append(s, x)[Len(s) + 1] = x
           /\ \A i \in 1..Len(s) : Append(s, x)[i] = s[i]
<1> DEFINE S == {s[i] : i \in DOMAIN s} \cup {x}
<1>1. s \in Seq(S)
  <2>1. s \in [1..Len(s) -> S] /\ Len(s) \in Nat
    BY DEF Listed
  <2> QED
    BY <2>1
<1>2. x \in S
    OBVIOUS
<1> HIDE DEF S
<1> QED
    BY <1>1, <1>2

--------------------------------------------------------------------------------
(***************************************************************************)
(* What a conversation is made of: the contents are texts or lists of      *)
(* blocks, of which only those of text have a text, and every message of   *)
(* Claude Code has a content.                                              *)
(***************************************************************************)
TextTypes == {"text", "input_text", "output_text"}

BlockOK(b) == "text" \in DOMAIN b => b.type \in TextTypes

BlocksOK(bs) == Listed(bs) /\ \A i \in DOMAIN bs : BlockOK(bs[i])

MessageOK(m, claude) ==
    /\ "content" \in DOMAIN m =>
          \/ IsText(m.content) /\ ~IsBlocks(m.content)
          \/ IsBlocks(m.content) /\ BlocksOK(m.content.blocks)
    /\ "content" \notin DOMAIN m => ~claude /\ "parts" \notin DOMAIN m

MessagesOK(list, claude) == Listed(list) /\ \A i \in DOMAIN list : MessageOK(list[i], claude)

ToldType == DOMAIN told = {"words", "pictures", "calls", "firsts", "pending"} /\ Listed(told.pending)

ConversationInv == MessagesOK(messages, Claude) /\ ToldType

LEMMA BlocksOfClients ==
    ASSUME NEW role, NEW word, NEW n
    PROVE  BlockOK(TextBlock(role, word)) /\ BlockOK(PictureBlock(n)) /\ BlockOK(Attachment)
<1>1. BlockOK(TextBlock(role, word))
    BY DEF BlockOK, TextBlock, TextTypes
<1>2. BlockOK(PictureBlock(n))
    BY DEF BlockOK, PictureBlock
<1>3. BlockOK(Attachment)
    BY DEF BlockOK, Attachment
<1> QED
    BY <1>1, <1>2, <1>3

LEMMA FewBlocks ==
    ASSUME NEW a, NEW b, BlockOK(a), BlockOK(b)
    PROVE  BlocksOK(<<a>>) /\ BlocksOK(<<a, b>>)
<1>1. Listed(<<a>>)
    BY SequenceIsList, <<a>> \in Seq({a})
<1>2. Listed(<<a, b>>)
    BY SequenceIsList, <<a, b>> \in Seq({a, b})
<1> QED
    BY <1>1, <1>2 DEF BlocksOK

LEMMA SaidIsOK ==
    ASSUME NEW role, NEW words, NEW bs, NEW claude
    PROVE  /\ MessageOK(Said(role, Text(words)), claude)
           /\ BlocksOK(bs) => MessageOK(Said(role, Blocks(bs)), claude)
<1>1. "content" \in DOMAIN Said(role, Text(words)) /\ Said(role, Text(words)).content = Text(words)
    BY DEF Said
<1>2. "content" \in DOMAIN Said(role, Blocks(bs)) /\ Said(role, Blocks(bs)).content = Blocks(bs)
    BY DEF Said
<1>3. IsText(Text(words)) /\ ~IsBlocks(Text(words)) /\ IsBlocks(Blocks(bs)) /\ Blocks(bs).blocks = bs
    BY DEF Text, Blocks, IsText, IsBlocks
<1>4. MessageOK(Said(role, Text(words)), claude)
    BY <1>1, <1>3 DEF MessageOK
<1>5. BlocksOK(bs) => MessageOK(Said(role, Blocks(bs)), claude)
    BY <1>2, <1>3 DEF MessageOK
<1> QED
    BY <1>4, <1>5

LEMMA AppendedIsOK ==
    ASSUME NEW list, NEW m, NEW claude, MessagesOK(list, claude), MessageOK(m, claude)
    PROVE  MessagesOK(Append(list, m), claude)
    BY AppendedList DEF MessagesOK

LEMMA JoinedIsOK ==
    ASSUME NEW s, NEW t, NEW claude, MessagesOK(s, claude), MessagesOK(t, claude)
    PROVE  MessagesOK(s \o t, claude)
    BY JoinedLists DEF MessagesOK

LEMMA ConversationStep ==
    ConversationInv /\ [ExchangeNext]_<<vars, streamVars>> => ConversationInv'
<1> SUFFICES ASSUME ConversationInv, [ExchangeNext]_<<vars, streamVars>>
             PROVE  ConversationInv'
    OBVIOUS
<1>0. MessagesOK(messages, Claude) /\ DOMAIN told = {"words", "pictures", "calls", "firsts", "pending"} /\ Listed(told.pending)
    BY DEF ConversationInv, ToldType
<1>1. ASSUME NEW m, MessageOK(m, Claude), messages' = Append(messages, m), inbound' = inbound, ToldType'
      PROVE  ConversationInv'
  <2>1. MessagesOK(Append(messages, m), Claude)
    BY <1>0, <1>1, AppendedIsOK
  <2>2. Claude' = Claude
    BY <1>1 DEF Claude
  <2> QED
    BY <1>1, <2>1, <2>2 DEF ConversationInv
<1>2. ASSUME NEW list, MessagesOK(list, Claude), messages' = messages \o list, inbound' = inbound, ToldType'
      PROVE  ConversationInv'
  <2>1. MessagesOK(messages \o list, Claude)
    BY <1>0, <1>2, JoinedIsOK
  <2>2. Claude' = Claude
    BY <1>2 DEF Claude
  <2> QED
    BY <1>2, <2>1, <2>2 DEF ConversationInv
<1>3. CASE UserSays
  <2> DEFINE t    == [told EXCEPT !.words = @ + 1]
             u    == [t EXCEPT !.pictures = @ + 1]
             text == TextBlock("user", t.words)
  <2>1. \/ Append1(t, Said("user", Text(<<Word("said", t.words)>>)))
        \/ Append1(t, Said("user", Blocks(<<text>>)))
        \/ Append1(u, Said("user", Blocks(<<text, PictureBlock(t.pictures + 1)>>)))
        \/ Append1(t, Said("user", Blocks(<<text, Attachment>>)))
    BY <1>3 DEF UserSays
  <2>2. /\ DOMAIN t = DOMAIN told /\ t.pending = told.pending
        /\ DOMAIN u = DOMAIN told /\ u.pending = told.pending
    BY <1>0
  <2>3. BlockOK(text) /\ BlockOK(PictureBlock(t.pictures + 1)) /\ BlockOK(Attachment)
    BY BlocksOfClients
  <2> HIDE DEF t, u, text
  <2>4. told' = t \/ told' = u
    BY <2>1 DEF Append1
  <2>5. ToldType'
    BY <1>0, <2>2, <2>4 DEF ToldType
  <2>6. \E m : MessageOK(m, Claude) /\ messages' = Append(messages, m) /\ inbound' = inbound
    BY <2>1, <2>3, FewBlocks, SaidIsOK DEF Append1
  <2> QED
    BY <1>1, <2>5, <2>6
<1>4. CASE ClientAnswers
  <2> DEFINE ids     == told.pending
             t       == [told EXCEPT !.pending = <<>>,
                            !.firsts = @ \cup (IF Claude THEN {ids[1]} ELSE {ids[i] : i \in DOMAIN ids})]
             u       == [t EXCEPT !.words = @ + 1]
             results == [i \in DOMAIN ids |->
                            [type |-> "tool_result", tool_use_id |-> ids[i], content |-> Text(<<Word("result", ids[i])>>)]]
             outputs == [i \in DOMAIN ids |-> [type |-> "function_call_output", call_id |-> ids[i]]]
             text    == TextBlock("user", t.words + 1)
  <2>1. \/ Append1(t, Said("user", Blocks(results)))
        \/ Append1(u, Said("user", Blocks(Append(results, text))))
        \/ ~Claude /\ messages' = messages \o outputs /\ told' = t /\ UNCHANGED inbound
    BY <1>4 DEF ClientAnswers
  <2>2. DOMAIN t = DOMAIN told /\ t.pending = <<>> /\ DOMAIN u = DOMAIN told /\ u.pending = <<>>
    BY <1>0
  <2>3. BlocksOK(results)
    <3>1. Listed(results)
      BY <1>0, MappedList
    <3>2. \A i \in DOMAIN results : "text" \notin DOMAIN results[i]
      OBVIOUS
    <3> QED
      BY <3>1, <3>2 DEF BlocksOK, BlockOK
  <2>4. MessagesOK(outputs, FALSE)
    <3>1. Listed(outputs)
      BY <1>0, MappedList
    <3>2. \A i \in DOMAIN outputs : "content" \notin DOMAIN outputs[i] /\ "parts" \notin DOMAIN outputs[i]
      OBVIOUS
    <3> QED
      BY <3>1, <3>2 DEF MessagesOK, MessageOK
  <2>5. BlockOK(text)
    BY BlocksOfClients
  <2> HIDE DEF t, u, results, outputs, text
  <2>6. BlocksOK(Append(results, text))
    BY <2>3, <2>5, AppendedList DEF BlocksOK
  <2>7. ToldType'
    <3>1. told' = t \/ told' = u
      BY <2>1 DEF Append1
    <3>2. Listed(<<>>)
      BY SequenceIsList, <<>> \in Seq({})
    <3> QED
      BY <1>0, <2>2, <3>1, <3>2 DEF ToldType
  <2>8. CASE ~Claude /\ messages' = messages \o outputs /\ told' = t /\ UNCHANGED inbound
    <3>1. MessagesOK(outputs, Claude)
      BY <2>4, <2>8 DEF Claude
    <3> QED
      BY <1>2, <2>7, <2>8, <3>1
  <2>9. CASE \/ Append1(t, Said("user", Blocks(results)))
             \/ Append1(u, Said("user", Blocks(Append(results, text))))
    <3>1. \E m : MessageOK(m, Claude) /\ messages' = Append(messages, m) /\ inbound' = inbound
      BY <2>3, <2>6, <2>9, SaidIsOK DEF Append1
    <3> QED
      BY <1>1, <2>7, <3>1
  <2> QED
    BY <2>1, <2>8, <2>9
<1>5. CASE ProviderSays
  <2> DEFINE t    == [told EXCEPT !.words = @ + 1]
             text == TextBlock("assistant", t.words)
  <2>1. Append1(t, Said("assistant", Blocks(<<text>>)))
    BY <1>5 DEF ProviderSays
  <2>2. DOMAIN t = DOMAIN told /\ t.pending = told.pending
    BY <1>0
  <2>3. BlockOK(text)
    BY BlocksOfClients
  <2> HIDE DEF t, text
  <2>4. ToldType'
    BY <1>0, <2>1, <2>2 DEF ToldType, Append1
  <2>5. MessageOK(Said("assistant", Blocks(<<text>>)), Claude)
    BY <2>3, FewBlocks, SaidIsOK
  <2> QED
    BY <1>1, <2>1, <2>4, <2>5 DEF Append1
<1>6. CASE ProviderCalls
  <2>1. PICK n \in 1..2 :
           LET ids  == [i \in 1..n |-> told.calls + i]
               t    == [told EXCEPT !.calls = @ + n, !.pending = ids]
               uses == [i \in 1..n |-> [type |-> IF Claude THEN "tool_use" ELSE "function_call", id |-> ids[i]]]
           IN  IF Claude
               THEN Append1([t EXCEPT !.words = @ + 1],
                            Said("assistant", Blocks(<<TextBlock("assistant", t.words + 1)>> \o uses)))
               ELSE messages' = messages \o uses /\ told' = t /\ UNCHANGED inbound
    BY <1>6 DEF ProviderCalls
  <2> DEFINE ids  == [i \in 1..n |-> told.calls + i]
             t    == [told EXCEPT !.calls = @ + n, !.pending = ids]
             u    == [t EXCEPT !.words = @ + 1]
             uses == [i \in 1..n |-> [type |-> IF Claude THEN "tool_use" ELSE "function_call", id |-> ids[i]]]
             text == TextBlock("assistant", t.words + 1)
  <2>2. IF Claude THEN Append1(u, Said("assistant", Blocks(<<text>> \o uses)))
        ELSE messages' = messages \o uses /\ told' = t /\ UNCHANGED inbound
    BY <2>1
  <2>3. DOMAIN t = DOMAIN told /\ t.pending = ids /\ DOMAIN u = DOMAIN told /\ u.pending = ids
    BY <1>0
  <2>4. Listed(ids)
    BY MadeList
  <2>5. BlocksOK(uses) /\ MessagesOK(uses, FALSE)
    <3>1. Listed(uses)
      BY MadeList
    <3>2. \A i \in DOMAIN uses : {"text", "content", "parts"} \cap DOMAIN uses[i] = {}
      OBVIOUS
    <3> QED
      BY <3>1, <3>2 DEF BlocksOK, BlockOK, MessagesOK, MessageOK
  <2>6. BlockOK(text)
    BY BlocksOfClients
  <2> HIDE DEF ids, t, u, uses, text
  <2>7. BlocksOK(<<text>> \o uses)
    <3>1. BlocksOK(<<text>>)
      BY <2>6, FewBlocks
    <3> QED
      BY <2>5, <3>1, JoinedLists DEF BlocksOK
  <2>8. ToldType'
    BY <1>0, <2>2, <2>3, <2>4 DEF ToldType, Append1
  <2>9. CASE Claude
    <3>1. MessageOK(Said("assistant", Blocks(<<text>> \o uses)), Claude)
      BY <2>7, SaidIsOK
    <3> QED
      BY <1>1, <2>2, <2>8, <2>9, <3>1 DEF Append1
  <2>10. CASE ~Claude
    <3>1. MessagesOK(uses, Claude)
      BY <2>5, <2>10 DEF Claude
    <3> QED
      BY <1>2, <2>2, <2>8, <2>10, <3>1
  <2> QED
    BY <2>9, <2>10
<1>7. CASE Messages \/ Responses
  <2>1. UNCHANGED <<inbound, messages, told>>
    BY <1>7 DEF Messages, Responses, Ask
  <2> QED
    BY <2>1 DEF ConversationInv, ToldType, Claude
<1>8. CASE StreamBegins
  <2>1. messages' = <<>> /\ told' = Told
    BY <1>8 DEF StreamBegins
  <2>2. Listed(<<>>)
    BY SequenceIsList, <<>> \in Seq({})
  <2> QED
    BY <2>1, <2>2 DEF ConversationInv, MessagesOK, ToldType, Told
<1>9. CASE UNCHANGED vars
    BY <1>9 DEF vars, ConversationInv, ToldType, Claude
<1> QED
    BY <1>3, <1>4, <1>5, <1>6, <1>7, <1>8, <1>9 DEF ExchangeNext, Next

--------------------------------------------------------------------------------
(***************************************************************************)
(* The selected blocks are those of the types, in their order.             *)
(***************************************************************************)
Keep(list, b, types) == IF b.type \in types THEN Append(list, b) ELSE list

KeptUpTo(g, bs, types, n) ==
    g = [s \in SUBSET (1..n) |-> IF s = {} THEN <<>> ELSE Keep(g[s \ {Max(s)}], bs[Max(s)], types)]

LEMMA KeptDef ==
    ASSUME NEW bs, Listed(bs), NEW types
    PROVE  Selected(bs, types) = (CHOOSE g : KeptUpTo(g, bs, types, Len(bs)))[1..Len(bs)]
<1>1. DOMAIN bs = 1..Len(bs)
    BY DEF Listed
<1> QED
    BY <1>1 DEF Selected, FoldLeft, MapThenFoldSet, KeptUpTo, Keep

LEMMA KeptExists ==
    ASSUME NEW bs, NEW types, NEW N \in Nat
    PROVE  \E g : KeptUpTo(g, bs, types, N)
<1> DEFINE T == {n \in 0..N : \E g : KeptUpTo(g, bs, types, n)}
<1>1. 0 \in T
  <2>1. KeptUpTo([s \in SUBSET (1..0) |-> <<>>], bs, types, 0)
    <3>1. \A s \in SUBSET (1..0) : s = {}
      OBVIOUS
    <3> QED
      BY <3>1 DEF KeptUpTo
  <2> QED
    BY <2>1
<1>2. ASSUME NEW n \in 0..N, n \in T, n < N
      PROVE  n + 1 \in T
  <2>1. PICK g : KeptUpTo(g, bs, types, n)
    BY <1>2
  <2> DEFINE h == [s \in SUBSET (1..(n + 1)) |->
                      IF n + 1 \in s THEN Keep(g[s \ {n + 1}], bs[n + 1], types) ELSE g[s]]
  <2>2. ASSUME NEW s \in SUBSET (1..(n + 1))
        PROVE  h[s] = IF s = {} THEN <<>> ELSE Keep(h[s \ {Max(s)}], bs[Max(s)], types)
    <3>1. CASE n + 1 \in s
      <4>1. Max(s) = n + 1
        BY <3>1, LastOfSome
      <4>2. s \ {n + 1} \in SUBSET (1..(n + 1)) /\ n + 1 \notin s \ {n + 1} /\ s # {}
        BY <3>1
      <4>3. h[s \ {n + 1}] = g[s \ {n + 1}]
        BY <4>2
      <4> QED
        BY <3>1, <4>1, <4>2, <4>3
    <3>2. CASE n + 1 \notin s
      <4>1. s \in SUBSET (1..n)
        BY <3>2
      <4>2. h[s] = g[s]
        BY <3>2
      <4>3. g[s] = IF s = {} THEN <<>> ELSE Keep(g[s \ {Max(s)}], bs[Max(s)], types)
        BY <4>1, <2>1 DEF KeptUpTo
      <4>4. h[s \ {Max(s)}] = g[s \ {Max(s)}]
        <5>1. s \ {Max(s)} \in SUBSET (1..(n + 1)) /\ n + 1 \notin s \ {Max(s)}
          BY <3>2
        <5> QED
          BY <5>1
      <4> QED
        BY <4>2, <4>3, <4>4
    <3> QED
      BY <3>1, <3>2
  <2>3. KeptUpTo(h, bs, types, n + 1)
    <3>1. DOMAIN h = SUBSET (1..(n + 1))
      OBVIOUS
    <3> HIDE DEF h
    <3>2. \A s \in SUBSET (1..(n + 1)) :
             h[s] = IF s = {} THEN <<>> ELSE Keep(h[s \ {Max(s)}], bs[Max(s)], types)
      BY <2>2
    <3>3. h = [s \in SUBSET (1..(n + 1)) |-> h[s]]
      BY <3>1 DEF h
    <3> QED
      BY <3>2, <3>3 DEF KeptUpTo
  <2> HIDE DEF h
  <2>4. n + 1 \in 0..N
    BY <1>2
  <2> QED
    BY <2>3, <2>4
<1>3. \A n \in 0..N : n \in T /\ n < N => n + 1 \in T
    BY <1>2
<1> HIDE DEF T
<1>4. N \in T
    BY <1>1, <1>3, InductionUpTo
<1> QED
    BY <1>4 DEF T

\* `at` tells where the selected are.
Picked(list, bs, types, n, at) ==
    /\ Listed(list)
    /\ \A i \in 1..Len(list) : at[i] \in 1..n /\ list[i] = bs[at[i]] /\ bs[at[i]].type \in types
    /\ \A i, j \in 1..Len(list) : i < j => at[i] < at[j]
    /\ \A k \in 1..n : bs[k].type \in types => \E i \in 1..Len(list) : at[i] = k

LEMMA SelectedOneMore ==
    ASSUME NEW list, NEW bs, NEW types, NEW n \in Nat, NEW at, Picked(list, bs, types, n, at)
    PROVE  \E at2 : Picked(Keep(list, bs[n + 1], types), bs, types, n + 1, at2)
<1> DEFINE N == Len(list)
<1>1. N \in Nat /\ Listed(list) /\ DOMAIN list = 1..N
    BY DEF Picked, Listed
<1>2. CASE bs[n + 1].type \in types
  <2> DEFINE at2 == [i \in 1..(N + 1) |-> IF i = N + 1 THEN n + 1 ELSE at[i]]
             more == Append(list, bs[n + 1])
  <2>1. Keep(list, bs[n + 1], types) = more
    BY <1>2 DEF Keep
  <2>2. Listed(more) /\ Len(more) = N + 1 /\ more[N + 1] = bs[n + 1] /\ \A i \in 1..N : more[i] = list[i]
    BY <1>1, AppendedList, AppendedParts
  <2> HIDE DEF more
  <2>3. \A i \in 1..(N + 1) : at2[i] \in 1..(n + 1) /\ more[i] = bs[at2[i]] /\ bs[at2[i]].type \in types
    BY <1>1, <1>2, <2>2 DEF Picked
  <2>4. \A i, j \in 1..(N + 1) : i < j => at2[i] < at2[j]
    BY <1>1 DEF Picked
  <2>5. ASSUME NEW k \in 1..(n + 1), bs[k].type \in types
        PROVE  \E i \in 1..(N + 1) : at2[i] = k
    <3>1. CASE k = n + 1
      BY <1>1, <3>1
    <3>2. CASE k \in 1..n
      <4>1. PICK i \in 1..N : at[i] = k
        BY <2>5, <3>2 DEF Picked
      <4>2. i \in 1..(N + 1) /\ at2[i] = k
        BY <1>1, <4>1
      <4> QED
        BY <4>2
    <3> QED
      BY <3>1, <3>2
  <2> HIDE DEF at2
  <2>6. Picked(more, bs, types, n + 1, at2)
    BY <2>2, <2>3, <2>4, <2>5 DEF Picked
  <2> QED
    BY <2>1, <2>6
<1>3. CASE bs[n + 1].type \notin types
  <2>1. Keep(list, bs[n + 1], types) = list
    BY <1>3 DEF Keep
  <2>2. \A k \in 1..(n + 1) : k \in 1..n \/ k = n + 1
    OBVIOUS
  <2>3. 1..n \subseteq 1..(n + 1)
    OBVIOUS
  <2>4. Picked(list, bs, types, n + 1, at)
    BY <1>3, <2>2, <2>3 DEF Picked
  <2> QED
    BY <2>1, <2>4
<1> QED
    BY <1>2, <1>3

LEMMA SelectedAre ==
    ASSUME NEW bs, Listed(bs), NEW types
    PROVE  \E at : Picked(Selected(bs, types), bs, types, Len(bs), at)
<1> DEFINE N == Len(bs)
           g == CHOOSE f : KeptUpTo(f, bs, types, N)
           T == {k \in 0..N : \E at : Picked(g[1..k], bs, types, k, at)}
<1>1. N \in Nat /\ DOMAIN bs = 1..N
    BY DEF Listed
<1>2. KeptUpTo(g, bs, types, N)
    BY <1>1, KeptExists
<1>3. Selected(bs, types) = g[1..N]
    BY KeptDef
<1> HIDE DEF g, N
<1>4. 0 \in T
  <2>1. 1..0 = {} /\ g[{}] = <<>>
    BY <1>2 DEF KeptUpTo
  <2>2. Listed(<<>>) /\ Len(<<>>) = 0
    BY SequenceIsList, <<>> \in Seq({})
  <2>3. Picked(<<>>, bs, types, 0, <<>>)
    BY <2>1, <2>2 DEF Picked
  <2> QED
    BY <1>1, <2>1, <2>3
<1>5. ASSUME NEW m \in 0..N, m \in T, m < N
      PROVE  m + 1 \in T
  <2> DEFINE k == m + 1
  <2>1. k \in Nat /\ k - 1 = m /\ 1..k \in SUBSET (1..N) /\ k \in 1..k /\ k \in 0..N /\ m \in Nat
    BY <1>1, <1>5
  <2>2. Max(1..k) = k
    BY <2>1, LastOfSome
  <2>3. (1..k) \ {k} = 1..m
    BY <2>1
  <2>4. g[1..k] = Keep(g[1..m], bs[k], types)
    BY <1>2, <2>1, <2>2, <2>3 DEF KeptUpTo
  <2>5. PICK at : Picked(g[1..m], bs, types, m, at)
    BY <1>5
  <2>6. \E at2 : Picked(Keep(g[1..m], bs[m + 1], types), bs, types, m + 1, at2)
    BY <2>1, <2>5, SelectedOneMore
  <2> QED
    BY <2>1, <2>4, <2>6
<1>6. \A m \in 0..N : m \in T /\ m < N => m + 1 \in T
    BY <1>5
<1> HIDE DEF T
<1>7. \A m \in 0..N : m \in T
    BY <1>1, <1>4, <1>6, InductionUpTo
<1>8. N \in T
    BY <1>1, <1>7
<1> QED
    BY <1>3, <1>8 DEF T, N

SomeOf(list, bs) == Listed(list) /\ \A i \in DOMAIN list : \E j \in DOMAIN bs : list[i] = bs[j]

LEMMA KeptAreSome ==
    ASSUME NEW bs, Listed(bs)
    PROVE  SomeOf(WithoutTools(bs), bs)
<1>1. ASSUME NEW types
      PROVE  SomeOf(Selected(bs, types), bs)
  <2> DEFINE list == Selected(bs, types)
  <2>1. PICK at : Picked(list, bs, types, Len(bs), at)
    BY SelectedAre
  <2> HIDE DEF list
  <2>2. Listed(list) /\ DOMAIN list = 1..Len(list) /\ DOMAIN bs = 1..Len(bs)
    BY <2>1 DEF Picked, Listed
  <2>3. SomeOf(list, bs)
    BY <2>1, <2>2 DEF Picked, SomeOf
  <2> QED
    BY <2>3 DEF list
<1> QED
    BY <1>1 DEF WithoutTools

--------------------------------------------------------------------------------
(***************************************************************************)
(* A message whose blocks are all text has nothing that a conversion       *)
(* refuses, before it is converted and after.                              *)
(***************************************************************************)
Wordy(m) ==
    "content" \in DOMAIN m /\ IsBlocks(m.content) =>
        \A i \in DOMAIN m.content.blocks : "text" \in DOMAIN m.content.blocks[i]

FineContent(content) == ~(IsBlocks(content) /\ Contains(content.blocks, Refused))

AllFine(list) == \A i \in DOMAIN list : FineContent(ContentOf(list[i]))

LEMMA WordsAreText ==
    ASSUME ConversationInv, OnlyText, NEW i \in DOMAIN messages
    PROVE  Wordy(messages[i])
  BY DEF OnlyText, BlocksOf, ToSet, Wordy

LEMMA TextIsFine ==
    ASSUME NEW words
    PROVE  FineContent(Text(words))
    BY DEF FineContent, Text, IsBlocks

LEMMA NotRefused ==
    ASSUME NEW b, "text" \in DOMAIN b
    PROVE  b # Refused
    BY DEF Refused

LEMMA WordsAreFine ==
    ASSUME NEW bs, Listed(bs), \A i \in DOMAIN bs : "text" \in DOMAIN bs[i]
    PROVE  FineContent(Blocks(bs))
<1>1. Blocks(bs).blocks = bs
    BY DEF Blocks
<1>2. \A i \in 1..Len(bs) : bs[i] # Refused
    BY NotRefused DEF Listed
<1> QED
    BY <1>1, <1>2 DEF FineContent, Contains

LEMMA ConvertedWord ==
    ASSUME NEW b, BlockOK(b), "text" \in DOMAIN b, NEW target
    PROVE  "text" \in DOMAIN ContentBlockForTarget(b, target)
<1>1. b.type \in {"text", "input_text", "output_text"}
    BY DEF BlockOK, TextTypes
<1>2. ContentBlockForTarget(b, target) = [type |-> TextType[target], text |-> b.text]
    BY <1>1 DEF ContentBlockForTarget
<1> QED
    BY <1>2

LEMMA ConvertedWordsAreFine ==
    ASSUME NEW bs, BlocksOK(bs), \A i \in DOMAIN bs : "text" \in DOMAIN bs[i], NEW target
    PROVE  FineContent(Blocks(BlocksFor(bs, target)))
<1> DEFINE c == BlocksFor(bs, target)
<1>1. Listed(c) /\ DOMAIN c = DOMAIN bs
  <2>1. DOMAIN c = DOMAIN bs /\ c = [i \in DOMAIN bs |-> c[i]]
    BY DEF BlocksFor
  <2> QED
    BY <2>1, MappedList DEF BlocksOK
<1>2. \A i \in DOMAIN c : "text" \in DOMAIN c[i]
    BY <1>1, ConvertedWord DEF BlocksOK, BlocksFor
<1> HIDE DEF c
<1>3. FineContent(Blocks(c))
    BY <1>1, <1>2, WordsAreFine
<1> QED
    BY <1>3 DEF c

LEMMA PutContent ==
    ASSUME NEW m, NEW c
    PROVE  ContentOf(Put(m, "content", c)) = c
    BY DEF ContentOf, Put, Joined

LEMMA NormalizedIsFine ==
    ASSUME NEW m, NEW claude, MessageOK(m, claude), Wordy(m), NEW target
    PROVE  FineContent(ContentOf(NormalizeMessage(m, target))) /\ FineContent(ContentOf(m))
<1>1. CASE "content" \notin DOMAIN m
  <2>1. ContentOf(m) = Text(<<>>) /\ NormalizeMessage(m, target) = m
    BY <1>1 DEF ContentOf, MessageOK, NormalizeMessage
  <2> QED
    BY <2>1, TextIsFine
<1>2. CASE "content" \in DOMAIN m /\ IsBlocks(m.content) /\ BlocksOK(m.content.blocks)
  <2> DEFINE bs == m.content.blocks
  <2>1. \A i \in DOMAIN bs : "text" \in DOMAIN bs[i]
    BY <1>2 DEF Wordy
  <2>2. ContentOf(m) = m.content
    BY <1>2 DEF ContentOf
  <2>3. FineContent(ContentOf(m))
    <3>1. \A i \in 1..Len(bs) : bs[i] # Refused
      BY <1>2, <2>1, NotRefused DEF BlocksOK, Listed
    <3> QED
      BY <2>2, <3>1 DEF FineContent, Contains
  <2>4. FineContent(Blocks(BlocksFor(bs, target)))
    BY <1>2, <2>1, ConvertedWordsAreFine
  <2>5. \/ NormalizeMessage(m, target) = m
        \/ NormalizeMessage(m, target) = Put(m, "content", Blocks(BlocksFor(bs, target)))
    BY <1>2 DEF NormalizeMessage
  <2> QED
    BY <2>3, <2>4, <2>5, PutContent
<1>3. CASE "content" \in DOMAIN m /\ ~(IsBlocks(m.content) /\ BlocksOK(m.content.blocks))
  <2>1. IsText(m.content) /\ ~IsBlocks(m.content)
    BY <1>3 DEF MessageOK
  <2>2. NormalizeMessage(m, target) = m /\ ContentOf(m) = m.content
    BY <1>3, <2>1 DEF NormalizeMessage, ContentOf
  <2> QED
    BY <2>1, <2>2 DEF FineContent
<1> QED
    BY <1>1, <1>2, <1>3

--------------------------------------------------------------------------------
(***************************************************************************)
(* So a conversation in words is prepared for every protocol: Claude       *)
(* Code's for the chat providers, for those with responses and for those   *)
(* of its own, and that of Codex.                                          *)
(***************************************************************************)
LEMMA ChatMessageIsFine ==
    ASSUME NEW m, MessageOK(m, TRUE), Wordy(m)
    PROVE  FineContent(ContentOf(MessageToOpenAiChat(m)))
<1>1. "content" \in DOMAIN m
    BY DEF MessageOK
<1>2. FineContent(ContentOf(ToolMessage(m)))
  <2>1. ContentOf(ToolMessage(m)) = Text(MessageContentAsText(m))
    BY DEF ContentOf, ToolMessage
  <2> QED
    BY <2>1, TextIsFine
<1>3. FineContent(ChatContent(m))
  <2>1. CASE IsText(m.content) /\ ~IsBlocks(m.content)
    BY <2>1 DEF ChatContent, FineContent
  <2>2. CASE IsBlocks(m.content) /\ BlocksOK(m.content.blocks)
    <3> DEFINE bs   == m.content.blocks
               kept == WithoutTools(bs)
    <3>1. BlocksOf(m) = bs
      BY <1>1, <2>2 DEF BlocksOf
    <3>2. Listed(bs) /\ \A i \in DOMAIN bs : BlockOK(bs[i]) /\ "text" \in DOMAIN bs[i]
      BY <1>1, <2>2 DEF Wordy, BlocksOK
    <3>3. SomeOf(kept, bs)
      BY <3>2, KeptAreSome
    <3>4. BlocksOK(kept) /\ \A i \in DOMAIN kept : "text" \in DOMAIN kept[i]
      BY <3>2, <3>3 DEF SomeOf, BlocksOK
    <3>5. FineContent(Blocks(BlocksFor(kept, "chat"))) /\ FineContent(Text(<<>>))
      BY <3>4, ConvertedWordsAreFine, TextIsFine
    <3>6. CASE IsText(m.content)
      <4>1. ChatContent(m) = m.content
        BY <3>6 DEF ChatContent
      <4>2. \A i \in 1..Len(bs) : bs[i] # Refused
        BY <3>2, NotRefused DEF Listed
      <4> QED
        BY <4>1, <4>2 DEF FineContent, Contains
    <3>7. CASE ~IsText(m.content)
      BY <2>2, <3>1, <3>5, <3>7 DEF ChatContent
    <3> QED
      BY <3>6, <3>7
  <2> QED
    BY <1>1, <2>1, <2>2 DEF MessageOK
<1> DEFINE spoken == [role |-> m.role, content |-> ChatContent(m)]
<1>4. ContentOf(spoken) = ChatContent(m) /\ ContentOf(Put(spoken, "tool_calls", ToolCalls(m))) = ChatContent(m)
    BY DEF ContentOf, Put, Joined
<1>5. MessageToOpenAiChat(m) \in {ToolMessage(m), spoken, Put(spoken, "tool_calls", ToolCalls(m))}
    BY DEF MessageToOpenAiChat
<1> QED
    BY <1>2, <1>3, <1>4, <1>5

LEMMA ResponsesMessageIsFine ==
    ASSUME NEW m, MessageOK(m, TRUE), Wordy(m)
    PROVE  FineContent(ContentOf(MessageToResponsesInput(m)))
<1>1. "content" \in DOMAIN m
    BY DEF MessageOK
<1> DEFINE one == <<[type |-> "input_text", text |-> m.content.text]>>
           all == BlocksFor(m.content.blocks, "responses")
<1>2. ContentOf(MessageToResponsesInput(m)) =
         Blocks(IF IsText(m.content) THEN one ELSE IF IsBlocks(m.content) THEN all ELSE <<Refused>>)
    BY DEF ContentOf, MessageToResponsesInput
<1>3. FineContent(Blocks(one))
  <2>1. Listed(one)
    BY SequenceIsList, one \in Seq({one[1]})
  <2>2. \A i \in DOMAIN one : "text" \in DOMAIN one[i]
    OBVIOUS
  <2> QED
    BY <2>1, <2>2, WordsAreFine
<1> HIDE DEF one
<1>4. CASE IsText(m.content)
    BY <1>2, <1>3, <1>4
<1>5. CASE ~IsText(m.content)
  <2>1. IsBlocks(m.content) /\ BlocksOK(m.content.blocks)
    BY <1>1, <1>5 DEF MessageOK
  <2>2. FineContent(Blocks(all))
    BY <1>1, <2>1, ConvertedWordsAreFine DEF Wordy
  <2> QED
    BY <1>2, <1>5, <2>1, <2>2
<1> QED
    BY <1>4, <1>5

LEMMA JoinedAreFine ==
    ASSUME NEW s, NEW t, Listed(s), Listed(t), AllFine(s), AllFine(t)
    PROVE  AllFine(s \o t)
<1>1. \A i \in DOMAIN (s \o t) :
         \/ \E j \in DOMAIN s : (s \o t)[i] = s[j]
         \/ \E j \in DOMAIN t : (s \o t)[i] = t[j]
  <2>1. Listed(s) /\ Listed(t)
    OBVIOUS
  <2> QED
    BY ONLY <2>1, JoinedLists
<1> DEFINE both == s \o t
<1>2. \A i \in DOMAIN both : (\E j \in DOMAIN s : both[i] = s[j]) \/ (\E j \in DOMAIN t : both[i] = t[j])
    BY <1>1
<1> HIDE DEF both
<1>3. AllFine(both)
    BY <1>2 DEF AllFine
<1> QED
    BY <1>3 DEF both

LEMMA SystemIsShort ==
    ASSUME NEW body
    PROVE  \/ SystemText(body) = <<>>
           \/ \E text : SystemText(body) = <<text>>
<1>1. ASSUME NEW system
      PROVE  TextFromSystem(system) = <<>> \/ \E text : TextFromSystem(system) = <<text>>
  <2> DEFINE texts == OfType(system.blocks, "text")
  <2>1. TextFromSystem(system) =
           IF IsText(system) THEN <<system.text>>
           ELSE IF IsBlocks(system) THEN IF texts = <<>> THEN <<>> ELSE <<Head(texts).text>>
           ELSE <<>>
    BY DEF TextFromSystem
  <2> HIDE DEF texts
  <2>2. CASE IsText(system)
    BY <2>1, <2>2
  <2>3. CASE ~IsText(system) /\ IsBlocks(system) /\ texts # <<>>
    <3>1. TextFromSystem(system) = <<Head(texts).text>>
      BY <2>1, <2>3
    <3> QED
      BY <3>1
  <2>4. CASE ~IsText(system) /\ ~(IsBlocks(system) /\ texts # <<>>)
    BY <2>1, <2>4
  <2> QED
    BY <2>2, <2>3, <2>4
<1> QED
    BY <1>1 DEF SystemText

LEMMA ShortList ==
    ASSUME NEW s, NEW t, s = <<>> \/ (\E x : s = <<x>>), DOMAIN t = DOMAIN s, t = [i \in DOMAIN s |-> t[i]]
    PROVE  Listed(t)
<1>1. CASE s = <<>>
  <2>1. DOMAIN s = 1..0
    BY <1>1
  <2> QED
    BY <2>1, MadeList
<1>2. CASE \E x : s = <<x>>
  <2>1. DOMAIN s = 1..1
    BY <1>2
  <2> QED
    BY <2>1, MadeList
<1> QED
    BY <1>1, <1>2

LEMMA ClaudePreparedIsFine ==
    ASSUME NEW body, NEW model, NEW mode, MessagesOK(body.messages, TRUE),
           \A i \in DOMAIN body.messages : Wordy(body.messages[i])
    PROVE  ~HasRefused(PrepareAnthropicBodyForMode(body, model, mode))
<1> DEFINE list == body.messages
<1>1. Listed(list) /\ \A i \in DOMAIN list : MessageOK(list[i], TRUE) /\ Wordy(list[i])
    BY DEF MessagesOK
<1>2. CASE mode = "OpenAiChat"
  <2> DEFINE system == [i \in DOMAIN SystemText(body) |->
                           [role |-> "system", content |-> Text(SystemText(body)[i])]]
             said   == [i \in DOMAIN list |-> MessageToOpenAiChat(list[i])]
             b      == AnthropicBodyToOpenAiChat(body, model)
  <2>1. Listed(system) /\ AllFine(system)
    <3>1. Listed(system)
      BY SystemIsShort, ShortList
    <3>2. ASSUME NEW i \in DOMAIN system
          PROVE  ContentOf(system[i]) = Text(SystemText(body)[i])
      BY DEF ContentOf
    <3> QED
      BY <3>1, <3>2, TextIsFine DEF AllFine
  <2>2. Listed(said) /\ AllFine(said)
    BY <1>1, MappedList, ChatMessageIsFine DEF AllFine
  <2>3. AllFine(system \o said)
    BY <2>1, <2>2, JoinedAreFine
  <2>4. "messages" \in DOMAIN b /\ b.messages = system \o said
    BY DEF AnthropicBodyToOpenAiChat, Joined
  <2> HIDE DEF system, said, b
  <2>5. ~HasRefused(b)
    BY <2>3, <2>4 DEF HasRefused, AllFine, FineContent
  <2> QED
    BY <1>2, <2>5 DEF PrepareAnthropicBodyForMode, b
<1>3. CASE mode = "OpenAiResponses"
  <2> DEFINE system == [i \in DOMAIN SystemText(body) |->
                           [role |-> "system",
                            content |-> Blocks(<<[type |-> "input_text", text |-> SystemText(body)[i]]>>)]]
             said   == [i \in DOMAIN list |-> MessageToResponsesInput(list[i])]
             fields == CopyCommonRequestFields(body, "OpenAiResponses")
             b      == AnthropicBodyToOpenAiResponses(body, model)
  <2>1. Listed(system) /\ AllFine(system)
    <3>1. Listed(system)
      BY SystemIsShort, ShortList
    <3>2. ASSUME NEW x
          PROVE  FineContent(Blocks(<<[type |-> "input_text", text |-> x]>>))
      <4> DEFINE one == <<[type |-> "input_text", text |-> x]>>
      <4>1. Listed(one)
        BY SequenceIsList, one \in Seq({one[1]})
      <4>2. \A i \in DOMAIN one : "text" \in DOMAIN one[i]
        OBVIOUS
      <4> QED
        BY <4>1, <4>2, WordsAreFine
    <3>3. ASSUME NEW i \in DOMAIN system
          PROVE  ContentOf(system[i]) = Blocks(<<[type |-> "input_text", text |-> SystemText(body)[i]]>>)
      BY DEF ContentOf
    <3> QED
      BY <3>1, <3>2, <3>3 DEF AllFine
  <2>2. Listed(said) /\ AllFine(said)
    BY <1>1, MappedList, ResponsesMessageIsFine DEF AllFine
  <2>3. AllFine(system \o said)
    BY <2>1, <2>2, JoinedAreFine
  <2>4. "messages" \notin DOMAIN fields
    BY DEF CopyCommonRequestFields, Copied
  <2>5. b = Joined([model |-> model, input |-> [items |-> system \o said]], fields)
    BY DEF AnthropicBodyToOpenAiResponses
  <2> HIDE DEF system, said, b, fields
  <2>6. "messages" \notin DOMAIN b /\ "input" \in DOMAIN b /\ b.input = [items |-> system \o said]
    BY <2>4, <2>5 DEF Joined
  <2>7. "items" \in DOMAIN b.input /\ b.input.items = system \o said
    BY <2>6
  <2>8. ~HasRefused(b)
    BY <2>3, <2>6, <2>7 DEF HasRefused, AllFine, FineContent
  <2> QED
    BY <1>3, <2>8 DEF PrepareAnthropicBodyForMode, b
<1>4. CASE mode \notin {"OpenAiChat", "OpenAiResponses"}
  <2> DEFINE said == NormalizeMessages(list, "anthropic")
             b    == Put(Put(body, "model", model), "messages", said)
  <2>1. AllFine(said)
    BY <1>1, NormalizedIsFine DEF AllFine, NormalizeMessages
  <2>2. "messages" \in DOMAIN b /\ b.messages = said
    BY DEF Put, Joined
  <2>3. PrepareAnthropicBodyForMode(body, model, mode) = b
    BY <1>4 DEF PrepareAnthropicBodyForMode
  <2> HIDE DEF said, b
  <2> QED
    BY <2>1, <2>2, <2>3 DEF HasRefused, AllFine, FineContent
<1> QED
    BY <1>2, <1>3, <1>4

LEMMA CodexPreparedIsFine ==
    ASSUME NEW body, NEW model, NEW mode, NEW list,
           MessagesOK(list, FALSE), \A i \in DOMAIN list : Wordy(list[i]),
           \/ "messages" \in DOMAIN body /\ body.messages = list /\ "input" \notin DOMAIN body
           \/ "input" \in DOMAIN body /\ body.input = [items |-> list] /\ "messages" \notin DOMAIN body
    PROVE  ~HasRefused(PrepareResponsesBodyForMode(body, model, mode))
<1>1. \A i \in DOMAIN list : MessageOK(list[i], FALSE) /\ Wordy(list[i])
    BY DEF MessagesOK
<1>2. CASE mode = "OpenAiResponses"
  <2> DEFINE named == Put(body, "model", model)
             b     == EnsureResponsesInput(named)
  <2>1. /\ "messages" \in DOMAIN named <=> "messages" \in DOMAIN body
        /\ "input" \in DOMAIN named <=> "input" \in DOMAIN body
        /\ "messages" \in DOMAIN body => named.messages = body.messages
        /\ "input" \in DOMAIN body => named.input = body.input
    BY DEF Put, Joined
  <2> HIDE DEF named
  <2>2. "messages" \notin DOMAIN b /\ "input" \in DOMAIN b /\ b.input = [items |-> list]
    <3>1. CASE "input" \in DOMAIN body
      BY <2>1, <3>1 DEF EnsureResponsesInput
    <3>2. CASE "input" \notin DOMAIN body
      <4>1. b = Put(Drop(named, {"messages"}), "input", [items |-> list])
        BY <2>1, <3>2 DEF EnsureResponsesInput
      <4> HIDE DEF b
      <4>2. DOMAIN Drop(named, {"messages"}) = DOMAIN named \ {"messages"}
        BY DEF Drop, Restrict
      <4> QED
        BY <4>1, <4>2 DEF Put, Joined
    <3> QED
      BY <3>1, <3>2
  <2>3. "items" \in DOMAIN b.input /\ b.input.items = list
    BY <2>2
  <2>4. AllFine(list)
    BY <1>1, NormalizedIsFine DEF AllFine
  <2>5. PrepareResponsesBodyForMode(body, model, mode) = b
    BY <1>2 DEF PrepareResponsesBodyForMode, named
  <2> HIDE DEF b
  <2> QED
    BY <2>2, <2>3, <2>4, <2>5 DEF HasRefused, AllFine, FineContent
<1>3. CASE mode # "OpenAiResponses"
  <2> DEFINE said   == NormalizeMessages(list, Target(mode))
             fields == Copied(body, [stream |-> <<"stream">>,
                                     max_tokens |-> <<"max_output_tokens", "max_tokens">>])
             b      == PrepareResponsesBodyForMode(body, model, mode)
  <2>1. ResponsesInputToMessages(body, Target(mode)) = said
    <3>1. CASE "messages" \in DOMAIN body
      BY <3>1 DEF ResponsesInputToMessages
    <3>2. CASE "messages" \notin DOMAIN body
      <4>1. body.input = [items |-> list]
        BY <3>2
      <4>2. "text" \notin DOMAIN body.input /\ "items" \in DOMAIN body.input /\ body.input.items = list
        BY <4>1
      <4> QED
        BY <3>2, <4>2 DEF ResponsesInputToMessages
    <3> QED
      BY <3>1, <3>2
  <2>2. AllFine(said)
    BY <1>1, NormalizedIsFine DEF AllFine, NormalizeMessages
  <2>3. b = Joined([model |-> model, messages |-> said], fields)
    <3>1. b = Joined([model |-> model, messages |-> ResponsesInputToMessages(body, Target(mode))], fields)
      BY <1>3 DEF PrepareResponsesBodyForMode
    <3> HIDE DEF said, fields, b
    <3> QED
      BY <2>1, <3>1
  <2> HIDE DEF said, fields, b
  <2>4. "messages" \in DOMAIN b /\ b.messages = said
    BY <2>3 DEF Joined
  <2>5. ~HasRefused(b)
    BY <2>2, <2>4 DEF HasRefused, AllFine, FineContent
  <2> QED
    BY <2>5 DEF b
<1> QED
    BY <1>2, <1>3

--------------------------------------------------------------------------------
(***************************************************************************)
(* What has been tested, and what is sent.                                 *)
(***************************************************************************)
LEMMA AvailableHasCredential ==
    ASSUME NEW p, CanBeAvailable(p)
    PROVE  p.credential = "found"
<1>1. PICK answer \in Answers, streamed \in Answers :
         TestProvider(p, answer, streamed).status = "Available"
    BY DEF CanBeAvailable
<1>2. ASSUME NEW status
      PROVE  Tested(status).status = status
    BY DEF Tested
<1>3. CASE p.url \in {"", "invalid"}
  <2>1. TestProvider(p, answer, streamed) = Tested("InvalidUrl")
    BY <1>3 DEF TestProvider, TestEndpoint
  <2> QED
    BY <1>1, <1>2, <2>1
<1>4. CASE p.url \notin {"", "invalid"} /\ p.credential # "found"
  <2>1. TestProvider(p, answer, streamed) = Tested(EndpointStatusForSecretError(p.credential))
    BY <1>4 DEF TestProvider, TestEndpoint
  <2>2. EndpointStatusForSecretError(p.credential) # "Available"
    BY DEF EndpointStatusForSecretError
  <2> QED
    BY <1>1, <1>2, <2>1, <2>2
<1> QED
    BY <1>3, <1>4

LEMMA EmptyChain ==
    ASSUME NEW body
    PROVE  ApplyChain(<<>>, body) = body
<1> DEFINE none == <<>>
<1>1. none \in Seq(STRING) /\ Len(none) = 0
    OBVIOUS
<1> HIDE DEF none
<1>2. PICK after :
         /\ after[0] = body
         /\ \A k \in 1..Len(none) : after[k] = TransformRequest(none[k], after[k - 1])
         /\ ApplyChain(none, body) = after[Len(none)]
    BY <1>1, ChainSteps
<1>3. ApplyChain(none, body) = body
    BY <1>1, <1>2
<1> QED
    BY <1>3 DEF none

\* The fields of a prepared body that say what is asked.
LEMMA PreparedFields ==
    ASSUME NEW body, NEW model, NEW mode
    PROVE  /\ {"model"} \cup (IF mode = "OpenAiResponses" THEN {"input"} ELSE {"messages"})
                  \subseteq DOMAIN PrepareAnthropicBodyForMode(body, model, mode)
           /\ "input" \in DOMAIN body \/ "messages" \in DOMAIN body =>
                  {"model"} \cup (IF mode = "OpenAiResponses" THEN {"input"} ELSE {"messages"})
                      \subseteq DOMAIN PrepareResponsesBodyForMode(body, model, mode)
<1>1. /\ {"model", "messages"} \subseteq DOMAIN AnthropicBodyToOpenAiChat(body, model)
      /\ {"model", "input"} \subseteq DOMAIN AnthropicBodyToOpenAiResponses(body, model)
    BY DEF AnthropicBodyToOpenAiChat, AnthropicBodyToOpenAiResponses, Joined
<1>2. ASSUME NEW b, NEW f, NEW v
      PROVE  DOMAIN Put(b, f, v) = {f} \cup DOMAIN b
    BY DEF Put, Joined
<1>3. DOMAIN Put(Put(body, "model", model), "messages", NormalizeMessages(body.messages, "anthropic"))
         = {"model", "messages"} \cup DOMAIN body
  <2>1. DOMAIN Put(body, "model", model) = {"model"} \cup DOMAIN body
    BY <1>2
  <2> DEFINE named == Put(body, "model", model)
             said  == NormalizeMessages(body.messages, "anthropic")
  <2> HIDE DEF named, said
  <2>2. DOMAIN Put(named, "messages", said) = {"messages"} \cup DOMAIN named
    BY <1>2
  <2> QED
    BY <2>1, <2>2 DEF named, said
<1>4. {"model"} \cup (IF mode = "OpenAiResponses" THEN {"input"} ELSE {"messages"})
          \subseteq DOMAIN PrepareAnthropicBodyForMode(body, model, mode)
    BY <1>1, <1>3 DEF PrepareAnthropicBodyForMode
<1>5. CASE mode = "OpenAiResponses" /\ ("input" \in DOMAIN body \/ "messages" \in DOMAIN body)
  <2> DEFINE named == Put(body, "model", model)
  <2>1. DOMAIN named = {"model"} \cup DOMAIN body
    BY <1>2
  <2> HIDE DEF named
  <2>2. DOMAIN Drop(named, {"messages"}) = DOMAIN named \ {"messages"}
    BY DEF Drop, Restrict
  <2>3. {"model", "input"} \subseteq DOMAIN EnsureResponsesInput(named)
    <3>1. CASE "input" \in DOMAIN body
      <4>1. EnsureResponsesInput(named) = named
        BY <2>1, <3>1 DEF EnsureResponsesInput
      <4> QED
        BY <2>1, <3>1, <4>1
    <3>2. CASE "input" \notin DOMAIN body
      <4> DEFINE rest  == Drop(named, {"messages"})
                 items == [items |-> named.messages]
      <4>1. EnsureResponsesInput(named) = Put(rest, "input", items)
        BY <1>5, <2>1, <3>2 DEF EnsureResponsesInput
      <4>2. DOMAIN rest = DOMAIN named \ {"messages"}
        BY <2>2
      <4> HIDE DEF rest, items
      <4>3. DOMAIN Put(rest, "input", items) = {"input"} \cup DOMAIN rest
        BY <1>2
      <4> QED
        BY <2>1, <4>1, <4>2, <4>3
    <3> QED
      BY <3>1, <3>2
  <2> QED
    BY <1>4, <1>5, <2>3 DEF PrepareResponsesBodyForMode, named
<1>6. CASE mode # "OpenAiResponses"
    BY <1>4, <1>6 DEF PrepareResponsesBodyForMode, Joined
<1> QED
    BY <1>4, <1>5, <1>6

LEMMA TestedFields ==
    ASSUME NEW p
    PROVE  LET tested == EndpointTestRequest(p)
           IN  /\ tested.mode = Mode(ResolveProviderApiKind(p))
               /\ tested.auth = AuthHeader(tested.mode)
               /\ {"model", "input", "messages"} \cap DOMAIN tested.body
                     = {"model"} \cup (IF tested.mode = "OpenAiResponses" THEN {"input"} ELSE {"messages"})
<1> DEFINE tested == EndpointTestRequest(p)
           mode   == Mode(ResolveProviderApiKind(p))
           m      == EndpointTestModel(p, ResolveProviderApiKind(p))
           common == [model |-> m, stream |-> FALSE]
           input  == [input |-> Text(<<0>>), max_output_tokens |-> 1]
           said   == [max_tokens |-> 1, messages |-> <<[role |-> "user", content |-> Text(<<0>>)]>>]
<1>1. tested = [mode |-> mode,
                auth |-> IF mode = "AnthropicMessages" THEN "x-api-key" ELSE "authorization",
                body |-> Joined(common, IF mode = "OpenAiResponses" THEN input ELSE said)]
    BY DEF EndpointTestRequest
<1>2. /\ DOMAIN Joined(common, input) = {"model", "stream", "input", "max_output_tokens"}
      /\ DOMAIN Joined(common, said) = {"model", "stream", "max_tokens", "messages"}
    BY DEF Joined
<1> HIDE DEF tested, common, input, said, mode
<1>3. /\ tested.mode = mode
      /\ tested.auth = IF mode = "AnthropicMessages" THEN "x-api-key" ELSE "authorization"
      /\ tested.body = Joined(common, IF mode = "OpenAiResponses" THEN input ELSE said)
    BY <1>1
<1>4. {"model", "input", "messages"} \cap DOMAIN tested.body
         = {"model"} \cup (IF mode = "OpenAiResponses" THEN {"input"} ELSE {"messages"})
    BY <1>2, <1>3
<1> QED
    BY <1>3, <1>4 DEF AuthHeader, tested, mode

LEMMA NextBodyFacts ==
    ASSUME inbound \in Inbound, NEW p, NEW body \in NextBodies(p)
    PROVE  /\ UpstreamModelName(body, p.route, p) # ""
           /\ Claude => body.messages = messages
           /\ ~Claude =>
                 \/ "messages" \in DOMAIN body /\ body.messages = messages /\ "input" \notin DOMAIN body
                 \/ "input" \in DOMAIN body /\ body.input = [items |-> messages] /\ "messages" \notin DOMAIN body
<1>1. CASE Claude
  <2>1. PICK o \in ClaudeOptions : body = ClaudeBody(o)
    BY <1>1 DEF NextBodies
  <2>2. body.messages = messages
    BY <2>1 DEF ClaudeBody, Put, Joined
  <2> QED
    BY <1>1, <2>2 DEF NextBodies
<1>2. CASE ~Claude
  <2>1. PICK o \in CodexOptions : o.form \in {"items", "messages"} /\ body = CodexBody(o)
    BY <1>2 DEF NextBodies
  <2> DEFINE asked == Drop(o, {"form"})
  <2>2. "messages" \notin DOMAIN asked /\ "input" \notin DOMAIN asked
    BY GatewayAssumption DEF Drop, Restrict
  <2>3. \/ body = Put(asked, "input", [items |-> messages])
        \/ body = Put(asked, "messages", messages)
    BY <2>1 DEF CodexBody
  <2> HIDE DEF asked
  <2>4. \/ "messages" \in DOMAIN body /\ body.messages = messages /\ "input" \notin DOMAIN body
        \/ "input" \in DOMAIN body /\ body.input = [items |-> messages] /\ "messages" \notin DOMAIN body
    BY <2>2, <2>3 DEF Put, Joined
  <2> QED
    BY <1>2, <2>4 DEF NextBodies
<1> QED
    BY <1>1, <1>2

LEMMA AvailableIsServed ==
    ASSUME inbound \in Inbound, ConversationInv, OnlyText,
           NEW p \in Providers, CanBeAvailable(p), NEW body \in NextBodies(p)
    PROVE  LET request == BuildUpstreamRequest(inbound, p.route, p, body)
               tested  == EndpointTestRequest(p)
               streams == Asked(body) /\ ~Contains(p.use, "vertex-claude")
           IN  /\ request.ok <=> (streams => StreamCompatible(inbound, tested.mode))
               /\ request.ok =>
                     /\ <<request.mode, request.auth>> = <<tested.mode, tested.auth>>
                     /\ p.use = <<>> =>
                           {"model", "input", "messages"} \cap DOMAIN tested.body \subseteq DOMAIN request.body
<1> DEFINE mode     == Mode(ResolveProviderApiKind(p))
           model    == UpstreamModelName(body, p.route, p)
           prepared == IF inbound = "AnthropicMessages"
                       THEN PrepareAnthropicBodyForMode(body, model, mode)
                       ELSE PrepareResponsesBodyForMode(body, model, mode)
           upstream == ApplyChain(p.use, prepared)
           request  == BuildUpstreamRequest(inbound, p.route, p, body)
           tested   == EndpointTestRequest(p)
           streams  == Asked(body) /\ ~Contains(p.use, "vertex-claude")
           fields   == {"model"} \cup (IF mode = "OpenAiResponses" THEN {"input"} ELSE {"messages"})
<1>1. request = IF \/ model = ""
                   \/ inbound = "OpenAiResponses" /\ NothingToSend(body, mode)
                   \/ HasRefused(prepared)
                   \/ Asked(upstream) /\ ~StreamCompatible(inbound, mode)
                   \/ p.credential # "found"
                THEN NoRequest
                ELSE [ok |-> TRUE, mode |-> mode, auth |-> AuthHeader(mode), body |-> upstream,
                      stream |-> Asked(upstream)]
    BY DEF BuildUpstreamRequest
<1>2. \A i \in DOMAIN messages : Wordy(messages[i])
    BY WordsAreText
<1>3. ~HasRefused(prepared) /\ fields \subseteq DOMAIN prepared
  <2>1. CASE Claude
    <3>1. MessagesOK(body.messages, TRUE) /\ body.messages = messages
      BY <2>1, NextBodyFacts DEF ConversationInv, Claude
    <3> QED
      BY <1>2, <2>1, <3>1, ClaudePreparedIsFine, PreparedFields DEF Claude
  <2>2. CASE ~Claude
    <3>1. MessagesOK(messages, FALSE)
      BY <2>2 DEF ConversationInv, Claude
    <3> QED
      BY <1>2, <2>2, <3>1, NextBodyFacts, CodexPreparedIsFine, PreparedFields DEF Claude
  <2> QED
    BY <2>1, <2>2
<1>4. ~(inbound = "OpenAiResponses" /\ NothingToSend(body, mode))
    BY NextBodyFacts DEF NothingToSend, Claude
<1>5. Asked(upstream) <=> streams
  <2>1. Asked(prepared) <=> Asked(body)
    BY PreparedForClaudeKeeps, PreparedForCodexKeeps
  <2> HIDE DEF prepared
  <2> QED
    BY <2>1, ChainKeeps, GatewayAssumption
<1>6. model # "" /\ p.credential = "found"
    BY NextBodyFacts, AvailableHasCredential
<1>7. p.use = <<>> => upstream = prepared
    BY EmptyChain
<1>8. tested.mode = mode /\ tested.auth = AuthHeader(mode)
      /\ {"model", "input", "messages"} \cap DOMAIN tested.body = fields
    BY TestedFields
<1> HIDE DEF mode, model, prepared, upstream, request, tested, streams, fields
<1>9. request = IF streams /\ ~StreamCompatible(inbound, mode) THEN NoRequest
                ELSE [ok |-> TRUE, mode |-> mode, auth |-> AuthHeader(mode), body |-> upstream,
                      stream |-> Asked(upstream)]
    BY <1>1, <1>3, <1>4, <1>5, <1>6
<1>10. request.ok <=> (streams => StreamCompatible(inbound, tested.mode))
    BY <1>8, <1>9 DEF NoRequest
<1>11. request.ok => request.mode = mode /\ request.auth = AuthHeader(mode) /\ request.body = upstream
    BY <1>9 DEF NoRequest
<1>12. request.ok /\ p.use = <<>> => {"model", "input", "messages"} \cap DOMAIN tested.body \subseteq DOMAIN request.body
    BY <1>3, <1>7, <1>8, <1>11
<1> QED
    BY <1>8, <1>10, <1>11, <1>12 DEF request, tested, streams

\* A provider that the Config tab calls available can be asked whatever is in words, in the
\* protocol and with the authorization of the test, but for the streams that its protocol cannot
\* give to the client: those requests are refused, and the tab calls it available nonetheless
\* (endpoint_test_request and build_upstream_request, validate_stream_compatibility).
THEOREM TestedIsServed == ExchangeSpec => []TestedAsServed
<1> DEFINE Inv == ProtocolInv /\ ConversationInv
<1>1. ExchangeInit => Inv
  <2>1. ExchangeInit => ProtocolInv
    BY DEF ExchangeInit, Init, ProtocolInv, StreamsAreUnderstood, NoRequest
  <2>2. Listed(<<>>)
    BY SequenceIsList, <<>> \in Seq({})
  <2>3. ExchangeInit => ConversationInv
    BY <2>2 DEF ExchangeInit, Init, ConversationInv, MessagesOK, ToldType, Told
  <2> QED
    BY <2>1, <2>3
<1>2. Inv /\ [ExchangeNext]_<<vars, streamVars>> => Inv'
    BY ProtocolStep, ConversationStep
<1>3. Inv => TestedAsServed
    BY AvailableIsServed DEF ProtocolInv, TestedAsServed
<1> QED
    BY <1>1, <1>2, <1>3, PTL DEF ExchangeSpec

--------------------------------------------------------------------------------
(***************************************************************************)
(* The bytes of an event.                                                  *)
(***************************************************************************)
Byte == {[line |-> n] : n \in Nat} \cup {[hi |-> n] : n \in Nat} \cup {[lo |-> n] : n \in Nat}
        \cup {[nl |-> n] : n \in Nat} \cup {Spoiled}

Size(n) == IF n \in Wide THEN 5 ELSE 3

ByteAt(n, i) ==
    IF i = 1 THEN [line |-> n]
    ELSE IF i >= Size(n) - 1 THEN [nl |-> n]
    ELSE IF i = 2 THEN [hi |-> n] ELSE [lo |-> n]

LEMMA SizeType == \A n : Size(n) \in {3, 5}
    BY DEF Size

Joint(s, t) == s \o t

LEMMA Concatenated ==
    ASSUME NEW s \in Seq(Byte), NEW t \in Seq(Byte)
    PROVE  /\ Joint(s, t) \in Seq(Byte) /\ Len(Joint(s, t)) = Len(s) + Len(t)
           /\ Len(s) \in Nat /\ Len(t) \in Nat
           /\ \A i \in 1..Len(s) : Joint(s, t)[i] = s[i]
           /\ \A i \in 1..Len(t) : Joint(s, t)[Len(s) + i] = t[i]
    BY DEF Joint

Frame(x, m, y) == Joint(Joint(<<x>>, m), <<y, y>>)

LEMMA Framed ==
    ASSUME NEW x \in Byte, NEW m \in Seq(Byte), NEW y \in Byte
    PROVE  /\ Frame(x, m, y) \in Seq(Byte) /\ Len(Frame(x, m, y)) = Len(m) + 3 /\ Len(m) \in Nat
           /\ Frame(x, m, y)[1] = x
           /\ Frame(x, m, y)[Len(m) + 2] = y /\ Frame(x, m, y)[Len(m) + 3] = y
           /\ \A i \in 1..Len(m) : Frame(x, m, y)[i + 1] = m[i]
<1> DEFINE a == <<x>>
           b == <<y, y>>
<1>1. a \in Seq(Byte) /\ b \in Seq(Byte)
    OBVIOUS
<1>2. Len(a) = 1 /\ a[1] = x /\ Len(b) = 2 /\ b[1] = y /\ b[2] = y
    OBVIOUS
<1> HIDE DEF a, b
<1>3. /\ Joint(a, m) \in Seq(Byte) /\ Len(Joint(a, m)) = Len(a) + Len(m)
      /\ Len(a) \in Nat /\ Len(m) \in Nat
      /\ \A i \in 1..Len(a) : Joint(a, m)[i] = a[i]
      /\ \A i \in 1..Len(m) : Joint(a, m)[Len(a) + i] = m[i]
    BY <1>1, Concatenated
<1> DEFINE c == Joint(a, m)
           t == Joint(c, b)
<1>4. Len(c) = Len(m) + 1 /\ c[1] = x /\ \A i \in 1..Len(m) : c[i + 1] = m[i]
    BY <1>2, <1>3
<1>5. c \in Seq(Byte) /\ Len(m) \in Nat
    BY <1>3
<1> HIDE DEF c
<1>6. /\ Joint(c, b) \in Seq(Byte) /\ Len(Joint(c, b)) = Len(c) + Len(b)
      /\ Len(c) \in Nat /\ Len(b) \in Nat
      /\ \A i \in 1..Len(c) : Joint(c, b)[i] = c[i]
      /\ \A i \in 1..Len(b) : Joint(c, b)[Len(c) + i] = b[i]
    BY <1>1, <1>5, Concatenated
<1>7. Len(t) = Len(m) + 3 /\ t[Len(m) + 2] = y /\ t[Len(m) + 3] = y
    BY <1>2, <1>4, <1>5, <1>6
<1>8. t[1] = x /\ \A i \in 1..Len(m) : t[i + 1] = m[i]
    BY <1>4, <1>5, <1>6
<1> QED
    BY <1>5, <1>6, <1>7, <1>8 DEF Frame, a, b, c

LEMMA BytesAre ==
    ASSUME NEW n \in Nat
    PROVE  /\ Bytes(n) \in Seq(Byte) /\ Len(Bytes(n)) = Size(n)
           /\ \A i \in 1..Size(n) : Bytes(n)[i] = ByteAt(n, i)
<1> DEFINE line == [line |-> n]
           hi   == [hi |-> n]
           lo   == [lo |-> n]
           nl   == [nl |-> n]
<1>1. line \in Byte /\ hi \in Byte /\ lo \in Byte /\ nl \in Byte
    BY DEF Byte
<1>2. Bytes(n) = IF n \in Wide THEN <<line>> \o <<hi, lo>> \o <<nl, nl>> ELSE <<line>> \o <<>> \o <<nl, nl>>
    BY DEF Bytes
<1>3. \A i : ByteAt(n, i) = IF i = 1 THEN line ELSE IF i >= Size(n) - 1 THEN nl ELSE IF i = 2 THEN hi ELSE lo
    BY DEF ByteAt
<1> HIDE DEF line, hi, lo, nl
<1>4. CASE n \in Wide
  <2> DEFINE m == <<hi, lo>>
  <2>1. m \in Seq(Byte) /\ Len(m) = 2 /\ m[1] = hi /\ m[2] = lo
    BY <1>1
  <2>2. Bytes(n) = Frame(line, m, nl) /\ Size(n) = 5
    BY <1>2, <1>4 DEF Size, Frame, Joint
  <2> HIDE DEF m
  <2>9. m \in Seq(Byte) /\ line \in Byte /\ nl \in Byte
    BY <1>1, <2>1
  <2> DEFINE t == Frame(line, m, nl)
  <2>7. /\ t \in Seq(Byte) /\ Len(t) = Len(m) + 3
        /\ t[1] = line /\ t[Len(m) + 2] = nl /\ t[Len(m) + 3] = nl
        /\ \A i \in 1..Len(m) : t[i + 1] = m[i]
    BY ONLY <2>9, Framed
  <2>3. t \in Seq(Byte) /\ Len(t) = 5 /\ Bytes(n) = t
    BY <2>1, <2>2, <2>7
  <2>4. /\ t[1] = line /\ t[4] = nl /\ t[5] = nl
        /\ \A i \in 1..2 : t[i + 1] = m[i]
    BY <2>1, <2>7
  <2>5. t[2] = hi /\ t[3] = lo
    BY <2>1, <2>4
  <2>6. \A i \in 1..5 : t[i] = ByteAt(n, i)
    BY <1>3, <2>2, <2>4, <2>5
  <2> QED
    BY <2>2, <2>3, <2>6
<1>5. CASE n \notin Wide
  <2> DEFINE m == <<>>
  <2>1. m \in Seq(Byte) /\ Len(m) = 0
    OBVIOUS
  <2>2. Bytes(n) = Frame(line, m, nl) /\ Size(n) = 3
    BY <1>2, <1>5 DEF Size, Frame, Joint
  <2> HIDE DEF m
  <2>9. m \in Seq(Byte) /\ line \in Byte /\ nl \in Byte
    BY <1>1, <2>1
  <2> DEFINE t == Frame(line, m, nl)
  <2>3. /\ t \in Seq(Byte) /\ Len(t) = Len(m) + 3
        /\ t[1] = line /\ t[Len(m) + 2] = nl /\ t[Len(m) + 3] = nl
    BY ONLY <2>9, Framed
  <2>4. Len(t) = 3 /\ t[1] = line /\ t[2] = nl /\ t[3] = nl
    BY <2>1, <2>3
  <2>5. \A i \in 1..3 : t[i] = ByteAt(n, i)
    BY <1>3, <2>2, <2>4
  <2> QED
    BY <2>2, <2>3, <2>4, <2>5
<1> QED
    BY <1>4, <1>5

LEMMA BytesTell ==
    ASSUME NEW n \in Nat, NEW i \in 1..Size(n)
    PROVE  /\ ByteAt(n, i) # Spoiled
           /\ IsFeed(ByteAt(n, i)) <=> i >= Size(n) - 1
           /\ ~IsFeed(Spoiled)
           /\ {"hi", "lo"} \cap DOMAIN ByteAt(n, i) # {} => n \in Wide /\ i \in {2, 3}
           /\ \A m \in Nat : \A j \in 1..Size(m) : ByteAt(n, i) = ByteAt(m, j) => m = n
<1>1. /\ DOMAIN [line |-> n] = {"line"} /\ DOMAIN [hi |-> n] = {"hi"} /\ DOMAIN [lo |-> n] = {"lo"}
      /\ DOMAIN [nl |-> n] = {"nl"} /\ DOMAIN Spoiled = {"spoiled"}
    BY DEF Spoiled
<1>2. DOMAIN ByteAt(n, i) \in {{"line"}, {"hi"}, {"lo"}, {"nl"}}
    BY <1>1 DEF ByteAt
<1>3. DOMAIN ByteAt(n, i) = {"nl"} <=> i >= Size(n) - 1
    BY <1>1, SizeType DEF ByteAt
<1>4. DOMAIN ByteAt(n, i) \in {{"hi"}, {"lo"}} => n \in Wide /\ i \in {2, 3}
    BY <1>1 DEF ByteAt, Size
<1>5. ASSUME NEW m \in Nat, NEW j \in 1..Size(m), ByteAt(n, i) = ByteAt(m, j)
      PROVE  m = n
  <2> DEFINE Number(b) == IF DOMAIN b = {"line"} THEN b.line ELSE IF DOMAIN b = {"hi"} THEN b.hi
                          ELSE IF DOMAIN b = {"lo"} THEN b.lo ELSE b.nl
  <2>1. \A x, k : Number(ByteAt(x, k)) = x
    BY DEF ByteAt
  <2> HIDE DEF Number
  <2> QED
    BY <1>5, <2>1
<1>6. ByteAt(n, i) # Spoiled
    BY <1>1, <1>2
<1>7. (IsFeed(ByteAt(n, i)) <=> i >= Size(n) - 1) /\ ~IsFeed(Spoiled)
    BY <1>1, <1>2, <1>3 DEF IsFeed
<1>8. {"hi", "lo"} \cap DOMAIN ByteAt(n, i) # {} => n \in Wide /\ i \in {2, 3}
    BY <1>2, <1>4
<1> QED
    BY <1>5, <1>6, <1>7, <1>8

--------------------------------------------------------------------------------
(***************************************************************************)
(* The k-th of a set of numbers, if the set is that of an increasing list. *)
(***************************************************************************)
LEMMA Counted ==
    ASSUME NEW c \in Nat, NEW f, \A i \in 1..c : f[i] \in Nat,
           \A i, j \in 1..c : i < j => f[i] < f[j]
    PROVE  Cardinality({f[i] : i \in 1..c}) = c
<1> DEFINE S == {f[i] : i \in 1..c}
           g == [i \in 1..c |-> f[i]]
<1>1. g \in [1..c -> S] /\ \A y \in S : \E i \in 1..c : g[i] = y
    OBVIOUS
<1>2. ASSUME NEW i \in 1..c, NEW j \in 1..c, g[i] = g[j]
      PROVE  i = j
  <2>1. i < j \/ j < i \/ i = j
    OBVIOUS
  <2>2. f[i] = f[j] /\ f[i] \in Nat /\ f[j] \in Nat
    BY <1>2
  <2> QED
    BY <2>1, <2>2
<1>3. DOMAIN g = 1..c
    OBVIOUS
<1> HIDE DEF g, S
<1>4. g \in Bijection(1..c, S)
    BY <1>1, <1>2, <1>3 DEF Bijection, Injection, Surjection, IsInjective
<1>5. ExistsBijection(1..c, S)
    BY <1>4 DEF ExistsBijection
<1>6. Cardinality(S) = c
    BY <1>5, FS_CountingElements
<1> QED
    BY <1>6 DEF S

LEMMA Ranked ==
    ASSUME NEW c \in Nat, NEW f, \A i \in 1..c : f[i] \in Nat,
           \A i, j \in 1..c : i < j => f[i] < f[j],
           NEW text, Ends(text) = {f[i] : i \in 1..c}
    PROVE  Cardinality(Ends(text)) = c /\ \A k \in 1..c : EndOf(text, k) = f[k]
<1> DEFINE E == Ends(text)
           Below(i) == {j \in E : j <= i}
<1>1. ASSUME NEW k \in 1..c
      PROVE  Cardinality(Below(f[k])) = k
  <2>1. Below(f[k]) = {f[i] : i \in 1..k}
    <3>1. ASSUME NEW i \in 1..k
          PROVE  f[i] \in Below(f[k])
      <4>1. i \in 1..c /\ (i < k \/ i = k) /\ f[i] \in Nat /\ f[k] \in Nat
        OBVIOUS
      <4>2. f[i] <= f[k]
        BY <4>1
      <4> QED
        BY <4>1, <4>2
    <3>2. ASSUME NEW i \in 1..c, f[i] <= f[k]
          PROVE  i \in 1..k
      <4>1. i <= k \/ k < i
        OBVIOUS
      <4>2. f[i] \in Nat /\ f[k] \in Nat
        OBVIOUS
      <4> QED
        BY <3>2, <4>1, <4>2
    <3> QED
      BY <3>1, <3>2
  <2>2. k \in Nat /\ \A i \in 1..k : i \in 1..c
    OBVIOUS
  <2>3. Cardinality({f[i] : i \in 1..k}) = k
    BY <2>2, Counted
  <2> QED
    BY <2>1, <2>3
<1>2. ASSUME NEW k \in 1..c
      PROVE  EndOf(text, k) = f[k]
  <2>1. f[k] \in E /\ Cardinality(Below(f[k])) = k
    BY <1>1
  <2>2. ASSUME NEW i \in E, Cardinality(Below(i)) = k
        PROVE  i = f[k]
    <3>1. PICK m \in 1..c : i = f[m]
      OBVIOUS
    <3>2. Cardinality(Below(f[m])) = m
      BY <1>1
    <3> QED
      BY <2>2, <3>1, <3>2
  <2>3. EndOf(text, k) = CHOOSE i \in E : Cardinality(Below(i)) = k
    BY DEF EndOf
  <2> HIDE DEF Below, E
  <2> QED
    BY <2>1, <2>2, <2>3
<1>3. Cardinality(Ends(text)) = c
    BY Counted
<1> QED
    BY <1>2, <1>3

--------------------------------------------------------------------------------
(***************************************************************************)
(* Where the events from the a-th to the N-th are in a text that is made   *)
(* of them: event n begins after at[n] bytes.  What comes after `exact`    *)
(* bytes is as it was sent.                                                *)
(***************************************************************************)
AsSent(b, n, i) == b = ByteAt(n, i) \/ (b = Spoiled /\ n \in Wide /\ i \in {2, 3})

Places(s, a, N, at) ==
    /\ a \in Nat \ {0} /\ N \in Nat /\ a <= N + 1 /\ s \in Seq(Byte)
    /\ at[a] = 0 /\ at[N + 1] = Len(s)
    /\ \A n \in a..(N + 1) : at[n] \in Nat
    /\ \A n \in a..N : at[n + 1] = at[n] + Size(n)
    /\ \A m, n \in a..(N + 1) : m < n => at[m] < at[n]
    /\ \A p \in 1..Len(s) : \E n \in a..N : \E i \in 1..Size(n) : p = at[n] + i

Layout(s, exact, a, N, at) ==
    /\ Places(s, a, N, at)
    /\ \A n \in a..N : \A i \in 1..Size(n) :
          AsSent(s[at[n] + i], n, i) /\ (at[n] + i > exact => s[at[n] + i] = ByteAt(n, i))

LEMMA Inside ==
    ASSUME NEW s, NEW a, NEW N, NEW at, Places(s, a, N, at), NEW n \in a..N, NEW i \in 1..Size(n)
    PROVE  /\ at[n] + i \in 1..Len(s) /\ at[n] + i <= at[n + 1] /\ at[n] \in Nat /\ at[n + 1] \in Nat
           /\ n \in Nat /\ n + 1 \in a..(N + 1) /\ at[n + 1] = at[n] + Size(n) /\ Size(n) \in {3, 5}
<1>1. /\ a \in Nat \ {0} /\ N \in Nat /\ a <= N + 1 /\ s \in Seq(Byte) /\ at[N + 1] = Len(s)
      /\ \A m \in a..(N + 1) : at[m] \in Nat
      /\ \A m \in a..N : at[m + 1] = at[m] + Size(m)
      /\ \A m, k \in a..(N + 1) : m < k => at[m] < at[k]
    BY DEF Places
<1>2. n \in Nat /\ n + 1 \in a..(N + 1) /\ n \in a..(N + 1) /\ N + 1 \in a..(N + 1)
    BY <1>1
<1>3. at[n] \in Nat /\ at[n + 1] \in Nat /\ at[n + 1] = at[n] + Size(n) /\ Len(s) \in Nat /\ at[N + 1] \in Nat
    BY <1>1, <1>2
<1>4. at[n + 1] <= Len(s)
  <2>1. CASE n = N
    BY <1>1, <1>3, <2>1
  <2>2. CASE n # N
    <3>1. n + 1 < N + 1
      BY <1>1, <1>2, <2>2
    <3> QED
      BY <1>1, <1>2, <1>3, <3>1
  <2> QED
    BY <2>1, <2>2
<1>5. Size(n) \in {3, 5}
    BY SizeType
<1> QED
    BY <1>2, <1>3, <1>4, <1>5, SMTT(30)

LEMMA FeedsAre ==
    ASSUME NEW s, NEW exact, NEW a, NEW N, NEW at, Layout(s, exact, a, N, at),
           NEW n \in a..N, NEW i \in 1..Size(n)
    PROVE  IsFeed(s[at[n] + i]) <=> i >= Size(n) - 1
<1>1. Places(s, a, N, at) /\ AsSent(s[at[n] + i], n, i)
    BY DEF Layout
<1>2. n \in Nat /\ Size(n) \in {3, 5}
    BY <1>1, Inside
<1>3. CASE s[at[n] + i] = ByteAt(n, i)
    BY <1>2, <1>3, BytesTell
<1>4. CASE s[at[n] + i] = Spoiled /\ n \in Wide /\ i \in {2, 3}
    BY <1>2, <1>4, BytesTell DEF Size
<1> QED
    BY <1>1, <1>3, <1>4 DEF AsSent

LEMMA EndsAre ==
    ASSUME NEW s, NEW exact, NEW a, NEW N, NEW at, Layout(s, exact, a, N, at),
           NEW text \in Seq(Byte), Len(text) <= Len(s), \A p \in 1..Len(text) : text[p] = s[p]
    PROVE  Ends(text) = {at[n] : n \in {m \in (a + 1)..(N + 1) : at[m] <= Len(text)}}
<1> DEFINE L == Len(text)
<1>0. Places(s, a, N, at)
    BY DEF Layout
<1>1. Places(s, a, N, at) /\ a \in Nat /\ N \in Nat /\ L \in Nat /\ s \in Seq(Byte) /\ Len(s) \in Nat
  <2>1. a \in Nat /\ N \in Nat /\ s \in Seq(Byte)
    BY <1>0 DEF Places
  <2> QED
    BY <1>0, <2>1
<1>2. ASSUME NEW m \in (a + 1)..(N + 1), at[m] <= L
      PROVE  at[m] \in Ends(text)
  <2> DEFINE n == m - 1
  <2>1. n \in a..N /\ n + 1 = m
    BY <1>1
  <2> HIDE DEF n
  <2>2. Size(n) \in {3, 5} /\ at[m] = at[n] + Size(n) /\ at[n] \in Nat
    <3>1. 1 \in 1..Size(n)
      BY SizeType
    <3> QED
      BY <1>1, <2>1, <3>1, Inside
  <2>3. Size(n) \in 1..Size(n) /\ Size(n) - 1 \in 1..Size(n)
    BY <2>2
  <2>4. IsFeed(s[at[n] + Size(n)]) /\ IsFeed(s[at[n] + (Size(n) - 1)])
    BY <2>1, <2>3, <2>2, FeedsAre
  <2>5. at[n] + Size(n) = at[m] /\ at[n] + (Size(n) - 1) = at[m] - 1 /\ at[m] \in 2..L /\ at[m] - 1 \in 1..L
        /\ at[m] \in 1..L
    BY <1>1, <1>2, <2>2, SMTT(30)
  <2>6. IsFeed(text[at[m]]) /\ IsFeed(text[at[m] - 1])
    BY <2>4, <2>5
  <2> QED
    BY <2>5, <2>6 DEF Ends
<1>3. ASSUME NEW p \in Ends(text)
      PROVE  \E m \in (a + 1)..(N + 1) : at[m] <= L /\ p = at[m]
  <2>1. p \in 2..L /\ IsFeed(text[p]) /\ IsFeed(text[p - 1])
    BY DEF Ends
  <2>2. p \in 1..L /\ p - 1 \in 1..L /\ p \in 1..Len(s)
    BY <1>1, <2>1
  <2>3. IsFeed(s[p]) /\ IsFeed(s[p - 1])
    BY <2>1, <2>2
  <2>4. PICK n \in a..N : \E i \in 1..Size(n) : p = at[n] + i
    BY <1>1, <2>2 DEF Places
  <2>5. PICK i \in 1..Size(n) : p = at[n] + i
    BY <2>4
  <2>6. /\ at[n] \in Nat /\ Size(n) \in {3, 5} /\ at[n + 1] = at[n] + Size(n) /\ n + 1 \in (a + 1)..(N + 1)
    BY <1>1, Inside
  <2>7. i >= Size(n) - 1
    BY <2>3, <2>5, FeedsAre
  <2>8. i # Size(n) - 1
    <3>1. SUFFICES ASSUME i = Size(n) - 1 PROVE FALSE
      OBVIOUS
    <3>2. i - 1 \in 1..Size(n) /\ p - 1 = at[n] + (i - 1)
      BY <2>5, <2>6, <3>1
    <3>3. i - 1 >= Size(n) - 1
      BY <2>3, <3>2, FeedsAre
    <3> QED
      BY <2>6, <3>1, <3>3
  <2>9. i = Size(n)
    BY <2>6, <2>7, <2>8
  <2>10. p = at[n + 1] /\ at[n + 1] <= L
    BY <2>1, <2>5, <2>6, <2>9
  <2> QED
    BY <2>6, <2>10
<1> QED
    BY <1>2, <1>3

LEMMA LastBefore ==
    ASSUME NEW s, NEW a, NEW N, NEW at, Places(s, a, N, at), NEW L \in Nat
    PROVE  \E b \in a..(N + 1) : at[b] <= L /\ (b <= N => at[b + 1] > L)
<1> SUFFICES ASSUME \A b \in a..(N + 1) : at[b] <= L => b <= N /\ ~(at[b + 1] > L)
             PROVE  FALSE
    OBVIOUS
<1> DEFINE K == N + 1 - a
           T == {k \in 0..K : at[a + k] <= L}
<1>1. /\ a \in Nat \ {0} /\ N \in Nat /\ a <= N + 1 /\ at[a] = 0
      /\ \A n \in a..(N + 1) : at[n] \in Nat
    BY DEF Places
<1>2. K \in Nat /\ a + K = N + 1
    BY <1>1
<1>3. 0 \in T
  <2>1. a + 0 = a /\ 0 \in 0..K
    BY <1>1, <1>2
  <2> QED
    BY <1>1, <2>1
<1>4. ASSUME NEW k \in 0..K, k \in T, k < K
      PROVE  k + 1 \in T
  <2>1. a + k \in a..(N + 1) /\ a + (k + 1) = a + k + 1 /\ a + k + 1 \in a..(N + 1) /\ k + 1 \in 0..K
    BY <1>1, <1>2, <1>4
  <2>2. at[a + k + 1] \in Nat /\ ~(at[a + k + 1] > L)
    BY <1>1, <1>4, <2>1
  <2>3. at[a + (k + 1)] <= L
    BY <2>1, <2>2
  <2> QED
    BY <2>1, <2>3
<1>5. \A k \in 0..K : k \in T /\ k < K => k + 1 \in T
    BY <1>4
<1> HIDE DEF T
<1>6. \A k \in 0..K : k \in T
    BY <1>2, <1>3, <1>5, InductionUpTo
<1>7. K \in T
    BY <1>2, <1>6
<1>8. at[N + 1] <= L
    BY <1>2, <1>7 DEF T
<1> QED
    BY <1>1, <1>8

EventType == [number : Nat, whole : BOOLEAN]

LEMMA Cut ==
    ASSUME NEW s \in Seq(Byte), NEW m \in Nat, NEW n \in Nat, m <= n, n <= Len(s)
    PROVE  /\ SubSeq(s, m + 1, n) \in Seq(Byte) /\ Len(SubSeq(s, m + 1, n)) = n - m
           /\ \A i \in 1..(n - m) : SubSeq(s, m + 1, n)[i] = s[m + i]
<1>1. SubSeq(s, m + 1, n) = [i \in 1..(n - m) |-> s[m + i]]
  <2>1. SubSeq(s, m + 1, n) = [i \in 1..(1 + n - (m + 1)) |-> s[i + (m + 1) - 1]]
    BY DEF SubSeq
  <2>2. 1 + n - (m + 1) = n - m /\ \A i \in 1..(n - m) : i + (m + 1) - 1 = m + i
    OBVIOUS
  <2> QED
    BY <2>1, <2>2
<1>2. \A i \in 1..(n - m) : m + i \in 1..Len(s) /\ s[m + i] \in Byte
    OBVIOUS
<1> QED
    BY <1>1, <1>2

LEMMA EventIs ==
    ASSUME NEW s, NEW exact, NEW a, NEW N, NEW at, Layout(s, exact, a, N, at),
           NEW text \in Seq(Byte), Len(text) <= Len(s), \A p \in 1..Len(text) : text[p] = s[p],
           NEW n \in a..N, at[n + 1] <= Len(text)
    PROVE  LET event == EventOf(SubSeq(text, at[n] + 1, at[n + 1]))
           IN  event \in EventType /\ event.number = n /\ (event.whole \/ n \in Wide)
<1>1. Places(s, a, N, at)
    BY DEF Layout
<1>2. Size(n) \in {3, 5} /\ 1 \in 1..Size(n)
    BY SizeType
<1>3. n \in Nat /\ at[n] \in Nat /\ at[n + 1] \in Nat /\ at[n + 1] = at[n] + Size(n)
    BY <1>1, <1>2, Inside
<1> DEFINE bytes == SubSeq(text, at[n] + 1, at[n + 1])
<1>4. Len(text) \in Nat /\ at[n] + 1 \in 1..Len(text)
    BY <1>2, <1>3
<1>5. bytes \in Seq(Byte) /\ Len(bytes) = Size(n)
    BY <1>2, <1>3, <1>4
<1>6. \A i \in 1..Size(n) : bytes[i] = s[at[n] + i]
  <2>1. \A i \in 1..Size(n) : bytes[i] = text[at[n] + i]
    <3>1. at[n] <= at[n + 1] /\ at[n + 1] - at[n] = Size(n)
      BY <1>2, <1>3
    <3> QED
      BY <1>3, <3>1, Cut
  <2>2. \A i \in 1..Size(n) : at[n] + i \in 1..Len(text)
    BY <1>2, <1>3
  <2> QED
    BY <2>1, <2>2
<1>7. ASSUME NEW i \in 1..Size(n)
      PROVE  AsSent(bytes[i], n, i)
    BY <1>6 DEF Layout
<1>8. Head(bytes) = bytes[1]
    BY <1>2, <1>5
<1> HIDE DEF bytes
<1>9. bytes[1] = [line |-> n]
    BY <1>2, <1>7 DEF AsSent, ByteAt
<1>10. n \notin Wide => ~Contains(bytes, Spoiled)
  <2> SUFFICES ASSUME n \notin Wide, NEW i \in 1..Size(n), bytes[i] = Spoiled PROVE FALSE
    BY <1>5 DEF Contains
  <2>1. bytes[i] = ByteAt(n, i)
    BY <1>7 DEF AsSent
  <2>2. ByteAt(n, i) # Spoiled
    BY <1>3, BytesTell
  <2> QED
    BY <2>1, <2>2
<1>11. EventOf(bytes) = [number |-> n, whole |-> ~Contains(bytes, Spoiled)]
    BY <1>8, <1>9 DEF EventOf
<1>12. Contains(bytes, Spoiled) \in BOOLEAN
    BY DEF Contains
<1> DEFINE event == EventOf(bytes)
<1>13. event \in EventType /\ event.number = n
    BY <1>3, <1>11, <1>12 DEF EventType
<1>14. event.whole = ~Contains(bytes, Spoiled)
    BY <1>11
<1> HIDE DEF event
<1>15. event.whole \/ n \in Wide
  <2>1. CASE n \notin Wide
    <3>1. ~Contains(bytes, Spoiled) = TRUE
      BY <1>10, <2>1
    <3> QED
      BY <1>14, <3>1
  <2> QED
    BY <2>1
<1> QED
    BY <1>13, <1>15 DEF bytes, event

LEMMA ParsedAre ==
    ASSUME NEW s, NEW exact, NEW a, NEW N, NEW at, Layout(s, exact, a, N, at),
           NEW text \in Seq(Byte), Len(text) <= Len(s), \A p \in 1..Len(text) : text[p] = s[p],
           NEW b \in a..(N + 1), at[b] <= Len(text), b <= N => at[b + 1] > Len(text)
    PROVE  /\ Parsed(text) \in Seq(EventType) /\ Len(Parsed(text)) = b - a
           /\ \A k \in 1..(b - a) : Parsed(text)[k].number = a + k - 1
                                    /\ (Parsed(text)[k].whole \/ a + k - 1 \in Wide)
           /\ Unparsed(text) = SubSeq(text, at[b] + 1, Len(text))
<1> DEFINE L == Len(text)
           c == b - a
           f == [k \in 1..c |-> at[a + k]]
<1>0. Places(s, a, N, at)
    BY DEF Layout
<1>1. /\ a \in Nat /\ N \in Nat /\ a <= N + 1 /\ at[a] = 0
      /\ \A n \in a..(N + 1) : at[n] \in Nat
      /\ \A m, n \in a..(N + 1) : m < n => at[m] < at[n]
    BY <1>0 DEF Places
<1>2. L \in Nat /\ c \in Nat /\ b \in Nat /\ a + c = b
    BY <1>1
<1>3. \A k \in 1..c : a + k \in a..(N + 1) /\ a + k \in (a + 1)..b
    BY <1>1, <1>2
<1>4. \A k \in 1..c : f[k] \in Nat
    BY <1>1, <1>3
<1>5. ASSUME NEW i \in 1..c, NEW j \in 1..c, i < j PROVE f[i] < f[j]
  <2>1. a + i < a + j
    BY <1>1, <1>5
  <2> QED
    BY <1>1, <1>3, <2>1
<1>6. \A m \in (a + 1)..(N + 1) : at[m] <= L <=> m <= b
  <2> SUFFICES ASSUME NEW m \in (a + 1)..(N + 1) PROVE at[m] <= L <=> m <= b
    OBVIOUS
  <2>1. m \in a..(N + 1) /\ m \in Nat /\ at[m] \in Nat /\ at[b] \in Nat
    BY <1>1
  <2>2. CASE m < b
    BY <1>1, <1>2, <2>1, <2>2
  <2>3. CASE m = b
    BY <2>3, <1>2
  <2>4. CASE m = b + 1
    BY <1>1, <1>2, <2>1, <2>4
  <2>5. CASE m > b + 1
    <3>1. b <= N /\ b + 1 \in a..(N + 1)
      BY <1>1, <1>2, <2>5
    <3>2. at[b + 1] < at[m] /\ at[b + 1] \in Nat /\ at[b + 1] > L
      BY <1>1, <2>1, <2>5, <3>1, <1>2
    <3> QED
      BY <1>2, <2>1, <2>5, <3>2
  <2> QED
    BY <1>2, <2>1, <2>2, <2>3, <2>4, <2>5
<1>7. Ends(text) = {at[n] : n \in {m \in (a + 1)..(N + 1) : at[m] <= L}}
    BY EndsAre
<1>8. Ends(text) = {f[i] : i \in 1..c}
  <2>1. ASSUME NEW n \in (a + 1)..(N + 1), at[n] <= L
        PROVE  \E i \in 1..c : at[n] = f[i]
    <3>1. n <= b
      BY <1>6, <2>1
    <3>2. n - a \in 1..c /\ a + (n - a) = n
      BY <1>1, <1>2, <3>1
    <3> QED
      BY <3>2
  <2>2. ASSUME NEW i \in 1..c
        PROVE  \E n \in (a + 1)..(N + 1) : at[n] <= L /\ f[i] = at[n]
    <3>1. a + i \in (a + 1)..(N + 1) /\ a + i <= b
      BY <1>1, <1>2, <1>3
    <3>2. at[a + i] <= L
      BY <1>6, <3>1
    <3>3. f[i] = at[a + i]
      OBVIOUS
    <3> QED
      BY <3>1, <3>2, <3>3
  <2> QED
    BY <1>7, <2>1, <2>2, SMTT(30)
<1> HIDE DEF f
<1>9. Cardinality(Ends(text)) = c /\ \A k \in 1..c : EndOf(text, k) = f[k]
    BY ONLY <1>2, <1>4, <1>5, <1>8, Ranked, ZenonT(60)
<1>10. \A k \in 1..c : EndOf(text, k) = at[a + k]
    BY <1>9 DEF f
<1> DEFINE start(k) == IF k = 1 THEN 1 ELSE EndOf(text, k - 1) + 1
           event(k) == EventOf(SubSeq(text, start(k), EndOf(text, k)))
<1>11. Parsed(text) = [k \in 1..c |-> event(k)]
    BY <1>9 DEF Parsed
<1>12. ASSUME NEW k \in 1..c
       PROVE  event(k) \in EventType /\ event(k).number = a + k - 1 /\ (event(k).whole \/ a + k - 1 \in Wide)
  <2> DEFINE n == a + k - 1
  <2>1. n \in a..N /\ n + 1 = a + k
    BY <1>1, <1>2
  <2>2. start(k) = at[n] + 1
    <3>1. CASE k = 1
      BY <3>1, <1>1
    <3>2. CASE k # 1
      <4>1. k - 1 \in 1..c /\ a + (k - 1) = n
        BY <1>1, <1>2, <3>2
      <4>2. EndOf(text, k - 1) = at[n]
        BY <1>10, <4>1
      <4> QED
        BY <3>2, <4>2
    <3> QED
      BY <3>1, <3>2
  <2>3. EndOf(text, k) = at[n + 1]
    BY <1>10, <2>1
  <2>4. at[n + 1] <= L
    <3>1. n + 1 \in (a + 1)..(N + 1) /\ n + 1 <= b
      BY <1>1, <1>2, <2>1, <1>3
    <3> QED
      BY <1>6, <3>1
  <2> HIDE DEF n
  <2>5. LET e == EventOf(SubSeq(text, at[n] + 1, at[n + 1]))
        IN  e \in EventType /\ e.number = n /\ (e.whole \/ n \in Wide)
    BY <2>1, <2>4, EventIs
  <2>6. event(k) = EventOf(SubSeq(text, at[n] + 1, at[n + 1]))
    BY <2>2, <2>3
  <2> HIDE DEF event
  <2> QED
    BY <2>5, <2>6 DEF n
<1> HIDE DEF event
<1>13. Parsed(text) \in Seq(EventType) /\ Len(Parsed(text)) = c
    BY <1>2, <1>11, <1>12
<1>14. \A k \in 1..c : Parsed(text)[k].number = a + k - 1 /\ (Parsed(text)[k].whole \/ a + k - 1 \in Wide)
    BY <1>11, <1>12
<1>15. Unparsed(text) = SubSeq(text, at[b] + 1, Len(text))
  <2>1. CASE c = 0
    <3>0. 1..c = {}
      BY <2>1
    <3>1. Ends(text) = {} /\ b = a
      BY <1>1, <1>2, <1>8, <2>1, <3>0
    <3>2. Unparsed(text) = text /\ at[b] + 1 = 1
      BY <1>1, <3>1 DEF Unparsed
    <3>3. SubSeq(text, 1, Len(text)) = text
      OBVIOUS
    <3> QED
      BY <3>2, <3>3
  <2>2. CASE c # 0
    <3>1. c \in 1..c /\ f[c] = at[b] /\ \A i \in 1..c : i = c \/ i < c
      BY <1>2, <2>2 DEF f
    <3>2. f[c] \in Ends(text) /\ \A i \in 1..c : f[i] \in Nat /\ f[i] <= f[c]
      BY <1>4, <1>5, <1>8, <3>1
    <3>3. \A y \in Ends(text) : y \in Nat /\ f[c] >= y
      BY <1>8, <3>2
    <3>4. \A x \in Ends(text) : (\A y \in Ends(text) : x >= y) => x = f[c]
      BY <3>2, <3>3
    <3>5. Max(Ends(text)) = f[c]
      BY <3>2, <3>3, <3>4 DEF Max
    <3> QED
      BY <3>1, <3>2, <3>5 DEF Unparsed
  <2> QED
    BY <2>1, <2>2
<1> QED
    BY <1>13, <1>14, <1>15

LEMMA JointAt ==
    ASSUME NEW s \in Seq(Byte), NEW t \in Seq(Byte), NEW p \in 1..(Len(s) + Len(t))
    PROVE  Joint(s, t)[p] = IF p <= Len(s) THEN s[p] ELSE t[p - Len(s)]
<1>1. /\ Len(s) \in Nat /\ Len(t) \in Nat
      /\ \A i \in 1..Len(s) : Joint(s, t)[i] = s[i]
      /\ \A i \in 1..Len(t) : Joint(s, t)[Len(s) + i] = t[i]
    BY Concatenated
<1>2. CASE p <= Len(s)
    BY <1>1, <1>2
<1>3. CASE ~(p <= Len(s))
  <2>1. p - Len(s) \in 1..Len(t) /\ Len(s) + (p - Len(s)) = p
    BY <1>1, <1>3
  <2> QED
    BY <1>1, <1>3, <2>1
<1> QED
    BY <1>2, <1>3

\* Half a character may be spoiled, and nothing else.
LEMMA Lossy ==
    ASSUME NEW chunk \in Seq(Byte)
    PROVE  /\ FromUtf8Lossy(chunk) \in Seq(Byte) /\ Len(FromUtf8Lossy(chunk)) = Len(chunk)
           /\ \A j \in 1..Len(chunk) :
                 \/ FromUtf8Lossy(chunk)[j] = chunk[j]
                 \/ FromUtf8Lossy(chunk)[j] = Spoiled /\ {"hi", "lo"} \cap DOMAIN chunk[j] # {}
<1>1. DOMAIN chunk = 1..Len(chunk) /\ Len(chunk) \in Nat
    OBVIOUS
<1> DEFINE half(i) == \/ "hi" \in DOMAIN chunk[i] /\ i = Len(chunk)
                      \/ "lo" \in DOMAIN chunk[i] /\ i = 1
<1>2. FromUtf8Lossy(chunk) = [i \in 1..Len(chunk) |-> IF half(i) THEN Spoiled ELSE chunk[i]]
    BY <1>1 DEF FromUtf8Lossy
<1>3. \A i : half(i) => {"hi", "lo"} \cap DOMAIN chunk[i] # {}
    OBVIOUS
<1> HIDE DEF half
<1>4. Spoiled \in Byte
    BY DEF Byte
<1> QED
    BY <1>1, <1>2, <1>3, <1>4

Fed(u, w, m)      == Joint(u, FromUtf8Lossy(SubSeq(w, 1, m)))
After(s, m)       == SubSeq(s, m + 1, Len(s))
From(at, b, last) == [n \in b..last |-> at[n] - at[b]]

\* The bytes of a chunk come to the buffer.
LEMMA Decoded ==
    ASSUME NEW u \in Seq(Byte), NEW w \in Seq(Byte), NEW m \in 1..Len(w),
           NEW a, NEW N, NEW at, Layout(Joint(u, w), Len(u), a, N, at)
    PROVE  /\ Fed(u, w, m) \in Seq(Byte) /\ After(w, m) \in Seq(Byte)
           /\ Layout(Joint(Fed(u, w, m), After(w, m)), Len(Fed(u, w, m)), a, N, at)
<1> DEFINE text == Fed(u, w, m)
           rest == After(w, m)
<1>0. text = Joint(u, FromUtf8Lossy(SubSeq(w, 1, m))) /\ rest = SubSeq(w, m + 1, Len(w))
    BY DEF Fed, After
<1> HIDE DEF text, rest
<1> DEFINE chunk == SubSeq(w, 0 + 1, m)
           lossy == FromUtf8Lossy(chunk)
           s == Joint(u, w)
           t == Joint(text, rest)
<1>1. Len(w) \in Nat /\ Len(u) \in Nat /\ m \in Nat /\ m <= Len(w) /\ 0 + 1 = 1
    OBVIOUS
<1>2. chunk \in Seq(Byte) /\ Len(chunk) = m /\ \A j \in 1..m : chunk[j] = w[j]
  <2>1. chunk \in Seq(Byte) /\ Len(chunk) = m - 0 /\ \A j \in 1..(m - 0) : chunk[j] = w[0 + j]
    BY <1>1, Cut
  <2> QED
    BY <2>1, <1>1
<1>3. rest \in Seq(Byte) /\ Len(rest) = Len(w) - m /\ \A j \in 1..(Len(w) - m) : rest[j] = w[m + j]
    BY <1>0, <1>1, Cut
<1> HIDE DEF chunk
<1>4. /\ lossy \in Seq(Byte) /\ Len(lossy) = m
      /\ \A j \in 1..m : lossy[j] = w[j] \/ (lossy[j] = Spoiled /\ {"hi", "lo"} \cap DOMAIN w[j] # {})
    BY <1>2, Lossy
<1>5. text = Joint(u, lossy)
    BY <1>0, <1>1 DEF chunk
<1> HIDE DEF lossy
<1>6. text \in Seq(Byte) /\ Len(text) = Len(u) + m
    BY <1>4, <1>5, Concatenated
<1>7. /\ t \in Seq(Byte) /\ Len(t) = Len(u) + Len(w) /\ s \in Seq(Byte) /\ Len(s) = Len(u) + Len(w)
      /\ Len(text) + Len(rest) = Len(s)
  <2>1. t \in Seq(Byte) /\ Len(t) = Len(text) + Len(rest)
    BY <1>3, <1>6, Concatenated
  <2>2. s \in Seq(Byte) /\ Len(s) = Len(u) + Len(w)
    BY Concatenated
  <2> HIDE DEF s, t
  <2>3. Len(u) + m + (Len(w) - m) = Len(u) + Len(w)
    BY <1>1
  <2> QED
    BY <1>3, <1>6, <2>1, <2>2, <2>3
<1>17. \A p \in 1..(Len(u) + Len(w)) : s[p] = IF p <= Len(u) THEN u[p] ELSE w[p - Len(u)]
    BY JointAt
<1>18. \A p \in 1..(Len(text) + Len(rest)) : t[p] = IF p <= Len(text) THEN text[p] ELSE rest[p - Len(text)]
    BY <1>3, <1>6, JointAt
<1>19. \A p \in 1..(Len(u) + Len(lossy)) : text[p] = IF p <= Len(u) THEN u[p] ELSE lossy[p - Len(u)]
    BY <1>4, <1>5, JointAt
<1> HIDE DEF s, t
<1>8. ASSUME NEW p \in 1..Len(s)
      PROVE  /\ p <= Len(u) => t[p] = s[p]
             /\ p > Len(u) + m => t[p] = s[p]
             /\ p > Len(u) => t[p] = s[p] \/ (t[p] = Spoiled /\ {"hi", "lo"} \cap DOMAIN s[p] # {})
  <2>1. s[p] = IF p <= Len(u) THEN u[p] ELSE w[p - Len(u)]
    BY <1>7, <1>17
  <2>2. t[p] = IF p <= Len(u) + m THEN text[p] ELSE rest[p - (Len(u) + m)]
    <3>2. Len(text) + Len(rest) = Len(s)
      BY <1>7
    <3>1. p \in 1..(Len(text) + Len(rest))
      BY <3>2
    <3> QED
      BY <1>6, <1>18, <3>1
  <2>3. p <= Len(u) + m => text[p] = IF p <= Len(u) THEN u[p] ELSE lossy[p - Len(u)]
    <3>1. p <= Len(u) + m => p \in 1..(Len(u) + Len(lossy))
      BY <1>1, <1>4
    <3> QED
      BY <1>19, <3>1
  <2>4. CASE p <= Len(u)
    BY <1>1, <2>1, <2>2, <2>3, <2>4
  <2>5. CASE p > Len(u) /\ p <= Len(u) + m
    <3>1. p - Len(u) \in 1..m /\ ~(p <= Len(u)) /\ ~(p > Len(u) + m)
      BY <1>1, <2>5
    <3>2. t[p] = lossy[p - Len(u)] /\ s[p] = w[p - Len(u)]
      BY <2>1, <2>2, <2>3, <2>5, <3>1
    <3> QED
      BY <1>4, <3>1, <3>2
  <2>6. CASE p > Len(u) + m
    <3>1. p - (Len(u) + m) \in 1..(Len(w) - m) /\ m + (p - (Len(u) + m)) = p - Len(u)
          /\ ~(p <= Len(u)) /\ ~(p <= Len(u) + m)
      BY <1>1, <1>7, <2>6
    <3> QED
      BY <1>3, <2>1, <2>2, <3>1
  <2> QED
    BY <1>1, <1>7, <2>4, <2>5, <2>6
<1>9. Places(s, a, N, at) /\ Layout(s, Len(u), a, N, at)
    BY DEF Layout, s
<1>10. Places(t, a, N, at)
    BY <1>7, <1>9 DEF Places
<1>11. ASSUME NEW n \in a..N, NEW i \in 1..Size(n)
       PROVE  AsSent(t[at[n] + i], n, i) /\ (at[n] + i > Len(text) => t[at[n] + i] = ByteAt(n, i))
  <2> DEFINE p == at[n] + i
  <2>1. p \in 1..Len(s) /\ n \in Nat
    BY <1>9, Inside
  <2>2. AsSent(s[p], n, i) /\ (p > Len(u) => s[p] = ByteAt(n, i))
    BY <1>9 DEF Layout
  <2>3. {"hi", "lo"} \cap DOMAIN ByteAt(n, i) # {} => n \in Wide /\ i \in {2, 3}
    BY <2>1, BytesTell
  <2> HIDE DEF p
  <2>4. CASE p <= Len(u)
    <3>1. t[p] = s[p] /\ ~(p > Len(text))
      BY <1>1, <1>6, <1>8, <2>1, <2>4
    <3> QED
      BY <2>2, <3>1 DEF p
  <2>5. CASE p > Len(u)
    <3>1. s[p] = ByteAt(n, i) /\ (p > Len(text) => t[p] = s[p])
      BY <1>6, <1>8, <2>1, <2>2, <2>5
    <3>2. t[p] = s[p] \/ (t[p] = Spoiled /\ {"hi", "lo"} \cap DOMAIN s[p] # {})
      BY <1>8, <2>1, <2>5
    <3>3. AsSent(t[p], n, i)
      BY <2>3, <3>1, <3>2 DEF AsSent
    <3> QED
      BY <3>1, <3>3 DEF p
  <2>6. p \in Nat /\ Len(u) \in Nat
    BY <1>1, <2>1
  <2> QED
    BY <2>4, <2>5, <2>6
<1> QED
    BY <1>3, <1>6, <1>10, <1>11 DEF Layout, t, text, rest

\* The events that are complete leave the buffer.
LEMMA Dropped ==
    ASSUME NEW text \in Seq(Byte), NEW rest \in Seq(Byte), NEW a, NEW N, NEW at,
           Layout(Joint(text, rest), Len(text), a, N, at),
           NEW b \in a..(N + 1), at[b] <= Len(text)
    PROVE  /\ After(text, at[b]) \in Seq(Byte) /\ Len(After(text, at[b])) = Len(text) - at[b]
           /\ Layout(Joint(After(text, at[b]), rest), Len(After(text, at[b])), b, N, From(at, b, N + 1))
<1> DEFINE u == After(text, at[b])
           shift == From(at, b, N + 1)
<1>0. u = SubSeq(text, at[b] + 1, Len(text)) /\ shift = [n \in b..(N + 1) |-> at[n] - at[b]]
    BY DEF After, From
<1> HIDE DEF u, shift
<1> DEFINE s == Joint(text, rest)
           t == Joint(u, rest)
<1>1. Places(s, a, N, at)
    BY DEF Layout
<1>2. /\ a \in Nat \ {0} /\ N \in Nat /\ a <= N + 1 /\ at[N + 1] = Len(s)
      /\ \A n \in a..(N + 1) : at[n] \in Nat
      /\ \A n \in a..N : at[n + 1] = at[n] + Size(n)
      /\ \A m, n \in a..(N + 1) : m < n => at[m] < at[n]
      /\ \A p \in 1..Len(s) : \E n \in a..N : \E i \in 1..Size(n) : p = at[n] + i
    BY <1>1 DEF Places
<1> DEFINE c == at[b]
<1>3. c \in Nat /\ c <= Len(text) /\ b \in Nat \ {0} /\ b <= N + 1
    BY <1>2
<1>4. Len(text) \in Nat /\ Len(rest) \in Nat
    OBVIOUS
<1>5. u \in Seq(Byte) /\ Len(u) = Len(text) - c /\ \A i \in 1..(Len(text) - c) : u[i] = text[c + i]
    BY <1>0, <1>3, <1>4, Cut
<1>6. t \in Seq(Byte) /\ Len(t) = Len(s) - c /\ Len(s) = Len(text) + Len(rest)
  <2>1. t \in Seq(Byte) /\ Len(t) = Len(u) + Len(rest)
    BY <1>5, Concatenated
  <2>2. Len(s) = Len(text) + Len(rest)
    BY Concatenated
  <2> QED
    BY <1>3, <1>4, <1>5, <2>1, <2>2
<1>17. \A p \in 1..(Len(u) + Len(rest)) : t[p] = IF p <= Len(u) THEN u[p] ELSE rest[p - Len(u)]
    BY <1>5, JointAt
<1>18. \A p \in 1..(Len(text) + Len(rest)) : s[p] = IF p <= Len(text) THEN text[p] ELSE rest[p - Len(text)]
    BY JointAt
<1> HIDE DEF s, t, c
<1>7. ASSUME NEW p \in 1..Len(t)
      PROVE  t[p] = s[c + p]
  <2>1. t[p] = IF p <= Len(text) - c THEN u[p] ELSE rest[p - (Len(text) - c)]
    <3>1. p \in 1..(Len(u) + Len(rest))
      BY <1>3, <1>4, <1>5, <1>6
    <3> QED
      BY <1>5, <1>17, <3>1
  <2>2. s[c + p] = IF c + p <= Len(text) THEN text[c + p] ELSE rest[(c + p) - Len(text)]
    <3>1. c + p \in 1..(Len(text) + Len(rest))
      BY <1>3, <1>4, <1>6
    <3> QED
      BY <1>18, <3>1
  <2>3. (p <= Len(text) - c <=> c + p <= Len(text)) /\ p - (Len(text) - c) = (c + p) - Len(text)
    BY <1>3, <1>4, <1>6
  <2>4. p <= Len(text) - c => u[p] = text[c + p]
    BY <1>3, <1>4, <1>5, <1>6
  <2>5. CASE p <= Len(text) - c
    BY <2>1, <2>2, <2>3, <2>4, <2>5
  <2>6. CASE ~(p <= Len(text) - c)
    <3>1. ~(c + p <= Len(text))
      BY <2>3, <2>6
    <3>2. t[p] = rest[p - (Len(text) - c)] /\ s[c + p] = rest[(c + p) - Len(text)]
      BY <2>1, <2>2, <2>6, <3>1
    <3> QED
      BY <2>3, <3>2
  <2> QED
    BY <2>5, <2>6
<1>8. \A n \in b..(N + 1) : shift[n] = at[n] - c /\ n \in a..(N + 1) /\ at[n] \in Nat /\ at[n] >= c
  <2> SUFFICES ASSUME NEW n \in b..(N + 1)
               PROVE  shift[n] = at[n] - c /\ n \in a..(N + 1) /\ at[n] \in Nat /\ at[n] >= c
    OBVIOUS
  <2>1. n \in a..(N + 1) /\ at[n] \in Nat /\ shift[n] = at[n] - c
    BY <1>0, <1>2 DEF c
  <2>2. CASE n = b
    BY <2>1, <2>2, <1>3 DEF c
  <2>3. CASE n # b
    <3>1. b < n /\ b \in a..(N + 1)
      BY <1>2, <1>3, <2>3
    <3>2. at[b] < at[n]
      BY <1>2, <2>1, <3>1
    <3> QED
      BY <1>3, <2>1, <3>2 DEF c
  <2> QED
    BY <2>2, <2>3
<1>9. \A n \in b..N : n \in a..N /\ n \in b..(N + 1) /\ n + 1 \in b..(N + 1) /\ shift[n + 1] = shift[n] + Size(n)
  <2> SUFFICES ASSUME NEW n \in b..N
               PROVE  n \in a..N /\ n \in b..(N + 1) /\ n + 1 \in b..(N + 1) /\ shift[n + 1] = shift[n] + Size(n)
    OBVIOUS
  <2>1. n \in a..N /\ n \in b..(N + 1) /\ n + 1 \in b..(N + 1)
    BY <1>2, <1>3
  <2>3. Size(n) \in Nat
    BY SizeType
  <2>5. at[n + 1] = at[n] + Size(n)
    BY <1>2, <2>1
  <2>4. at[n + 1] = at[n] + Size(n) /\ at[n] \in Nat /\ Size(n) \in Nat
    BY <1>8, <2>1, <2>3, <2>5
  <2>2. shift[n + 1] = at[n + 1] - c /\ shift[n] = at[n] - c /\ at[n + 1] = at[n] + Size(n)
        /\ at[n] \in Nat /\ Size(n) \in Nat
    BY <1>8, <2>1, <2>4
  <2> QED
    BY <1>3, <2>1, <2>2
<1>10. Places(t, b, N, shift)
  <2>1. shift[b] = 0 /\ shift[N + 1] = Len(t)
    BY <1>2, <1>3, <1>6, <1>8 DEF c
  <2>2. \A n \in b..(N + 1) : shift[n] \in Nat
    BY <1>3, <1>8
  <2>3. \A m, n \in b..(N + 1) : m < n => shift[m] < shift[n]
    <3> SUFFICES ASSUME NEW m \in b..(N + 1), NEW n \in b..(N + 1), m < n
                 PROVE  shift[m] < shift[n]
      OBVIOUS
    <3>1. at[m] < at[n] /\ at[m] \in Nat /\ at[n] \in Nat /\ shift[m] = at[m] - c /\ shift[n] = at[n] - c
      BY <1>2, <1>8
    <3> QED
      BY <1>3, <3>1
  <2>4. ASSUME NEW p \in 1..Len(t)
        PROVE  \E n \in b..N : \E i \in 1..Size(n) : p = shift[n] + i
    <3>1. c + p \in 1..Len(s)
      BY <1>3, <1>4, <1>6
    <3>2. PICK n \in a..N : \E i \in 1..Size(n) : c + p = at[n] + i
      BY <1>2, <3>1
    <3>3. PICK i \in 1..Size(n) : c + p = at[n] + i
      BY <3>2
    <3>4. at[n] \in Nat /\ at[n + 1] = at[n] + Size(n) /\ n + 1 \in a..(N + 1) /\ Size(n) \in Nat /\ i <= Size(n)
      BY <1>1, <3>2, Inside
    <3>5. n >= b
      <4>1. SUFFICES ASSUME n < b PROVE FALSE
        BY <1>2, <1>3
      <4>2. n + 1 = b \/ n + 1 < b
        BY <1>2, <1>3, <4>1
      <4>4. at[n + 1] < at[b] \/ n + 1 = b
        BY <1>2, <3>4, <4>2
      <4>5. at[n + 1] \in Nat /\ at[b] = c
        BY <1>2, <3>4 DEF c
      <4>3. at[n + 1] <= c /\ at[n + 1] \in Nat
        BY <1>3, <4>4, <4>5
      <4> QED
        BY <1>3, <1>4, <1>6, <3>3, <3>4, <4>3
    <3>6. n \in b..N /\ shift[n] = at[n] - c
      BY <1>2, <1>3, <1>8, <3>5
    <3>8. p \in Nat /\ i \in Nat /\ c \in Nat /\ at[n] \in Nat
      BY <1>3, <1>4, <1>6, <3>4
    <3>9. shift[n] = at[n] - c /\ c + p = at[n] + i
      BY <3>3, <3>6
    <3>7. p = shift[n] + i
      BY ONLY <3>8, <3>9, SMTT(30)
    <3> QED
      BY <3>6, <3>7
  <2> QED
    BY <1>2, <1>3, <1>6, <1>9, <2>1, <2>2, <2>3, <2>4 DEF Places
<1>11. ASSUME NEW n \in b..N, NEW i \in 1..Size(n)
       PROVE  AsSent(t[shift[n] + i], n, i) /\ (shift[n] + i > Len(u) => t[shift[n] + i] = ByteAt(n, i))
  <2>1. shift[n] + i \in 1..Len(t)
    BY <1>10, Inside
  <2>2. shift[n] = at[n] - c /\ at[n] \in Nat /\ n \in a..N
    BY <1>8, <1>9
  <2>3. t[shift[n] + i] = s[at[n] + i]
    <3>1. c + (shift[n] + i) = at[n] + i
      BY <1>3, <2>2
    <3> QED
      BY <1>7, <2>1, <3>1
  <2>4. AsSent(s[at[n] + i], n, i) /\ (at[n] + i > Len(text) => s[at[n] + i] = ByteAt(n, i))
    BY <2>2 DEF Layout, s
  <2>5. shift[n] + i > Len(u) => at[n] + i > Len(text)
    BY <1>3, <1>4, <1>5, <2>2
  <2> QED
    BY <2>3, <2>4, <2>5
<1> QED
    BY <1>5, <1>10, <1>11 DEF Layout, t, c, u, shift

\* The bytes of one event more are on the wire.
LEMMA Appended ==
    ASSUME NEW u \in Seq(Byte), NEW w \in Seq(Byte),
           NEW a, NEW N, NEW at, Layout(Joint(u, w), Len(u), a, N, at),
           NEW M, M = N + 1, NEW longer, longer = Joint(w, Bytes(M)),
           NEW further,
           further = [n \in a..(M + 1) |-> IF n = M + 1 THEN at[M] + Size(M) ELSE at[n]]
    PROVE  longer \in Seq(Byte) /\ Layout(Joint(u, longer), Len(u), a, M, further)
<1> DEFINE s == Joint(u, w)
           t == Joint(u, longer)
           z == Size(M)
<1>1. Places(s, a, N, at)
    BY DEF Layout
<1>2. /\ a \in Nat \ {0} /\ N \in Nat /\ a <= N + 1 /\ at[a] = 0 /\ at[N + 1] = Len(s)
      /\ \A n \in a..(N + 1) : at[n] \in Nat
      /\ \A n \in a..N : at[n + 1] = at[n] + Size(n)
      /\ \A m, n \in a..(N + 1) : m < n => at[m] < at[n]
      /\ \A p \in 1..Len(s) : \E n \in a..N : \E i \in 1..Size(n) : p = at[n] + i
    BY <1>1 DEF Places
<1>3. M \in Nat /\ z \in {3, 5} /\ a <= M /\ at[M] = Len(s)
    BY <1>2, SizeType
<1>4. Bytes(M) \in Seq(Byte) /\ Len(Bytes(M)) = z /\ \A i \in 1..z : Bytes(M)[i] = ByteAt(M, i)
    BY <1>3, BytesAre
<1>5. Len(u) \in Nat /\ Len(w) \in Nat
    OBVIOUS
<1>6. /\ longer \in Seq(Byte) /\ Len(longer) = Len(w) + z
      /\ \A i \in 1..Len(w) : longer[i] = w[i]
      /\ \A i \in 1..z : longer[Len(w) + i] = ByteAt(M, i)
  <2> DEFINE y == Bytes(M)
  <2>1. y \in Seq(Byte) /\ Len(y) = z /\ \A i \in 1..z : y[i] = ByteAt(M, i)
    BY <1>4
  <2> HIDE DEF y, z
  <2>2. /\ Joint(w, y) \in Seq(Byte) /\ Len(Joint(w, y)) = Len(w) + Len(y)
        /\ \A i \in 1..Len(w) : Joint(w, y)[i] = w[i]
        /\ \A i \in 1..Len(y) : Joint(w, y)[Len(w) + i] = y[i]
    BY <2>1, Concatenated
  <2>3. longer = Joint(w, y)
    BY DEF y
  <2> QED
    BY <2>1, <2>2, <2>3
<1>7. s \in Seq(Byte) /\ Len(s) = Len(u) + Len(w) /\ t \in Seq(Byte) /\ Len(t) = Len(u) + Len(longer)
    BY <1>6, Concatenated
<1>8. \A p \in 1..(Len(u) + Len(w)) : s[p] = IF p <= Len(u) THEN u[p] ELSE w[p - Len(u)]
    BY JointAt
<1>9. \A p \in 1..(Len(u) + Len(longer)) : t[p] = IF p <= Len(u) THEN u[p] ELSE longer[p - Len(u)]
    BY <1>6, JointAt
<1> HIDE DEF s, t, z
<1>10. Len(s) \in Nat /\ Len(t) = Len(s) + z
  <2>1. Len(s) = Len(u) + Len(w) /\ Len(t) = Len(u) + (Len(w) + z)
    BY <1>6, <1>7
  <2> QED
    BY <1>3, <1>5, <2>1
<1>11. ASSUME NEW p \in 1..Len(s)
       PROVE  t[p] = s[p]
  <2>1. p \in 1..(Len(u) + Len(w)) /\ p \in 1..(Len(u) + Len(longer))
    <3>1. Len(s) = Len(u) + Len(w) /\ Len(s) <= Len(u) + Len(longer) /\ Len(u) + Len(longer) \in Nat
      BY <1>3, <1>7, <1>10
    <3> QED
      BY <1>10, <3>1
  <2>2. CASE p <= Len(u)
    BY <1>8, <1>9, <2>1, <2>2
  <2>3. CASE ~(p <= Len(u))
    <3>1. p - Len(u) \in 1..Len(w)
      BY <1>5, <2>1, <2>3
    <3> QED
      BY <1>6, <1>8, <1>9, <2>1, <2>3, <3>1
  <2> QED
    BY <2>2, <2>3
<1>12. ASSUME NEW i \in 1..z
       PROVE  t[Len(s) + i] = ByteAt(M, i)
  <2>1. Len(s) + i \in 1..(Len(u) + Len(longer))
    <3>1. Len(u) + Len(longer) = Len(s) + z
      BY <1>7, <1>10
    <3> QED
      BY <1>3, <1>10, <3>1
  <2>2. ~(Len(s) + i <= Len(u)) /\ Len(s) + i - Len(u) = Len(w) + i
    BY <1>3, <1>5, <1>7
  <2> QED
    BY <1>6, <1>9, <2>1, <2>2
<1>13. /\ \A n \in a..M : further[n] = at[n] /\ n \in a..(N + 1) /\ at[n] \in Nat
       /\ further[M + 1] = Len(s) + z
  <2>1. \A n \in a..M : n \in a..(M + 1) /\ n # M + 1 /\ n \in a..(N + 1)
    BY <1>2, <1>3
  <2>2. M + 1 \in a..(M + 1)
    BY <1>2, <1>3
  <2>3. further[M + 1] = Len(s) + z
    BY <1>3, <2>2 DEF z
  <2> QED
    BY <1>2, <2>1, <2>3
<1>14. \A n \in a..(M + 1) : n \in a..M \/ n = M + 1
    BY <1>2, <1>3
<1>15. \A n \in a..M : n \in a..N \/ n = M
    BY <1>2, <1>3
<1>16. Places(t, a, M, further)
  <2>1. further[a] = 0 /\ further[M + 1] = Len(t)
    BY <1>2, <1>3, <1>10, <1>13
  <2>2. \A n \in a..(M + 1) : further[n] \in Nat
    BY <1>3, <1>10, <1>13, <1>14
  <2>3. ASSUME NEW n \in a..M
        PROVE  further[n + 1] = further[n] + Size(n)
    <3>1. CASE n \in a..N
      <4>1. n + 1 \in a..M /\ n \in a..M
        BY <1>2, <3>1
      <4>2. at[n + 1] = at[n] + Size(n)
        BY <1>2, <3>1
      <4> QED
        BY <1>13, <4>1, <4>2
    <3>2. CASE n = M
      BY <1>3, <1>13, <3>2 DEF z
    <3> QED
      BY <1>15, <3>1, <3>2
  <2>4. ASSUME NEW m \in a..(M + 1), NEW n \in a..(M + 1), m < n
        PROVE  further[m] < further[n]
    <3>1. m \in a..M /\ m \in a..(N + 1)
      BY <1>2, <1>3, <2>4
    <3>2. CASE n \in a..M
      BY <1>2, <1>13, <2>4, <3>1, <3>2
    <3>3. CASE n = M + 1
      <4>1. m = M \/ m < M
        BY <1>2, <1>3, <3>1
      <4>2. M \in a..(N + 1)
        BY <1>2, <1>3
      <4>3. at[m] = at[M] \/ at[m] < at[M]
        BY <1>2, <3>1, <4>1, <4>2
      <4>4. at[m] \in Nat /\ further[m] = at[m] /\ further[n] = at[M] + z /\ at[M] \in Nat
        BY <1>3, <1>10, <1>13, <3>1, <3>3
      <4> QED
        BY <1>3, <4>3, <4>4
    <3> QED
      BY <1>14, <3>2, <3>3
  <2>5. ASSUME NEW p \in 1..Len(t)
        PROVE  \E n \in a..M : \E i \in 1..Size(n) : p = further[n] + i
    <3>1. CASE p <= Len(s)
      <4>1. p \in 1..Len(s)
        BY <1>10, <3>1
      <4>2. PICK n \in a..N : \E i \in 1..Size(n) : p = at[n] + i
        BY <1>2, <4>1
      <4>3. n \in a..M /\ further[n] = at[n]
        BY <1>2, <1>13
      <4> QED
        BY <4>2, <4>3
    <3>2. CASE ~(p <= Len(s))
      <4>1. p - Len(s) \in 1..z /\ p = Len(s) + (p - Len(s))
        BY <1>3, <1>10, <3>2
      <4>2. M \in a..M /\ further[M] = Len(s)
        BY <1>2, <1>3, <1>13
      <4> QED
        BY <4>1, <4>2 DEF z
    <3> QED
      BY <3>1, <3>2
  <2>6. a \in Nat \ {0} /\ M \in Nat /\ a <= M + 1 /\ t \in Seq(Byte)
    BY <1>2, <1>3, <1>7
  <2> QED
    BY ONLY <2>1, <2>2, <2>3, <2>4, <2>5, <2>6 DEF Places
<1>18. ASSUME NEW n \in a..M, NEW i \in 1..Size(n)
       PROVE  /\ AsSent(t[further[n] + i], n, i)
              /\ further[n] + i > Len(u) => t[further[n] + i] = ByteAt(n, i)
  <2>1. CASE n \in a..N
    <3>1. further[n] = at[n]
      BY <1>13
    <3>2. at[n] + i \in 1..Len(s)
      BY <1>1, <2>1, Inside
    <3>3. AsSent(s[at[n] + i], n, i) /\ (at[n] + i > Len(u) => s[at[n] + i] = ByteAt(n, i))
      BY <2>1 DEF Layout, s
    <3> QED
      BY <1>11, <3>1, <3>2, <3>3
  <2>2. CASE n = M
    <3>1. further[n] = Len(s) /\ i \in 1..z
      BY <1>3, <1>13, <2>2 DEF z
    <3>2. t[further[n] + i] = ByteAt(n, i)
      BY <1>12, <2>2, <3>1
    <3> QED
      BY <3>2 DEF AsSent
  <2> QED
    BY <1>15, <2>1, <2>2
<1> QED
    BY <1>6, <1>16, <1>18 DEF Layout, t

--------------------------------------------------------------------------------
(***************************************************************************)
(* The parser                                                              *)
(***************************************************************************)
\* Event a is not complete in u, or there is none.
Pending(u, w, a, N, at) == Layout(Joint(u, w), Len(u), a, N, at) /\ (a <= N => at[a + 1] > Len(u))

ParserInv ==
    /\ handling = "none" => script = <<>> /\ wire = <<>> /\ buf = <<>> /\ heard = <<>>
    /\ handling = "translate" =>
          /\ Listed(script)
          /\ wire \in Seq(Byte) /\ buf \in Seq(Byte) /\ heard \in Seq(EventType)
          /\ \A k \in 1..Len(heard) : heard[k].number = k /\ (heard[k].whole \/ k \in Wide)
          /\ \E at : Pending(buf, wire, Len(heard) + 1, Len(script), at)

LEMMA ArrivedAre ==
    ASSUME handling = "translate", ParserInv
    PROVE  Arrived = 1..Len(heard)
<1> DEFINE h == Len(heard)
           N == Len(script)
           a == h + 1
           s == Joint(buf, wire)
<1>1. PICK at : Pending(buf, wire, a, N, at)
    BY DEF ParserInv
<1>2. /\ N \in Nat /\ DOMAIN script = 1..N /\ wire \in Seq(Byte) /\ buf \in Seq(Byte) /\ h \in Nat
    BY DEF ParserInv, Listed
<1>3. Layout(s, Len(buf), a, N, at) /\ Places(s, a, N, at) /\ (a <= N => at[a + 1] > Len(buf))
    BY <1>1 DEF Pending, Layout
<1>4. /\ Len(wire) \in Nat /\ Len(buf) \in Nat /\ DOMAIN wire = 1..Len(wire)
      /\ Len(s) = Len(buf) + Len(wire)
      /\ \A j \in 1..Len(wire) : s[Len(buf) + j] = wire[j]
    BY <1>2, Concatenated
<1> HIDE DEF h, N, s
<1>5. /\ a <= N + 1
      /\ \A n \in a..(N + 1) : at[n] \in Nat
      /\ \A m, n \in a..(N + 1) : m < n => at[m] < at[n]
      /\ \A p \in 1..Len(s) : \E n \in a..N : \E i \in 1..Size(n) : p = at[n] + i
    BY <1>3 DEF Places
<1>6. ASSUME NEW n \in a..N
      PROVE  n \notin Arrived
  <2>1. Size(n) \in 1..Size(n) /\ Size(n) \in Nat
    BY SizeType
  <2>2. at[n] + Size(n) \in 1..Len(s) /\ at[n] \in Nat /\ at[n + 1] = at[n] + Size(n) /\ n + 1 \in a..(N + 1) /\ n \in Nat
    BY <1>3, <2>1, Inside
  <2>3. at[n + 1] > Len(buf)
    <3>1. a <= N /\ a + 1 \in a..(N + 1) /\ (n + 1 = a + 1 \/ a + 1 < n + 1)
      BY <1>2, <2>2
    <3>2. at[a + 1] \in Nat /\ at[n + 1] \in Nat /\ at[a + 1] > Len(buf)
      BY <1>3, <1>5, <2>2, <3>1
    <3> QED
      BY <1>4, <1>5, <2>2, <3>1, <3>2
  <2> DEFINE e == at[n] + Size(n)
           j == e - Len(buf)
  <2>8. e \in Nat /\ e > Len(buf) /\ e <= Len(buf) + Len(wire)
    BY <1>4, <2>1, <2>2, <2>3
  <2> HIDE DEF e
  <2>4. j \in 1..Len(wire) /\ Len(buf) + j = e
    BY <1>4, <2>8
  <2>5. wire[j] = ByteAt(n, Size(n))
    <3>1. s[at[n] + Size(n)] = ByteAt(n, Size(n))
      BY <1>3, <2>1, <2>8 DEF Layout, e
    <3>2. s[e] = wire[j]
      BY <1>4, <2>4
    <3> QED
      BY <3>1, <3>2 DEF e
  <2>6. Len(Bytes(n)) = Size(n) /\ Bytes(n)[Size(n)] = ByteAt(n, Size(n))
    BY <2>1, <2>2, BytesAre
  <2>7. Contains(Bytes(n), wire[j])
    BY <2>1, <2>5, <2>6 DEF Contains
  <2> QED
    BY <1>4, <2>4, <2>7 DEF Arrived
<1>7. ASSUME NEW n \in 1..h
      PROVE  n \in Arrived
  <2>1. n \in 1..N /\ n \in Nat /\ n \notin a..N
    BY <1>2, <1>5
  <2>2. ASSUME NEW j \in 1..Len(wire), Contains(Bytes(n), wire[j])
        PROVE  FALSE
    <3>1. PICK k \in 1..Size(n) : Bytes(n)[k] = wire[j] /\ wire[j] = ByteAt(n, k)
      BY <2>1, <2>2, BytesAre DEF Contains
    <3>2. Len(buf) + j \in 1..Len(s) /\ Len(buf) + j > Len(buf) /\ s[Len(buf) + j] = wire[j]
      BY <1>4
    <3>3. PICK m \in a..N : \E i \in 1..Size(m) : Len(buf) + j = at[m] + i
      BY <1>5, <3>2
    <3>4. PICK i \in 1..Size(m) : Len(buf) + j = at[m] + i
      BY <3>3
    <3>5. at[m] + i > Len(buf)
      BY <3>2, <3>4
    <3>6. s[at[m] + i] = ByteAt(m, i)
      BY <1>3, <3>5 DEF Layout
    <3>7. ByteAt(n, k) = ByteAt(m, i) /\ m \in Nat
      BY <1>2, <3>1, <3>2, <3>4, <3>6
    <3>8. m = n
      BY <2>1, <3>7, BytesTell
    <3> QED
      BY <2>1, <3>8
  <2> QED
    BY <1>2, <1>4, <2>1, <2>2 DEF Arrived
<1>8. \A n \in 1..N : n \in 1..h \/ n \in a..N
    BY <1>2
<1>9. Arrived \subseteq 1..N
    BY <1>2 DEF Arrived
<1> QED
    BY <1>6, <1>7, <1>8, <1>9 DEF h

LEMMA UpTo == \A h \in Nat : Cardinality(1..h) = h
<1> SUFFICES ASSUME NEW h \in Nat PROVE Cardinality(1..h) = h
    OBVIOUS
<1>1. Cardinality(1..h) = IF 1 > h THEN 0 ELSE h - 1 + 1
    BY FS_Interval
<1> QED
    BY <1>1

LEMMA ParserIsRight == ParserInv => ChunksDontMatter
<1> SUFFICES ASSUME ParserInv, handling = "translate"
             PROVE  /\ [k \in DOMAIN heard |-> heard[k].number] = [k \in 1..Cardinality(Arrived) |-> k]
                    /\ \A k \in DOMAIN heard : heard[k].whole \/ heard[k].number \in Wide
    BY DEF ChunksDontMatter
<1>1. Len(heard) \in Nat /\ DOMAIN heard = 1..Len(heard)
    BY DEF ParserInv
<1>2. \A k \in 1..Len(heard) : heard[k].number = k /\ (heard[k].whole \/ k \in Wide)
    BY DEF ParserInv
<1>3. Cardinality(Arrived) = Len(heard)
  <2>1. Arrived = 1..Len(heard)
    BY ArrivedAre
  <2>2. Cardinality(1..Len(heard)) = Len(heard)
    BY <1>1, UpTo
  <2> QED
    BY <2>1, <2>2
<1> QED
    BY <1>1, <1>2, <1>3

LEMMA NothingSent ==
    ASSUME NEW at, at = [n \in 1..1 |-> 0]
    PROVE  Pending(<<>>, <<>>, 1, 0, at)
<1> DEFINE s == Joint(<<>>, <<>>)
<1>1. s \in Seq(Byte) /\ Len(s) = 0
    BY DEF Joint
<1> HIDE DEF s
<1>2. at[1] = 0 /\ 0 + 1 = 1 /\ \A n : n \notin 1..0
    OBVIOUS
<1>3. \A m, n \in 1..(0 + 1) : m < n => at[m] < at[n]
    OBVIOUS
<1>4. \A n \in 1..(0 + 1) : at[n] \in Nat
    OBVIOUS
<1>5. Places(s, 1, 0, at)
    BY <1>1, <1>2, <1>3, <1>4 DEF Places
<1> QED
    BY <1>2, <1>5 DEF Pending, Layout, s

LEMMA WritingKeeps ==
    ASSUME ParserInv, handling = "translate", NEW event, NEW kind, Write(event, kind)
    PROVE  ParserInv'
<1> DEFINE N == Len(script)
           M == N + 1
           a == Len(heard) + 1
<1>1. PICK at : Pending(buf, wire, a, N, at)
    BY DEF ParserInv
<1>2. Listed(script) /\ wire \in Seq(Byte) /\ buf \in Seq(Byte) /\ heard \in Seq(EventType)
    BY DEF ParserInv
<1>3. /\ handling' = handling /\ script' = Append(script, event) /\ buf' = buf /\ heard' = heard
      /\ wire' = Joint(wire, Bytes(M))
    BY DEF Write, Joint
<1>4. N \in Nat /\ Len(heard) \in Nat
    BY <1>2 DEF Listed
<1>5. Listed(script')
    BY <1>2, <1>3, AppendedList
<1>6. Len(script') = M
  <2>1. script \in Seq({script[i] : i \in DOMAIN script} \cup {event})
    <3>1. script \in [1..N -> {script[i] : i \in DOMAIN script} \cup {event}]
      BY <1>2 DEF Listed
    <3> QED
      BY <1>4, <3>1
  <2> QED
    BY <1>3, <2>1
<1> HIDE DEF N
<1>7. Layout(Joint(buf, wire), Len(buf), a, N, at) /\ (a <= N => at[a + 1] > Len(buf))
    BY <1>1 DEF Pending
<1> DEFINE further == [n \in a..(M + 1) |-> IF n = M + 1 THEN at[M] + Size(M) ELSE at[n]]
<1>8. wire' \in Seq(Byte) /\ Layout(Joint(buf, wire'), Len(buf), a, M, further)
    BY <1>2, <1>3, <1>7, Appended
<1>9. a <= M => further[a + 1] > Len(buf)
  <2>1. Places(Joint(buf, wire), a, N, at)
    BY <1>7 DEF Layout
  <2>2. CASE a <= N
    <3>1. a + 1 \in a..(M + 1) /\ a + 1 # M + 1
      BY <1>4, <2>2
    <3> QED
      BY <1>7, <2>2, <3>1
  <2>3. CASE a = M
    <3>1. further[a + 1] = at[M] + Size(M)
      BY <1>4, <2>3
    <3>2. at[M] = Len(Joint(buf, wire)) /\ Size(M) \in {3, 5}
      BY <2>1, SizeType DEF Places
    <3>3. Len(Joint(buf, wire)) = Len(buf) + Len(wire) /\ Len(buf) \in Nat /\ Len(wire) \in Nat
      BY <1>2, Concatenated
    <3> QED
      BY <3>1, <3>2, <3>3
  <2>4. a <= N \/ a = M \/ a > M
    BY <1>4
  <2> QED
    BY <1>4, <2>2, <2>3, <2>4
<1> HIDE DEF further
<1>10. Pending(buf', wire', Len(heard') + 1, Len(script'), further)
    BY <1>3, <1>6, <1>8, <1>9 DEF Pending
<1>11. \A k \in 1..Len(heard') : heard'[k].number = k /\ (heard'[k].whole \/ k \in Wide)
    BY <1>3 DEF ParserInv
<1> QED
    BY <1>2, <1>3, <1>5, <1>8, <1>10, <1>11 DEF ParserInv

LEMMA HeardGrows ==
    ASSUME NEW s \in Seq(EventType), NEW t \in Seq(EventType), NEW b \in Nat, Len(t) = b - (Len(s) + 1),
           \A k \in 1..Len(s) : s[k].number = k /\ (s[k].whole \/ k \in Wide),
           \A k \in 1..(b - (Len(s) + 1)) : t[k].number = Len(s) + 1 + k - 1
                                           /\ (t[k].whole \/ Len(s) + 1 + k - 1 \in Wide)
    PROVE  /\ s \o t \in Seq(EventType) /\ Len(s \o t) + 1 = b
           /\ \A k \in 1..Len(s \o t) : (s \o t)[k].number = k /\ ((s \o t)[k].whole \/ k \in Wide)
<1>1. Len(s) \in Nat /\ Len(t) \in Nat /\ s \o t \in Seq(EventType) /\ Len(s \o t) = Len(s) + Len(t)
    OBVIOUS
<1>2. ASSUME NEW k \in 1..Len(s \o t)
      PROVE  (s \o t)[k].number = k /\ ((s \o t)[k].whole \/ k \in Wide)
  <2>1. CASE k <= Len(s)
    <3>1. k \in 1..Len(s) /\ (s \o t)[k] = s[k]
      BY <1>1, <2>1
    <3> QED
      BY <3>1
  <2>2. CASE ~(k <= Len(s))
    <3> DEFINE j == k - Len(s)
    <3>1. j \in 1..Len(t) /\ (s \o t)[k] = t[j] /\ Len(s) + 1 + j - 1 = k
      BY <1>1, <2>2
    <3> HIDE DEF j
    <3> QED
      BY <3>1
  <2> QED
    BY <2>1, <2>2
<1>3. Len(s \o t) + 1 = b
    BY <1>1
<1> QED
    BY <1>1, <1>2, <1>3

LEMMA ParsingKeeps ==
    ASSUME ParserInv, handling = "translate", Chunk
    PROVE  ParserInv'
<1> DEFINE N == Len(script)
           a == Len(heard) + 1
<1>1. PICK m \in 1..MaxChunk :
         /\ m <= Len(wire)
         /\ buf' = Unparsed(buf \o FromUtf8Lossy(SubSeq(wire, 1, m)))
         /\ heard' = heard \o Parsed(buf \o FromUtf8Lossy(SubSeq(wire, 1, m)))
         /\ wire' = SubSeq(wire, m + 1, Len(wire))
    BY DEF Chunk
<1> DEFINE text == Fed(buf, wire, m)
           rest == After(wire, m)
<1>2. buf' = Unparsed(text) /\ heard' = heard \o Parsed(text)
    BY <1>1 DEF Fed, Joint
<1>3. handling' = handling /\ script' = script
    BY DEF Chunk
<1>4. wire \in Seq(Byte) /\ buf \in Seq(Byte) /\ heard \in Seq(EventType) /\ Listed(script)
    BY DEF ParserInv
<1>5. PICK at : Pending(buf, wire, a, N, at)
    BY DEF ParserInv
<1>6. N \in Nat /\ Len(heard) \in Nat
    BY <1>4 DEF Listed
<1>7. m \in 1..Len(wire)
    BY <1>1, <1>4, StreamsAssumption
<1> HIDE DEF text, rest, N
<1>8. Layout(Joint(buf, wire), Len(buf), a, N, at)
    BY <1>5 DEF Pending
<1>9. /\ text \in Seq(Byte) /\ rest \in Seq(Byte)
      /\ Layout(Joint(text, rest), Len(text), a, N, at)
    BY <1>4, <1>7, <1>8, Decoded DEF text, rest
<1> DEFINE s == Joint(text, rest)
<1>10. Len(text) <= Len(s) /\ \A p \in 1..Len(text) : text[p] = s[p]
  <2>1. /\ Len(s) = Len(text) + Len(rest) /\ Len(text) \in Nat /\ Len(rest) \in Nat
        /\ \A p \in 1..Len(text) : s[p] = text[p]
    BY <1>9, Concatenated
  <2> HIDE DEF s
  <2> QED
    BY <2>1
<1> HIDE DEF s
<1>11. Layout(s, Len(text), a, N, at) /\ Places(s, a, N, at) /\ Len(text) \in Nat
    BY <1>9 DEF Layout, s
<1>12. PICK b \in a..(N + 1) : at[b] <= Len(text) /\ (b <= N => at[b + 1] > Len(text))
    BY <1>11, LastBefore
<1> HIDE DEF a
<1>13. /\ Parsed(text) \in Seq(EventType) /\ Len(Parsed(text)) = b - a
       /\ \A k \in 1..(b - a) : Parsed(text)[k].number = a + k - 1
                                /\ (Parsed(text)[k].whole \/ a + k - 1 \in Wide)
       /\ Unparsed(text) = SubSeq(text, at[b] + 1, Len(text))
    BY <1>9, <1>10, <1>11, <1>12, ParsedAre
<1>14. b \in Nat /\ b \in a..(N + 1)
    BY <1>6, <1>12 DEF a
<1>15. /\ heard' \in Seq(EventType) /\ Len(heard') + 1 = b
       /\ \A k \in 1..Len(heard') : heard'[k].number = k /\ (heard'[k].whole \/ k \in Wide)
  <2>1. \A k \in 1..Len(heard) : heard[k].number = k /\ (heard[k].whole \/ k \in Wide)
    BY DEF ParserInv
  <2> DEFINE more == Parsed(text)
  <2>2. more \in Seq(EventType) /\ Len(more) = b - (Len(heard) + 1)
        /\ \A k \in 1..(b - (Len(heard) + 1)) : more[k].number = Len(heard) + 1 + k - 1
                                               /\ (more[k].whole \/ Len(heard) + 1 + k - 1 \in Wide)
    BY <1>13 DEF a
  <2>3. heard' = heard \o more
    BY <1>2
  <2> HIDE DEF more
  <2> QED
    BY <1>4, <1>14, <2>1, <2>2, <2>3, HeardGrows
<1> DEFINE shift == From(at, b, N + 1)
<1>16. /\ buf' \in Seq(Byte) /\ Len(buf') = Len(text) - at[b]
       /\ Layout(Joint(buf', rest), Len(buf'), b, N, shift)
  <2>1. buf' = After(text, at[b])
    BY <1>2, <1>13 DEF After
  <2>2. /\ After(text, at[b]) \in Seq(Byte) /\ Len(After(text, at[b])) = Len(text) - at[b]
        /\ Layout(Joint(After(text, at[b]), rest), Len(After(text, at[b])), b, N, shift)
    BY <1>9, <1>12, Dropped
  <2> HIDE DEF shift
  <2> QED
    BY <2>1, <2>2
<1>17. b <= N => shift[b + 1] > Len(buf')
  <2> SUFFICES ASSUME b <= N PROVE shift[b + 1] > Len(buf')
    OBVIOUS
  <2>1. b + 1 \in b..(N + 1)
    BY <1>6, <1>14 DEF N
  <2>2. shift[b + 1] = at[b + 1] - at[b]
    BY <2>1 DEF From
  <2>3. at[b + 1] \in Nat /\ at[b] \in Nat
    <3>1. \A n \in a..(N + 1) : at[n] \in Nat
      BY <1>11 DEF Places
    <3>2. b + 1 \in a..(N + 1)
      BY <1>6, <1>14, <2>1 DEF N, a
    <3> QED
      BY <1>14, <3>1, <3>2
  <2>4. at[b + 1] > Len(text)
    BY <1>12
  <2> HIDE DEF shift
  <2> QED
    BY <1>11, <1>16, <2>2, <2>3, <2>4
<1> HIDE DEF shift
<1>18. wire' = rest
    BY <1>1 DEF rest, After
<1>19. Pending(buf', wire', Len(heard') + 1, Len(script'), shift)
    BY <1>3, <1>15, <1>16, <1>17, <1>18 DEF Pending, N
<1> QED
    BY <1>3, <1>4, <1>9, <1>15, <1>16, <1>18, <1>19 DEF ParserInv

LEMMA ParserStep == ParserInv /\ [ExchangeNext]_<<vars, streamVars>> => ParserInv'
<1> SUFFICES ASSUME ParserInv, [ExchangeNext]_<<vars, streamVars>>
             PROVE  ParserInv'
    OBVIOUS
<1>1. CASE UNCHANGED streamVars
    BY <1>1 DEF ParserInv, Pending, streamVars
<1>2. CASE StreamBegins
  <2>1. handling = "none" /\ handling' # "none" /\ UNCHANGED <<script, wire, buf, heard>>
    BY <1>2 DEF StreamBegins, Receive, Handling
  <2>2. script' = <<>> /\ wire' = <<>> /\ buf' = <<>> /\ heard' = <<>>
    BY <2>1 DEF ParserInv
  <2>3. Listed(<<>>)
    <3>1. <<>> \in Seq(Nat)
      OBVIOUS
    <3> QED
      BY <3>1, SequenceIsList
  <2>4. Len(heard') = 0 /\ Len(script') = 0 /\ 0 + 1 = 1
    BY <2>2
  <2>5. \E at : Pending(buf', wire', Len(heard') + 1, Len(script'), at)
    BY <2>2, <2>4, NothingSent
  <2> QED
    BY <2>1, <2>2, <2>3, <2>4, <2>5 DEF ParserInv
<1>3. CASE StreamNext /\ UNCHANGED vars
  <2>1. CASE handling = "none"
    <3>1. wire = <<>>
      BY <2>1 DEF ParserInv
    <3> QED
      BY <1>3, <2>1, <3>1
      DEF StreamNext, ProviderWrites, ProviderEnds, Chunk, TranslationEnds, Intercept, InterceptFails,
          ExecuteTool, Continue
  <2>2. CASE handling = "translate"
    <3>1. CASE ProviderWrites
      <4>1. PICK event, kind : Write(event, kind)
        BY <3>1 DEF ProviderWrites
      <4> QED
        BY <2>2, <4>1, WritingKeeps
    <3>2. CASE Chunk
      BY <2>2, <3>2, ParsingKeeps
    <3>3. CASE ProviderEnds \/ TranslationEnds
      BY <2>2, <3>3 DEF ProviderEnds, TranslationEnds, ParserInv, Pending
    <3> QED
      BY <1>3, <2>2, <3>1, <3>2, <3>3
      DEF StreamNext, Intercept, InterceptFails, ExecuteTool, Continue
  <2>3. CASE handling \notin {"none", "translate"}
    <3>1. handling' = handling
      BY <1>3, <2>3
      DEF StreamNext, ProviderWrites, Write, ProviderEnds, Chunk, TranslationEnds, Intercept,
          InterceptFails, ExecuteTool, Continue
    <3> QED
      BY <2>3, <3>1 DEF ParserInv
  <2> QED
    BY <2>1, <2>2, <2>3
<1> QED
    BY <1>1, <1>2, <1>3 DEF ExchangeNext

\* However the answer is cut into chunks, the parser finds the events that have arrived, each
\* once and in order, and damages none that has only characters of one byte (SseParser::feed).
THEOREM ChunksAreParsed == ExchangeSpec => []ChunksDontMatter
<1>1. ExchangeInit => ParserInv
    BY DEF ExchangeInit, StreamInit, ParserInv
<1> QED
    BY <1>1, ParserIsRight, ParserStep, PTL DEF ExchangeSpec

--------------------------------------------------------------------------------
(***************************************************************************)
(* The translation of a list of events, step by step.  Translated is a     *)
(* fold of the library; its values after each event are the steps.         *)
(***************************************************************************)
Begun == [kinds |-> blocks, out |-> out]

Turned(h, acc) ==
    [kinds |-> KindsAfter(script[h.number], acc.kinds),
     out   |-> acc.out \o ResponsesEvents(script[h.number], KindsAfter(script[h.number], acc.kinds))]

TurnedUpTo(g, events, n) ==
    g = [s \in SUBSET (1..n) |-> IF s = {} THEN Begun ELSE Turned(events[Max(s)], g[s \ {Max(s)}])]

LEMMA TranslatedDef ==
    ASSUME NEW S, NEW events \in Seq(S)
    PROVE  Translated(events) = (CHOOSE g : TurnedUpTo(g, events, Len(events)))[1..Len(events)]
<1>1. DOMAIN events = 1..Len(events)
    OBVIOUS
<1> QED
    BY <1>1 DEF Translated, FoldLeft, MapThenFoldSet, TurnedUpTo, Begun, Turned

LEMMA TurnedExists ==
    ASSUME NEW events, NEW N \in Nat
    PROVE  \E g : TurnedUpTo(g, events, N)
<1> DEFINE T == {n \in 0..N : \E g : TurnedUpTo(g, events, n)}
<1>1. 0 \in T
  <2>1. TurnedUpTo([s \in SUBSET (1..0) |-> Begun], events, 0)
    <3>1. \A s \in SUBSET (1..0) : s = {}
      OBVIOUS
    <3> QED
      BY <3>1 DEF TurnedUpTo
  <2> QED
    BY <2>1
<1>2. ASSUME NEW n \in 0..N, n \in T, n < N
      PROVE  n + 1 \in T
  <2>1. PICK g : TurnedUpTo(g, events, n)
    BY <1>2
  <2> DEFINE h == [s \in SUBSET (1..(n + 1)) |->
                      IF n + 1 \in s THEN Turned(events[n + 1], g[s \ {n + 1}]) ELSE g[s]]
  <2>2. ASSUME NEW s \in SUBSET (1..(n + 1))
        PROVE  h[s] = IF s = {} THEN Begun ELSE Turned(events[Max(s)], h[s \ {Max(s)}])
    <3>1. CASE n + 1 \in s
      <4>1. Max(s) = n + 1
        BY <3>1, LastOfSome
      <4>2. s \ {n + 1} \in SUBSET (1..(n + 1)) /\ n + 1 \notin s \ {n + 1} /\ s # {}
        BY <3>1
      <4>3. h[s \ {n + 1}] = g[s \ {n + 1}]
        BY <4>2
      <4> QED
        BY <3>1, <4>1, <4>2, <4>3
    <3>2. CASE n + 1 \notin s
      <4>1. s \in SUBSET (1..n)
        BY <3>2
      <4>2. h[s] = g[s]
        BY <3>2
      <4>3. g[s] = IF s = {} THEN Begun ELSE Turned(events[Max(s)], g[s \ {Max(s)}])
        BY <4>1, <2>1 DEF TurnedUpTo
      <4>4. h[s \ {Max(s)}] = g[s \ {Max(s)}]
        <5>1. s \ {Max(s)} \in SUBSET (1..(n + 1)) /\ n + 1 \notin s \ {Max(s)}
          BY <3>2
        <5> QED
          BY <5>1
      <4> QED
        BY <4>2, <4>3, <4>4
    <3> QED
      BY <3>1, <3>2
  <2>3. TurnedUpTo(h, events, n + 1)
    <3>1. DOMAIN h = SUBSET (1..(n + 1))
      OBVIOUS
    <3> HIDE DEF h
    <3>2. \A s \in SUBSET (1..(n + 1)) :
             h[s] = IF s = {} THEN Begun ELSE Turned(events[Max(s)], h[s \ {Max(s)}])
      BY <2>2
    <3>3. h = [s \in SUBSET (1..(n + 1)) |-> h[s]]
      BY <3>1 DEF h
    <3> QED
      BY <3>2, <3>3 DEF TurnedUpTo
  <2> HIDE DEF h
  <2>4. n + 1 \in 0..N
    BY <1>2
  <2> QED
    BY <2>3, <2>4
<1>3. \A n \in 0..N : n \in T /\ n < N => n + 1 \in T
    BY <1>2
<1> HIDE DEF T
<1>4. N \in T
    BY <1>1, <1>3, InductionUpTo
<1> QED
    BY <1>4 DEF T

LEMMA TranslatedSteps ==
    ASSUME NEW S, NEW events \in Seq(S)
    PROVE  \E after :
              /\ after[0] = Begun
              /\ \A k \in 1..Len(events) : after[k] = Turned(events[k], after[k - 1])
              /\ Translated(events) = after[Len(events)]
<1> DEFINE N == Len(events)
           g == CHOOSE f : TurnedUpTo(f, events, N)
<1>1. N \in Nat
    OBVIOUS
<1>2. TurnedUpTo(g, events, N)
    BY <1>1, TurnedExists
<1>3. Translated(events) = g[1..N]
    BY TranslatedDef
<1> HIDE DEF g, N
<1> DEFINE after == [k \in 0..N |-> g[1..k]]
<1>4. g[{}] = Begun
    BY <1>2 DEF TurnedUpTo
<1>5. ASSUME NEW k \in 1..N
      PROVE  g[1..k] = Turned(events[k], g[1..(k - 1)])
  <2>1. k \in Nat /\ k - 1 \in Nat /\ k - 1 + 1 = k /\ 1..k \in SUBSET (1..N) /\ k \in 1..k
    BY <1>1
  <2>2. Max(1..k) = k
    BY <2>1, LastOfSome
  <2>3. (1..k) \ {k} = 1..(k - 1)
    BY <2>1
  <2> QED
    BY <1>2, <2>1, <2>2, <2>3 DEF TurnedUpTo
<1>6. after[0] = Begun
  <2>1. 1..0 = {}
    OBVIOUS
  <2> QED
    BY <1>1, <1>4, <2>1
<1>7. \A k \in 1..N : after[k] = Turned(events[k], after[k - 1])
    BY <1>1, <1>5
<1>8. Translated(events) = after[N]
    BY <1>1, <1>3
<1> HIDE DEF after
<1> QED
    BY <1>6, <1>7, <1>8 DEF N

--------------------------------------------------------------------------------
(***************************************************************************)
(* The items of a stream for a Responses client.  Item i is that of the    *)
(* i-th block, of kind ks[i + 1]; the last is open or closed, the others   *)
(* are closed.                                                             *)
(***************************************************************************)
TypesOf(kind) ==
    {"item.added", "item.done"}
    \cup IF kind = "tool_use" THEN {"arguments.delta", "arguments.done"}
         ELSE {"part.added", "text.delta", "text.done", "part.done"}

ItemTypes == TypesOf("tool_use") \cup TypesOf("text")

Items == [type : ItemTypes, index : Nat] \cup [type : {"created", "in_progress", "completed", "error"}]

OfItem(x, i) == "index" \in DOMAIN x /\ x.index = i

Starts(o, i, p) ==
    /\ OfItem(o[p], i) /\ o[p].type = "item.added"
    /\ \A k \in 1..Len(o) : OfItem(o[k], i) => k >= p /\ (o[k].type = "item.added" => k = p)

IsDone(x, i) == OfItem(x, i) /\ x.type = "item.done"

Formed(o, ks, last) ==
    /\ o \in Seq(Items) /\ ks \in Seq(Kinds)
    /\ last \in {"open", "closed"} /\ (last = "open" => Len(ks) > 0)
    /\ \A k \in 1..Len(o) : "index" \in DOMAIN o[k] =>
          o[k].index \in 0..(Len(ks) - 1) /\ o[k].type \in TypesOf(ks[o[k].index + 1])
    /\ \A i \in 0..(Len(ks) - 1) : \E p \in 1..Len(o) : Starts(o, i, p)
    /\ \A i \in 0..(Len(ks) - 1) :
          ~(last = "open" /\ i = Len(ks) - 1) => \E p \in 1..Len(o) : IsDone(o[p], i)
    /\ \A k \in 1..Len(o) : last = "open" => ~IsDone(o[k], Len(ks) - 1)
    /\ \A i \in 0..(Len(ks) - 1) : \A j, k \in 1..Len(o) : IsDone(o[k], i) /\ OfItem(o[j], i) => j <= k
    /\ \A k \in 1..Len(o) : o[k].type = "completed" => k = Len(o) /\ last = "closed"

NotOver(o) == \A k \in 1..Len(o) : o[k].type # "completed"

LEMMA OneMore ==
    ASSUME NEW o \in Seq(Items), NEW x \in Items
    PROVE  /\ Append(o, x) \in Seq(Items) /\ Len(Append(o, x)) = Len(o) + 1 /\ Len(o) \in Nat
           /\ \A k \in 1..Len(o) : Append(o, x)[k] = o[k]
           /\ Append(o, x)[Len(o) + 1] = x
           /\ \A k \in 1..(Len(o) + 1) : k \in 1..Len(o) \/ k = Len(o) + 1
    OBVIOUS

\* An event that is of no item.
LEMMA Mentioned ==
    ASSUME NEW o, NEW ks, NEW last, Formed(o, ks, last), NotOver(o),
           NEW x \in Items, "index" \notin DOMAIN x, x.type = "completed" => last = "closed"
    PROVE  Formed(Append(o, x), ks, last) /\ (x.type # "completed" => NotOver(Append(o, x)))
<1> DEFINE t == Append(o, x)
           L == Len(o)
<1>1. o \in Seq(Items)
    BY DEF Formed
<1>2. /\ t \in Seq(Items) /\ Len(t) = L + 1 /\ L \in Nat
      /\ \A k \in 1..L : t[k] = o[k]
      /\ t[L + 1] = x
      /\ \A k \in 1..(L + 1) : k \in 1..L \/ k = L + 1
    BY <1>1, OneMore
<1> HIDE DEF t, L
<1>3. \A i : ~OfItem(x, i) /\ ~IsDone(x, i)
    BY DEF OfItem, IsDone
<1>4. \A k \in 1..L : k \in 1..Len(t)
    BY <1>2
<1>5. /\ ks \in Seq(Kinds) /\ last \in {"open", "closed"} /\ (last = "open" => Len(ks) > 0)
      /\ \A k \in 1..L : "index" \in DOMAIN o[k] =>
            o[k].index \in 0..(Len(ks) - 1) /\ o[k].type \in TypesOf(ks[o[k].index + 1])
      /\ \A i \in 0..(Len(ks) - 1) : \E p \in 1..L : Starts(o, i, p)
      /\ \A i \in 0..(Len(ks) - 1) :
            ~(last = "open" /\ i = Len(ks) - 1) => \E p \in 1..L : IsDone(o[p], i)
      /\ \A k \in 1..L : last = "open" => ~IsDone(o[k], Len(ks) - 1)
      /\ \A i \in 0..(Len(ks) - 1) : \A j, k \in 1..L : IsDone(o[k], i) /\ OfItem(o[j], i) => j <= k
    BY DEF Formed, L
<1>6. \A k \in 1..L : t[k].type # "completed"
    BY <1>2 DEF NotOver, L
<1>7. \A k \in 1..Len(t) : "index" \in DOMAIN t[k] =>
         t[k].index \in 0..(Len(ks) - 1) /\ t[k].type \in TypesOf(ks[t[k].index + 1])
    BY <1>2, <1>5
<1>8. ASSUME NEW i \in 0..(Len(ks) - 1)
      PROVE  \E p \in 1..Len(t) : Starts(t, i, p)
  <2>1. PICK p \in 1..L : Starts(o, i, p)
    BY <1>5
  <2>2. t[p] = o[p] /\ p \in 1..Len(t)
    BY <1>2, <1>4
  <2>3. \A k \in 1..Len(t) : OfItem(t[k], i) => k \in 1..L /\ t[k] = o[k]
    BY <1>2, <1>3
  <2>4. Starts(t, i, p)
    BY <2>1, <2>2, <2>3 DEF Starts, L
  <2> QED
    BY <2>2, <2>4
<1>9. \A i \in 0..(Len(ks) - 1) :
         ~(last = "open" /\ i = Len(ks) - 1) => \E p \in 1..Len(t) : IsDone(t[p], i)
    BY <1>2, <1>4, <1>5
<1>10. \A k \in 1..Len(t) : last = "open" => ~IsDone(t[k], Len(ks) - 1)
    BY <1>2, <1>3, <1>5
<1>11. \A i \in 0..(Len(ks) - 1) : \A j, k \in 1..Len(t) : IsDone(t[k], i) /\ OfItem(t[j], i) => j <= k
    BY <1>2, <1>3, <1>5
<1>12. \A k \in 1..Len(t) : t[k].type = "completed" => k = Len(t) /\ last = "closed"
    BY <1>2, <1>6
<1>13. Formed(t, ks, last)
    BY <1>2, <1>5, <1>7, <1>8, <1>9, <1>10, <1>11, <1>12 DEF Formed
<1>14. x.type # "completed" => NotOver(t)
    BY <1>2, <1>6 DEF NotOver
<1> QED
    BY <1>13, <1>14 DEF t

\* The first event of an item.
LEMMA Announced ==
    ASSUME NEW o, NEW ks, Formed(o, ks, "closed"), NotOver(o), NEW kind \in Kinds,
           NEW x, x = [type |-> "item.added", index |-> Len(ks)]
    PROVE  Formed(Append(o, x), Append(ks, kind), "open") /\ NotOver(Append(o, x))
<1> DEFINE t == Append(o, x)
           L == Len(o)
           c == Len(ks)
           more == Append(ks, kind)
<1>1. o \in Seq(Items) /\ ks \in Seq(Kinds)
    BY DEF Formed
<1>2. c \in Nat /\ more \in Seq(Kinds) /\ Len(more) = c + 1 /\ more[c + 1] = kind
      /\ \A i \in 1..c : more[i] = ks[i]
    BY <1>1
<1>3. x \in Items
  <2>1. "item.added" \in ItemTypes
    BY DEF ItemTypes, TypesOf
  <2> QED
    BY <1>2, <2>1 DEF Items
<1>4. /\ t \in Seq(Items) /\ Len(t) = L + 1 /\ L \in Nat
      /\ \A k \in 1..L : t[k] = o[k]
      /\ t[L + 1] = x
      /\ \A k \in 1..(L + 1) : k \in 1..L \/ k = L + 1
    BY <1>1, <1>3, OneMore
<1>5. /\ \A k \in 1..L : "index" \in DOMAIN o[k] =>
            o[k].index \in 0..(c - 1) /\ o[k].type \in TypesOf(ks[o[k].index + 1])
      /\ \A i \in 0..(c - 1) : \E p \in 1..L : Starts(o, i, p)
      /\ \A i \in 0..(c - 1) : \E p \in 1..L : IsDone(o[p], i)
      /\ \A i \in 0..(c - 1) : \A j, k \in 1..L : IsDone(o[k], i) /\ OfItem(o[j], i) => j <= k
    BY DEF Formed
<1>6. /\ \A i : OfItem(x, i) <=> i = c
      /\ \A i : ~IsDone(x, i)
      /\ x.type = "item.added" /\ x.index = c /\ "index" \in DOMAIN x
    BY DEF OfItem, IsDone
<1> HIDE DEF t, L, c, more
<1>7. /\ \A k \in 1..L : k \in 1..Len(t)
      /\ L + 1 \in 1..Len(t)
      /\ \A i \in 0..((c + 1) - 1) : i \in 0..(c - 1) \/ i = c
      /\ \A i \in 0..(c - 1) : i # c /\ i \in 0..((c + 1) - 1) /\ i + 1 \in 1..c
      /\ c \in 0..((c + 1) - 1)
    BY <1>2, <1>4
<1>8. \A k \in 1..L : ~OfItem(t[k], c)
    BY <1>4, <1>5, <1>7 DEF OfItem
<1>9. \A k \in 1..Len(t) : "index" \in DOMAIN t[k] =>
         t[k].index \in 0..((c + 1) - 1) /\ t[k].type \in TypesOf(more[t[k].index + 1])
  <2> SUFFICES ASSUME NEW k \in 1..Len(t), "index" \in DOMAIN t[k]
               PROVE  t[k].index \in 0..((c + 1) - 1) /\ t[k].type \in TypesOf(more[t[k].index + 1])
    OBVIOUS
  <2>1. CASE k \in 1..L
    BY <1>2, <1>4, <1>5, <1>7, <2>1
  <2>2. CASE k = L + 1
    <3>1. t[k].type \in TypesOf(kind)
      BY <1>4, <1>6, <2>2 DEF TypesOf
    <3> QED
      BY <1>2, <1>4, <1>6, <1>7, <2>2, <3>1
  <2> QED
    BY <1>4, <2>1, <2>2
<1>10. ASSUME NEW i \in 0..((c + 1) - 1)
       PROVE  \E p \in 1..Len(t) : Starts(t, i, p)
  <2>1. CASE i \in 0..(c - 1)
    <3>1. PICK p \in 1..L : Starts(o, i, p)
      BY <1>5, <2>1
    <3>2. t[p] = o[p] /\ p \in 1..Len(t)
      BY <1>4, <1>7
    <3>3. \A k \in 1..Len(t) : OfItem(t[k], i) => k \in 1..L /\ t[k] = o[k]
      BY <1>4, <1>6, <1>7, <2>1
    <3>4. Starts(t, i, p)
      BY <3>1, <3>2, <3>3 DEF Starts, L
    <3> QED
      BY <3>2, <3>4
  <2>2. CASE i = c
    <3>1. OfItem(t[L + 1], i) /\ t[L + 1].type = "item.added"
      BY <1>4, <1>6, <2>2
    <3>2. \A k \in 1..Len(t) : OfItem(t[k], i) => k = L + 1
      BY <1>4, <1>8, <2>2
    <3>3. Starts(t, i, L + 1)
      BY <1>4, <3>1, <3>2 DEF Starts
    <3> QED
      BY <1>7, <3>3
  <2> QED
    BY <1>7, <2>1, <2>2
<1>11. \A i \in 0..((c + 1) - 1) : i # (c + 1) - 1 => \E p \in 1..Len(t) : IsDone(t[p], i)
  <2> SUFFICES ASSUME NEW i \in 0..((c + 1) - 1), i # (c + 1) - 1
               PROVE  \E p \in 1..Len(t) : IsDone(t[p], i)
    OBVIOUS
  <2>1. i \in 0..(c - 1)
    BY <1>2
  <2> QED
    BY <1>4, <1>5, <1>7, <2>1
<1>12. \A k \in 1..Len(t) : ~IsDone(t[k], (c + 1) - 1)
  <2>1. (c + 1) - 1 = c
    BY <1>2
  <2> QED
    BY <1>4, <1>6, <1>8, <2>1 DEF IsDone
<1>13. \A i \in 0..((c + 1) - 1) : \A j, k \in 1..Len(t) : IsDone(t[k], i) /\ OfItem(t[j], i) => j <= k
  <2> SUFFICES ASSUME NEW i \in 0..((c + 1) - 1), NEW j \in 1..Len(t), NEW k \in 1..Len(t),
                      IsDone(t[k], i), OfItem(t[j], i)
               PROVE  j <= k
    OBVIOUS
  <2>1. k \in 1..L /\ t[k] = o[k]
    BY <1>4, <1>6
  <2>2. i # c
    BY <1>8, <2>1 DEF IsDone
  <2>3. i \in 0..(c - 1) /\ j \in 1..L /\ t[j] = o[j]
    BY <1>4, <1>6, <1>7, <2>2
  <2> QED
    BY <1>5, <2>1, <2>3
<1>14. \A k \in 1..Len(t) : t[k].type # "completed"
    BY <1>4, <1>6 DEF NotOver, L
<1>15. Formed(t, more, "open")
    BY <1>2, <1>4, <1>9, <1>10, <1>11, <1>12, <1>13, <1>14 DEF Formed
<1> QED
    BY <1>14, <1>15 DEF NotOver, t, more

\* A later event of the last item.
LEMMA Spoken ==
    ASSUME NEW o, NEW ks, Formed(o, ks, "open"),
           NEW type, type \in TypesOf(ks[Len(ks)]) \ {"item.added"},
           NEW x, x = [type |-> type, index |-> Len(ks) - 1]
    PROVE  Formed(Append(o, x), ks, IF type = "item.done" THEN "closed" ELSE "open") /\ NotOver(Append(o, x))
<1> DEFINE t == Append(o, x)
           L == Len(o)
           c == Len(ks)
           last == IF type = "item.done" THEN "closed" ELSE "open"
<1>1. o \in Seq(Items) /\ ks \in Seq(Kinds) /\ c \in Nat /\ c > 0
    BY DEF Formed
<1>2. ks[c] \in Kinds /\ c - 1 \in Nat /\ c - 1 \in 0..(c - 1) /\ (c - 1) + 1 = c
    BY <1>1
<1>3. x \in Items /\ type # "completed"
  <2>1. type \in ItemTypes
    BY <1>2 DEF ItemTypes, TypesOf
  <2>2. x \in [type : ItemTypes, index : Nat]
    BY <1>2, <2>1
  <2>3. "completed" \notin ItemTypes
    BY DEF ItemTypes, TypesOf
  <2> QED
    BY <2>1, <2>2, <2>3 DEF Items
<1>4. /\ t \in Seq(Items) /\ Len(t) = L + 1 /\ L \in Nat
      /\ \A k \in 1..L : t[k] = o[k]
      /\ t[L + 1] = x
      /\ \A k \in 1..(L + 1) : k \in 1..L \/ k = L + 1
    BY <1>1, <1>3, OneMore
<1>5. /\ \A k \in 1..L : "index" \in DOMAIN o[k] =>
            o[k].index \in 0..(c - 1) /\ o[k].type \in TypesOf(ks[o[k].index + 1])
      /\ \A i \in 0..(c - 1) : \E p \in 1..L : Starts(o, i, p)
      /\ \A i \in 0..(c - 1) : i # c - 1 => \E p \in 1..L : IsDone(o[p], i)
      /\ \A k \in 1..L : ~IsDone(o[k], c - 1)
      /\ \A i \in 0..(c - 1) : \A j, k \in 1..L : IsDone(o[k], i) /\ OfItem(o[j], i) => j <= k
      /\ \A k \in 1..L : o[k].type # "completed"
    BY DEF Formed
<1>6. /\ \A i : OfItem(x, i) <=> i = c - 1
      /\ \A i : IsDone(x, i) <=> i = c - 1 /\ last = "closed"
      /\ x.type = type /\ x.index = c - 1 /\ "index" \in DOMAIN x /\ type # "item.added"
    BY DEF OfItem, IsDone
<1>7. last \in {"open", "closed"} /\ type \in TypesOf(ks[c])
    OBVIOUS
<1> HIDE DEF t, L, c, last
<1>8. /\ \A k \in 1..L : k \in 1..Len(t) /\ k <= L + 1
      /\ L + 1 \in 1..Len(t)
    BY <1>4
<1>9. \A k \in 1..Len(t) : "index" \in DOMAIN t[k] =>
         t[k].index \in 0..(c - 1) /\ t[k].type \in TypesOf(ks[t[k].index + 1])
  <2> SUFFICES ASSUME NEW k \in 1..Len(t), "index" \in DOMAIN t[k]
               PROVE  t[k].index \in 0..(c - 1) /\ t[k].type \in TypesOf(ks[t[k].index + 1])
    OBVIOUS
  <2>1. CASE k \in 1..L
    BY <1>4, <1>5, <2>1
  <2>2. CASE k = L + 1
    BY <1>2, <1>4, <1>6, <1>7, <2>2
  <2> QED
    BY <1>4, <2>1, <2>2
<1>10. ASSUME NEW i \in 0..(c - 1)
       PROVE  \E p \in 1..Len(t) : Starts(t, i, p)
  <2>1. PICK p \in 1..L : Starts(o, i, p)
    BY <1>5
  <2>2. t[p] = o[p] /\ p \in 1..Len(t)
    BY <1>4, <1>8
  <2>3. \A k \in 1..Len(t) : OfItem(t[k], i) => k >= p /\ (t[k].type = "item.added" => k = p)
    <3> SUFFICES ASSUME NEW k \in 1..Len(t), OfItem(t[k], i)
                 PROVE  k >= p /\ (t[k].type = "item.added" => k = p)
      OBVIOUS
    <3>1. CASE k \in 1..L
      BY <1>4, <2>1, <3>1 DEF Starts, L
    <3>2. CASE k = L + 1
      BY <1>4, <1>6, <3>2
    <3> QED
      BY <1>4, <3>1, <3>2
  <2>4. Starts(t, i, p)
    BY <2>1, <2>2, <2>3 DEF Starts
  <2> QED
    BY <2>2, <2>4
<1>11. \A i \in 0..(c - 1) : ~(last = "open" /\ i = c - 1) => \E p \in 1..Len(t) : IsDone(t[p], i)
  <2> SUFFICES ASSUME NEW i \in 0..(c - 1), ~(last = "open" /\ i = c - 1)
               PROVE  \E p \in 1..Len(t) : IsDone(t[p], i)
    OBVIOUS
  <2>1. CASE i # c - 1
    BY <1>4, <1>5, <1>8, <2>1
  <2>2. CASE i = c - 1
    BY <1>4, <1>6, <1>7, <1>8, <2>2
  <2> QED
    BY <2>1, <2>2
<1>12. \A k \in 1..Len(t) : last = "open" => ~IsDone(t[k], c - 1)
    BY <1>4, <1>5, <1>6
<1>13. \A i \in 0..(c - 1) : \A j, k \in 1..Len(t) : IsDone(t[k], i) /\ OfItem(t[j], i) => j <= k
  <2> SUFFICES ASSUME NEW i \in 0..(c - 1), NEW j \in 1..Len(t), NEW k \in 1..Len(t),
                      IsDone(t[k], i), OfItem(t[j], i)
               PROVE  j <= k
    OBVIOUS
  <2>1. CASE k \in 1..L
    <3>1. i # c - 1
      BY <1>4, <1>5, <2>1
    <3>2. j \in 1..L
      BY <1>4, <1>6, <3>1
    <3> QED
      BY <1>4, <1>5, <2>1, <3>2
  <2>2. CASE k = L + 1
    BY <1>4, <1>8, <2>2
  <2> QED
    BY <1>4, <2>1, <2>2
<1>14. \A k \in 1..Len(t) : t[k].type # "completed"
    BY <1>3, <1>4, <1>5, <1>6
<1>15. Formed(t, ks, last)
    BY <1>1, <1>4, <1>7, <1>9, <1>10, <1>11, <1>12, <1>13, <1>14 DEF Formed, c
<1> QED
    BY <1>14, <1>15 DEF NotOver, t, last

LEMMA Added ==
    ASSUME NEW o \in Seq(Items), NEW a \in Items, NEW b \in Items, NEW c \in Items
    PROVE  /\ o \o <<>> = o /\ o \o <<a>> = Append(o, a) /\ o \o <<a, b>> = Append(Append(o, a), b)
           /\ o \o <<a, b, c>> = Append(Append(Append(o, a), b), c)
           /\ <<a>> \o <<>> = <<a>> /\ <<a>> \o <<b>> = <<a, b>> /\ <<a, b>> \o <<c>> = <<a, b, c>>
<1>1. <<a>> \in Seq(Items) /\ <<a, b>> \in Seq(Items) /\ <<b>> \in Seq(Items)
    OBVIOUS
<1>2. o \o <<>> = o /\ o \o <<a>> = Append(o, a)
    OBVIOUS
<1>3. o \o <<a, b>> = Append(Append(o, a), b)
    OBVIOUS
<1>4. o \o <<a, b, c>> = Append(Append(Append(o, a), b), c)
    OBVIOUS
<1>5. ASSUME NEW x \in Seq(Items), Len(x) \in {1, 2}, NEW y \in Items
      PROVE  x \o <<y>> = IF Len(x) = 1 THEN <<x[1], y>> ELSE <<x[1], x[2], y>>
  <2> DEFINE z == x \o <<y>>
  <2>1. z = Append(x, y)
    OBVIOUS
  <2>2. z = [i \in 1..(Len(x) + 1) |-> IF i = Len(x) + 1 THEN y ELSE x[i]]
    BY <2>1
  <2> HIDE DEF z
  <2>3. CASE Len(x) = 1
    <3>1. z = [i \in 1..2 |-> IF i = 2 THEN y ELSE x[i]]
      BY <2>2, <2>3
    <3>2. z = <<x[1], y>>
      BY <3>1
    <3> QED
      BY <2>3, <3>2 DEF z
  <2>4. CASE Len(x) = 2
    <3>1. z = [i \in 1..3 |-> IF i = 3 THEN y ELSE x[i]]
      BY <2>2, <2>4
    <3>2. z = <<x[1], x[2], y>>
      BY <3>1
    <3> QED
      BY <2>4, <3>2 DEF z
  <2> QED
    BY <1>5, <2>3, <2>4
<1>6. <<a>> \o <<b>> = <<a, b>> /\ <<a, b>> \o <<c>> = <<a, b, c>>
  <2> DEFINE x == <<a>>
             y == <<a, b>>
  <2>1. Len(x) = 1 /\ x[1] = a /\ x \in Seq(Items)
    OBVIOUS
  <2>2. Len(y) = 2 /\ y[1] = a /\ y[2] = b /\ y \in Seq(Items)
    OBVIOUS
  <2> HIDE DEF x, y
  <2>3. x \o <<b>> = <<a, b>>
    BY <1>5, <2>1
  <2>4. y \o <<c>> = <<a, b, c>>
    <3>1. y \o <<c>> = IF Len(y) = 1 THEN <<y[1], c>> ELSE <<y[1], y[2], c>>
      BY ONLY <1>5, <2>2, c \in Items
    <3> QED
      BY <2>2, <3>1
  <2> QED
    BY <2>3, <2>4 DEF x, y
<1>7. <<a>> \o <<>> = <<a>>
    BY <1>1
<1> QED
    BY <1>2, <1>3, <1>4, <1>6, <1>7

--------------------------------------------------------------------------------
(***************************************************************************)
(* The provider keeps to the protocol of Claude: what an event is, as far  *)
(* as the one before it tells.                                             *)
(***************************************************************************)
TypeBefore(n) == IF n = 1 THEN "nothing" ELSE script[n - 1].type

InProtocol(n) ==
    LET e == script[n]
        p == TypeBefore(n)
    IN  /\ e.type \in {"message_start", "content_block_start", "content_block_delta", "content_block_stop",
                       "message_delta", "message_stop", "error"}
        /\ p \notin {"message_stop", "error"}
        /\ e.type = "message_start" <=> p = "nothing"
        /\ e.type = "content_block_start" =>
              /\ p \in {"message_start", "content_block_stop"} /\ e.kind \in Kinds
              /\ e.index = IF p = "message_start" THEN 0 ELSE script[n - 1].index + 1
        /\ e.type = "content_block_delta" =>
              p = "content_block_start" /\ e.index = script[n - 1].index /\ e.kind = script[n - 1].kind
        /\ e.type = "content_block_stop" =>
              p \in {"content_block_start", "content_block_delta"} /\ e.index = script[n - 1].index
        /\ e.type = "message_delta" => p = "content_block_stop"
        /\ e.type = "message_stop" => p = "message_delta"

\* What has been made of the first n events.
Made(o, ks, n, last) ==
    LET type == TypeBefore(n + 1)
    IN  /\ Formed(o, ks, last)
        /\ type \in {"nothing", "message_start"} => Len(ks) = 0
        /\ type \in {"content_block_start", "content_block_delta", "content_block_stop"} =>
              Len(ks) > 0 /\ script[n].index = Len(ks) - 1
        /\ type \in {"content_block_start", "content_block_delta"} =>
              last = "open" /\ script[n].kind = ks[Len(ks)]
        /\ type \notin {"content_block_start", "content_block_delta", "error"} => last = "closed"
        /\ type # "message_stop" => NotOver(o)

MadeOf(o, ks, n) == \E last : Made(o, ks, n, last)

\* One event more is translated.
LEMMA EventTurns ==
    ASSUME NEW o, NEW ks, NEW n \in Nat, MadeOf(o, ks, n), InProtocol(n + 1)
    PROVE  LET e == script[n + 1]
               more == KindsAfter(e, ks)
           IN  MadeOf(o \o ResponsesEvents(e, more), more, n + 1)
<1> DEFINE e == script[n + 1]
           more == KindsAfter(e, ks)
           new == ResponsesEvents(e, more)
           p == TypeBefore(n + 1)
<1>1. PICK last : Made(o, ks, n, last)
    BY DEF MadeOf
<1>2. TypeBefore(n + 2) = e.type /\ n + 1 + 1 = n + 2
  <2>1. n + 2 # 1 /\ n + 2 - 1 = n + 1
    OBVIOUS
  <2> QED
    BY <2>1 DEF TypeBefore
<1>3. /\ Formed(o, ks, last)
      /\ p \in {"nothing", "message_start"} => Len(ks) = 0
      /\ p \in {"content_block_start", "content_block_delta", "content_block_stop"} =>
            Len(ks) > 0 /\ script[n].index = Len(ks) - 1
      /\ p \in {"content_block_start", "content_block_delta"} =>
            last = "open" /\ script[n].kind = ks[Len(ks)]
      /\ p \notin {"content_block_start", "content_block_delta", "error"} => last = "closed"
      /\ p # "message_stop" => NotOver(o)
    BY <1>1 DEF Made
<1>4. /\ e.type \in {"message_start", "content_block_start", "content_block_delta", "content_block_stop",
                     "message_delta", "message_stop", "error"}
      /\ p \notin {"message_stop", "error"}
      /\ e.type = "message_start" <=> p = "nothing"
      /\ e.type = "content_block_start" =>
            /\ p \in {"message_start", "content_block_stop"} /\ e.kind \in Kinds
            /\ e.index = IF p = "message_start" THEN 0 ELSE script[n].index + 1
      /\ e.type = "content_block_delta" =>
            p = "content_block_start" /\ e.index = script[n].index /\ e.kind = script[n].kind
      /\ e.type = "content_block_stop" =>
            p \in {"content_block_start", "content_block_delta"} /\ e.index = script[n].index
      /\ e.type = "message_delta" => p = "content_block_stop"
      /\ e.type = "message_stop" => p = "message_delta"
  <2>1. n + 1 - 1 = n
    OBVIOUS
  <2> QED
    BY <2>1 DEF InProtocol
<1>5. NotOver(o) /\ o \in Seq(Items) /\ ks \in Seq(Kinds) /\ Len(ks) \in Nat
  <2>1. o \in Seq(Items) /\ ks \in Seq(Kinds)
    BY <1>3 DEF Formed
  <2> QED
    BY <1>3, <1>4, <2>1
<1>6. SUFFICES \E lst : Made(o \o new, more, n + 1, lst)
    BY DEF MadeOf
<1>7. e.type # "content_block_start" => more = ks
    BY DEF KindsAfter
<1> DEFINE it(t) == [type |-> t, index |-> Len(ks) - 1]
<1> HIDE DEF e, more, new, p
<1>8. CASE e.type = "message_start"
  <2> DEFINE x == [type |-> "created"]
             y == [type |-> "in_progress"]
  <2>1. x \in Items /\ y \in Items /\ "index" \notin DOMAIN x /\ "index" \notin DOMAIN y
        /\ x.type # "completed" /\ y.type # "completed"
    BY DEF Items
  <2>2. new = <<x, y>>
    BY <1>8 DEF new, e, ResponsesEvents, Created
  <2> HIDE DEF x, y
  <2>3. o \o new = Append(Append(o, x), y)
    BY <1>5, <2>1, <2>2, Added
  <2>4. Formed(Append(o, x), ks, last) /\ NotOver(Append(o, x))
    BY <1>3, <1>5, <2>1, Mentioned
  <2>5. Formed(o \o new, more, last) /\ NotOver(o \o new)
    BY <1>7, <1>8, <2>1, <2>3, <2>4, Mentioned
  <2> QED
    BY <1>2, <1>3, <1>4, <1>7, <1>8, <2>5 DEF Made
<1>9. CASE e.type = "content_block_start"
  <2> DEFINE c == Len(ks)
             x == [type |-> "item.added", index |-> c]
             y == [type |-> "part.added", index |-> c]
  <2>1. e.kind \in Kinds /\ e.index = c /\ last = "closed"
    BY <1>3, <1>4, <1>5, <1>9
  <2>2. more = Append(ks, e.kind) /\ Len(more) = c + 1 /\ more[c + 1] = e.kind
    BY <1>5, <1>9, <2>1 DEF more, KindsAfter
  <2>3. new = <<x>> \o (IF e.kind = "tool_use" THEN <<>> ELSE <<y>>)
    BY <1>9, <2>1 DEF new, e, ResponsesEvents, BlockStart, Item
  <2>4. x \in Items /\ y \in Items
    <3>1. "item.added" \in ItemTypes /\ "part.added" \in ItemTypes
      BY DEF ItemTypes, TypesOf
    <3> QED
      BY <1>5, <3>1 DEF Items
  <2>5. Formed(Append(o, x), more, "open") /\ NotOver(Append(o, x))
    BY <1>3, <1>5, <2>1, <2>2, Announced
  <2>6. Len(more) - 1 = c /\ Len(more) > 0
    BY <1>5, <2>2
  <2>7. Formed(o \o new, more, "open") /\ NotOver(o \o new)
    <3>1. CASE e.kind = "tool_use"
      <4>1. o \o new = Append(o, x)
        BY <1>5, <2>3, <2>4, <3>1, Added
      <4> QED
        BY <2>5, <4>1
    <3>2. CASE e.kind # "tool_use"
      <4> DEFINE longer == Append(o, x)
      <4>1. o \o new = Append(longer, y)
        BY <1>5, <2>3, <2>4, <3>2, Added
      <4>2. "part.added" \in TypesOf(more[Len(more)]) \ {"item.added"}
        <5>1. more[Len(more)] = e.kind
          BY <1>5, <2>2
        <5> QED
          BY <3>2, <5>1 DEF TypesOf
      <4>3. y = [type |-> "part.added", index |-> Len(more) - 1]
        BY <2>6
      <4> HIDE DEF longer, y
      <4>4. Formed(longer, more, "open")
        BY <2>5 DEF longer
      <4>5. Formed(Append(longer, y), more, IF "part.added" = "item.done" THEN "closed" ELSE "open")
            /\ NotOver(Append(longer, y))
        BY <4>2, <4>3, <4>4, Spoken
      <4> QED
        BY <4>1, <4>5
    <3> QED
      BY <3>1, <3>2
  <2>8. Made(o \o new, more, n + 1, "open")
    <3>1. script[n + 1].index = Len(more) - 1 /\ script[n + 1].kind = more[Len(more)]
      BY <1>5, <2>1, <2>2, <2>6 DEF e
    <3> QED
      BY <1>2, <1>9, <2>6, <2>7, <3>1 DEF Made
  <2> QED
    BY <2>8
<1>10. CASE e.type = "content_block_delta"
  <2>1. last = "open" /\ e.index = Len(ks) - 1 /\ e.kind = ks[Len(ks)] /\ Len(ks) > 0 /\ e.kind \in Kinds
    BY <1>3, <1>4, <1>5, <1>10
  <2>2. new = IF e.kind = "text" THEN <<it("text.delta")>>
              ELSE IF e.kind = "tool_use" THEN <<it("arguments.delta")>> ELSE <<>>
    BY <1>10, <2>1 DEF new, e, ResponsesEvents, BlockDelta, Item
  <2>3. Formed(o \o new, more, "open") /\ NotOver(o \o new)
    <3>1. ASSUME NEW t \in {"text.delta", "arguments.delta"}, t \in TypesOf(e.kind), new = <<it(t)>>
          PROVE  Formed(o \o new, more, "open") /\ NotOver(o \o new)
      <4>1. it(t) \in Items
        <5>1. t \in ItemTypes
          BY <3>1 DEF ItemTypes, TypesOf
        <5> QED
          BY <1>5, <2>1, <5>1 DEF Items
      <4>2. o \o new = Append(o, it(t))
        BY <1>5, <3>1, <4>1, Added
      <4>3. t \in TypesOf(ks[Len(ks)]) \ {"item.added"} /\ t # "item.done"
        BY <2>1, <3>1
      <4>4. Formed(Append(o, it(t)), ks, IF t = "item.done" THEN "closed" ELSE "open")
            /\ NotOver(Append(o, it(t)))
        BY <1>3, <2>1, <4>3, Spoken
      <4> QED
        BY <1>7, <1>10, <4>2, <4>3, <4>4
    <3>2. CASE e.kind = "text"
      <4>1. "text.delta" \in TypesOf(e.kind)
        BY <3>2 DEF TypesOf
      <4> QED
        BY <2>2, <3>1, <3>2, <4>1
    <3>3. CASE e.kind = "tool_use"
      <4>1. "arguments.delta" \in TypesOf(e.kind)
        BY <3>3 DEF TypesOf
      <4> QED
        BY <2>2, <3>1, <3>3, <4>1
    <3>4. CASE e.kind \notin {"text", "tool_use"}
      <4>1. o \o new = o
        BY <1>5, <2>2, <3>4
      <4> QED
        BY <1>3, <1>5, <1>7, <1>10, <2>1, <4>1
    <3> QED
      BY <3>2, <3>3, <3>4
  <2>4. Made(o \o new, more, n + 1, "open")
    BY <1>2, <1>7, <1>10, <2>1, <2>3 DEF Made, e
  <2> QED
    BY <2>4
<1>11. CASE e.type = "content_block_stop"
  <2> DEFINE a == it("arguments.done")
             b == it("text.done")
             c == it("part.done")
             d == it("item.done")
  <2>1. last = "open" /\ e.index = Len(ks) - 1 /\ Len(ks) > 0 /\ ks[Len(ks)] \in Kinds
    BY <1>3, <1>4, <1>5, <1>11
  <2>2. KindOf(more, e) = ks[Len(ks)]
    <3>1. e.index + 1 = Len(ks) /\ Len(ks) \in DOMAIN ks
      BY <1>5, <2>1
    <3> QED
      BY <1>7, <1>11, <3>1 DEF KindOf
  <2>3. new = (IF ks[Len(ks)] = "tool_use" THEN <<a>> ELSE <<b, c>>) \o <<d>>
    BY <1>11, <2>1, <2>2 DEF new, e, ResponsesEvents, BlockStop, Item
  <2>4. a \in Items /\ b \in Items /\ c \in Items /\ d \in Items
    <3>1. {"arguments.done", "text.done", "part.done", "item.done"} \subseteq ItemTypes
      BY DEF ItemTypes, TypesOf
    <3> QED
      BY <1>5, <2>1, <3>1 DEF Items
  <2> DEFINE Says(t) == t \in TypesOf(ks[Len(ks)]) \ {"item.added"}
  <2>5. ASSUME NEW u, Formed(u, ks, "open"), NEW t, Says(t)
        PROVE  Formed(Append(u, it(t)), ks, IF t = "item.done" THEN "closed" ELSE "open")
               /\ NotOver(Append(u, it(t)))
    BY <2>5, Spoken
  <2>6. Says("item.done")
    BY DEF TypesOf
  <2> HIDE DEF it
  <2>7. Formed(o \o new, ks, "closed") /\ NotOver(o \o new)
    <3>1. CASE ks[Len(ks)] = "tool_use"
      <4>1. o \o new = Append(Append(o, a), d)
        BY <1>5, <2>3, <2>4, <3>1, Added
      <4>2. Says("arguments.done")
        BY <3>1 DEF TypesOf
      <4>3. Formed(Append(o, a), ks, "open")
        BY <1>3, <2>1, <2>5, <4>2
      <4> QED
        BY <2>5, <2>6, <4>1, <4>3
    <3>2. CASE ks[Len(ks)] # "tool_use"
      <4>1. o \o new = Append(Append(Append(o, b), c), d)
        BY <1>5, <2>3, <2>4, <3>2, Added
      <4>2. Says("text.done") /\ Says("part.done")
        BY <3>2 DEF TypesOf
      <4>3. Formed(Append(o, b), ks, "open")
        BY <1>3, <2>1, <2>5, <4>2
      <4>4. Formed(Append(Append(o, b), c), ks, "open")
        BY <2>5, <4>2, <4>3
      <4> QED
        BY <2>5, <2>6, <4>1, <4>4
    <3> QED
      BY <3>1, <3>2
  <2>8. Made(o \o new, more, n + 1, "closed")
    BY <1>2, <1>7, <1>11, <2>1, <2>7 DEF Made, e
  <2> QED
    BY <2>8
<1>12. CASE e.type = "message_delta"
  <2>1. new = <<>>
    BY <1>12 DEF new, e, ResponsesEvents
  <2>2. o \o new = o
    BY <1>5, <2>1
  <2>3. Made(o \o new, more, n + 1, last)
    BY <1>2, <1>3, <1>4, <1>5, <1>7, <1>12, <2>2 DEF Made
  <2> QED
    BY <2>3
<1>13. CASE e.type \in {"message_stop", "error"}
  <2> DEFINE x == [type |-> IF e.type = "error" THEN "error" ELSE "completed"]
  <2>1. new = <<x>>
    BY <1>13 DEF new, e, ResponsesEvents
  <2>2. /\ x \in Items /\ "index" \notin DOMAIN x
        /\ x.type = "completed" <=> e.type = "message_stop"
    BY <1>13 DEF Items
  <2>3. e.type = "message_stop" => last = "closed"
    BY <1>3, <1>4
  <2> HIDE DEF x
  <2>4. o \o new = Append(o, x)
    BY <1>5, <2>1, <2>2, Added
  <2>5. Formed(Append(o, x), ks, last) /\ (x.type # "completed" => NotOver(Append(o, x)))
    BY <1>3, <1>5, <2>2, <2>3, Mentioned
  <2>6. Made(o \o new, more, n + 1, last)
    BY <1>2, <1>7, <1>13, <2>2, <2>3, <2>4, <2>5 DEF Made
  <2> QED
    BY <2>6
<1> QED
    BY <1>4, <1>8, <1>9, <1>10, <1>11, <1>12, <1>13

LEMMA FormedIsClosed ==
    ASSUME NEW last, Formed(out, blocks, last), handling = "translate"
    PROVE  ItemsAreClosed
<1> DEFINE c == Len(blocks)
           L == Len(out)
<1>1. out \in Seq(Items) /\ blocks \in Seq(Kinds) /\ L \in Nat /\ DOMAIN out = 1..L /\ c \in Nat
    BY DEF Formed
<1>2. /\ \A k \in 1..L : "index" \in DOMAIN out[k] =>
            out[k].index \in 0..(c - 1) /\ out[k].type \in TypesOf(blocks[out[k].index + 1])
      /\ \A i \in 0..(c - 1) : \E p \in 1..L : Starts(out, i, p)
      /\ \A i \in 0..(c - 1) : ~(last = "open" /\ i = c - 1) => \E p \in 1..L : IsDone(out[p], i)
      /\ \A i \in 0..(c - 1) : \A j, k \in 1..L : IsDone(out[k], i) /\ OfItem(out[j], i) => j <= k
      /\ \A k \in 1..L : out[k].type = "completed" => k = L /\ last = "closed"
    BY DEF Formed
<1>3. \A types : \A k : k \in Of(types) <=> k \in 1..L /\ out[k].type \in types
    BY <1>1 DEF Of
<1>4. \A k \in 1..L : out[k].type \in ItemTypes => "index" \in DOMAIN out[k]
  <2> SUFFICES ASSUME NEW k \in 1..L, out[k].type \in ItemTypes PROVE "index" \in DOMAIN out[k]
    OBVIOUS
  <2>1. out[k] \in Items
    BY <1>1
  <2>2. {"created", "in_progress", "completed", "error"} \cap ItemTypes = {}
    BY DEF ItemTypes, TypesOf
  <2> QED
    BY <2>1, <2>2 DEF Items
<1> HIDE DEF L, c
<1>5. ASSUME NEW k \in DOMAIN out, "index" \in DOMAIN out[k]
      PROVE  LET same   == {j \in DOMAIN out : "index" \in DOMAIN out[j] /\ out[j].index = out[k].index}
                 spoken == {out[j].type : j \in same}
             IN  /\ out[Min(same)].type = "item.added"
                 /\ Cardinality(same \cap Of({"item.added"})) = 1
                 /\ \A j \in same \cap Of({"item.done"}) : j = Max(same)
                 /\ \/ spoken \cap {"text.delta", "text.done", "part.added", "part.done"} = {}
                    \/ spoken \cap {"arguments.delta", "arguments.done"} = {}
  <2> DEFINE i == out[k].index
             same == {j \in DOMAIN out : "index" \in DOMAIN out[j] /\ out[j].index = i}
             spoken == {out[j].type : j \in same}
  <2>1. i \in 0..(c - 1)
    BY <1>1, <1>2, <1>5
  <2>2. \A j : j \in same <=> j \in 1..L /\ OfItem(out[j], i)
    BY <1>1 DEF OfItem
  <2>3. spoken \subseteq TypesOf(blocks[i + 1])
    BY <1>1, <1>2
  <2> HIDE DEF i, same
  <2>4. PICK p \in 1..L : Starts(out, i, p)
    BY <1>2, <2>1
  <2>5. /\ p \in same /\ out[p].type = "item.added"
        /\ \A j \in same : j >= p /\ j \in 1..L /\ (out[j].type = "item.added" => j = p)
    BY <2>2, <2>4 DEF Starts, L
  <2>6. Min(same) = p
    <3>1. \A x \in same : (\A y \in same : x <= y) => x = p
      BY <1>1, <2>5
    <3>2. \A y \in same : p <= y
      BY <1>1, <2>5
    <3> QED
      BY <2>5, <3>1, <3>2 DEF Min
  <2>7. Cardinality(same \cap Of({"item.added"})) = 1
    <3>1. same \cap Of({"item.added"}) = {p}
      BY <1>3, <2>5
    <3> QED
      BY <3>1, FS_Singleton
  <2>8. ASSUME NEW j \in same \cap Of({"item.done"})
        PROVE  j = Max(same)
    <3>1. IsDone(out[j], i) /\ j \in 1..L
      BY <1>3, <2>2 DEF IsDone
    <3>2. \A y \in same : y <= j /\ y \in 1..L
      BY <1>2, <2>1, <2>2, <3>1
    <3>3. \A y \in same : j >= y
      BY <1>1, <3>1, <3>2
    <3>4. \A x \in same : (\A y \in same : x >= y) => x = j
      BY <1>1, <3>1, <3>2
    <3> QED
      BY <3>3, <3>4 DEF Max
  <2>9. \/ spoken \cap {"text.delta", "text.done", "part.added", "part.done"} = {}
        \/ spoken \cap {"arguments.delta", "arguments.done"} = {}
    BY <2>3 DEF TypesOf
  <2> QED
    BY <2>5, <2>6, <2>7, <2>8, <2>9 DEF same, i
<1>6. ASSUME NEW k \in Of({"completed"})
      PROVE  /\ k = Len(out)
             /\ {out[j].index : j \in Of({"item.added"})} = {out[j].index : j \in Of({"item.done"})}
  <2>1. k = L /\ last = "closed"
    BY <1>2, <1>3
  <2>2. ASSUME NEW j \in Of({"item.added"})
        PROVE  \E m \in Of({"item.done"}) : out[j].index = out[m].index
    <3>1. j \in 1..L /\ out[j].type = "item.added"
      BY <1>3
    <3>2. "index" \in DOMAIN out[j]
      BY <1>4, <3>1 DEF ItemTypes, TypesOf
    <3>3. PICK m \in 1..L : IsDone(out[m], out[j].index)
      BY <1>2, <2>1, <3>1, <3>2
    <3> QED
      BY <1>3, <3>3 DEF IsDone, OfItem
  <2>3. ASSUME NEW j \in Of({"item.done"})
        PROVE  \E m \in Of({"item.added"}) : out[j].index = out[m].index
    <3>1. j \in 1..L /\ out[j].type = "item.done"
      BY <1>3
    <3>2. "index" \in DOMAIN out[j]
      BY <1>4, <3>1 DEF ItemTypes, TypesOf
    <3>3. PICK m \in 1..L : Starts(out, out[j].index, m)
      BY <1>2, <3>1, <3>2
    <3> QED
      BY <1>3, <3>3 DEF Starts, OfItem
  <2>4. {out[j].index : j \in Of({"item.added"})} = {out[j].index : j \in Of({"item.done"})}
    BY <2>2, <2>3
  <2> QED
    BY <2>1, <2>4 DEF L
<1> QED
    BY <1>5, <1>6 DEF ItemsAreClosed

--------------------------------------------------------------------------------
(***************************************************************************)
(* The script                                                              *)
(***************************************************************************)
ScriptInv ==
    /\ Listed(script)
    /\ \A n \in 1..Len(script) : InProtocol(n)
    /\ TypeBefore(Len(script) + 1) \in {"nothing", "message_start"} => Cardinality(Started) = 0
    /\ TypeBefore(Len(script) + 1) \in {"content_block_start", "content_block_delta", "content_block_stop"} =>
          script[Len(script)].index = Index
    /\ TypeBefore(Len(script) + 1) = "content_block_start" => script[Len(script)].kind = open

LEMMA EventsStarted == ScriptInv => IsFiniteSet(Started) /\ Cardinality(Started) \in Nat
<1> SUFFICES ASSUME ScriptInv PROVE IsFiniteSet(Started) /\ Cardinality(Started) \in Nat
    OBVIOUS
<1>1. Len(script) \in Nat /\ Started \subseteq 1..Len(script)
    BY DEF ScriptInv, Listed, Started
<1>2. IsFiniteSet(1..Len(script))
    BY <1>1, FS_Interval
<1>3. IsFiniteSet(Started)
    BY <1>1, <1>2, FS_Subset
<1> QED
    BY <1>3, FS_CardinalityType

LEMMA ScriptGrows ==
    ASSUME ScriptInv, NEW event, NEW kind, Write(event, kind)
    PROVE  /\ Listed(script') /\ Len(script') = Len(script) + 1 /\ Len(script) \in Nat
           /\ \A n \in 1..Len(script) : script'[n] = script[n]
           /\ script'[Len(script) + 1] = event
           /\ \A n \in 1..(Len(script) + 1) : TypeBefore(n)' = TypeBefore(n)
           /\ TypeBefore(Len(script) + 1) = LastType
           /\ TypeBefore(Len(script) + 1)' = event.type
           /\ Cardinality(Started') =
                 Cardinality(Started) + IF event.type = "content_block_start" THEN 1 ELSE 0
<1> DEFINE N == Len(script)
<1>1. script' = Append(script, event) /\ Listed(script)
    BY DEF Write, ScriptInv
<1>2. N \in Nat /\ DOMAIN script = 1..N
    BY <1>1 DEF Listed
<1>3. Len(script') = N + 1 /\ script'[N + 1] = event /\ \A n \in 1..N : script'[n] = script[n]
  <2> DEFINE E == {script[i] : i \in DOMAIN script} \cup {event}
  <2>1. script \in Seq(E) /\ event \in E
    <3>1. script \in [1..N -> E]
      BY <1>1 DEF Listed
    <3> QED
      BY <1>2, <3>1
  <2> HIDE DEF E
  <2> QED
    BY <1>1, <2>1
<1>4. Listed(script') /\ DOMAIN script' = 1..(N + 1)
  <2>1. Listed(script')
    BY <1>1, AppendedList
  <2> QED
    BY <1>3, <2>1 DEF Listed
<1> HIDE DEF N
<1>5. ASSUME NEW n \in 1..(N + 1)
      PROVE  TypeBefore(n)' = TypeBefore(n)
  <2>1. CASE n = 1
    BY <2>1 DEF TypeBefore
  <2>2. CASE n # 1
    <3>1. n - 1 \in 1..N
      BY <1>2, <2>2
    <3> QED
      BY <1>3, <2>2, <3>1 DEF TypeBefore
  <2> QED
    BY <2>1, <2>2
<1>6. TypeBefore(N + 1) = LastType
  <2>1. CASE script = <<>>
    <3>1. N = 0
      BY <2>1 DEF N
    <3> QED
      BY <2>1, <3>1 DEF TypeBefore, LastType
  <2>2. CASE script # <<>>
    <3>1. N # 0
      <4>1. N = 0 => script = <<>>
        BY <1>1 DEF N, Listed
      <4> QED
        BY <2>2, <4>1
    <3>2. N + 1 # 1 /\ N + 1 - 1 = N
      BY <1>2, <3>1
    <3> QED
      BY <2>2, <3>2 DEF TypeBefore, LastType, Last, N
  <2> QED
    BY <2>1, <2>2
<1>7. TypeBefore(Len(script) + 1)' = event.type
  <2>1. N + 1 + 1 # 1 /\ N + 1 + 1 - 1 = N + 1
    BY <1>2
  <2> QED
    BY <1>3, <2>1 DEF TypeBefore
<1>8. Started' = IF event.type = "content_block_start" THEN Started \cup {N + 1} ELSE Started
  <2>1. \A i : i \in 1..(N + 1) <=> i \in 1..N \/ i = N + 1
    BY <1>2
  <2>2. Started' = {i \in 1..(N + 1) : script'[i].type = "content_block_start"}
    BY <1>4 DEF Started
  <2>3. Started = {i \in 1..N : script[i].type = "content_block_start"}
    BY <1>2 DEF Started
  <2> QED
    BY <1>3, <2>1, <2>2, <2>3
<1>9. Cardinality(Started') = Cardinality(Started) + IF event.type = "content_block_start" THEN 1 ELSE 0
  <2>1. IsFiniteSet(Started) /\ Cardinality(Started) \in Nat
    BY EventsStarted
  <2>2. N + 1 \notin Started
    BY <1>2 DEF Started
  <2>3. Cardinality(Started \cup {N + 1}) = Cardinality(Started) + 1
    BY <2>1, <2>2, FS_AddElement
  <2> QED
    BY <1>8, <2>1, <2>3
<1> QED
    BY <1>2, <1>3, <1>4, <1>5, <1>6, <1>7, <1>9 DEF N

ClaudeEvents == {"message_start", "content_block_start", "content_block_delta", "content_block_stop",
                 "message_delta", "message_stop", "error"}

LEMMA ProtocolKept ==
    ASSUME ScriptInv, ProviderWrites
    PROVE  ScriptInv'
<1> DEFINE N == Len(script)
           c == Cardinality(Started)
           p == LastType
<1>1. c \in Nat /\ Index = c - 1
    BY EventsStarted DEF Index
<1>2. PICK event, kind :
         /\ Write(event, kind)
         /\ p \notin {"message_stop", "error"}
         /\ \/ event.type = "message_start" /\ script = <<>>
            \/ /\ event.type = "content_block_start" /\ p \in {"message_start", "content_block_stop"}
               /\ event.index = Index + 1 /\ event.kind \in Kinds /\ kind = event.kind
            \/ /\ event.type = "content_block_delta" /\ p = "content_block_start"
               /\ event.index = Index /\ event.kind = open
            \/ /\ event.type = "content_block_stop" /\ p \in {"content_block_start", "content_block_delta"}
               /\ event.index = Index
            \/ event.type = "message_delta" /\ p = "content_block_stop"
            \/ event.type = "message_stop" /\ p = "message_delta"
            \/ event.type = "error" /\ script # <<>>
  <2>1. p \notin {"message_stop", "error"}
    BY DEF ProviderWrites
  <2>2. CASE script = <<>> /\ Write([type |-> "message_start"], "none")
    BY <2>1, <2>2
  <2>3. CASE /\ p \in {"message_start", "content_block_stop"}
             /\ \E k \in Kinds : Write([type |-> "content_block_start", index |-> Index + 1, kind |-> k], k)
    BY <2>1, <2>3
  <2>4. CASE /\ p = "content_block_start"
             /\ Write([type |-> "content_block_delta", index |-> Index, kind |-> open], open)
    BY <2>1, <2>4
  <2>5. CASE /\ p \in {"content_block_start", "content_block_delta"}
             /\ Write([type |-> "content_block_stop", index |-> Index], "none")
    BY <2>1, <2>5
  <2>6. CASE p = "content_block_stop" /\ Write([type |-> "message_delta"], "none")
    BY <2>1, <2>6
  <2>7. CASE p = "message_delta" /\ Write([type |-> "message_stop"], "none")
    BY <2>1, <2>7
  <2>8. CASE script # <<>> /\ Write([type |-> "error"], "none")
    BY <2>1, <2>8
  <2> HIDE DEF p
  <2> QED
    BY <2>2, <2>3, <2>4, <2>5, <2>6, <2>7, <2>8 DEF ProviderWrites, p
<1>3. /\ Listed(script') /\ Len(script') = N + 1 /\ N \in Nat
      /\ \A n \in 1..N : script'[n] = script[n]
      /\ script'[N + 1] = event
      /\ \A n \in 1..(N + 1) : TypeBefore(n)' = TypeBefore(n)
      /\ TypeBefore(N + 1) = p
      /\ TypeBefore(N + 1)' = event.type
      /\ Cardinality(Started') = c + IF event.type = "content_block_start" THEN 1 ELSE 0
  <2>1. Write(event, kind)
    BY <1>2
  <2> QED
    BY <2>1, ScriptGrows
<1>4. open' = kind
    BY <1>2 DEF Write
<1>5. /\ \A n \in 1..N : InProtocol(n)
      /\ p \in {"nothing", "message_start"} => c = 0
      /\ p \in {"content_block_start", "content_block_delta", "content_block_stop"} => script[N].index = Index
      /\ p = "content_block_start" => script[N].kind = open
    BY <1>3 DEF ScriptInv
<1>6. p = "nothing" <=> script = <<>>
  <2>1. CASE script = <<>>
    BY <2>1 DEF LastType
  <2>2. CASE script # <<>>
    <3>1. N # 0
      <4>1. N = 0 => script = <<>>
        BY DEF ScriptInv, Listed
      <4> QED
        BY <2>2, <4>1
    <3>2. N \in 1..N
      BY <1>3, <3>1
    <3>3. script[N].type \in ClaudeEvents
      BY <1>5, <3>2 DEF InProtocol, ClaudeEvents
    <3>4. p = script[N].type
      BY <2>2 DEF LastType, Last
    <3> QED
      BY <2>2, <3>3, <3>4 DEF ClaudeEvents
  <2> QED
    BY <2>1, <2>2
<1>7. Index' = Index + IF event.type = "content_block_start" THEN 1 ELSE 0
    BY <1>1, <1>3 DEF Index
<1> HIDE DEF N, p, c
<1>8. ASSUME NEW n \in 1..N
      PROVE  InProtocol(n)'
  <2>1. n \in 1..(N + 1) /\ script'[n] = script[n] /\ TypeBefore(n)' = TypeBefore(n) /\ InProtocol(n)
    BY <1>3, <1>5
  <2>2. CASE n = 1
    <3>1. TypeBefore(n) = "nothing"
      BY <2>2 DEF TypeBefore
    <3> QED
      BY <2>1, <3>1 DEF InProtocol
  <2>3. CASE n # 1
    <3>1. n - 1 \in 1..N
      BY <1>3, <2>3
    <3>2. script'[n - 1] = script[n - 1]
      BY <1>3, <3>1
    <3> QED
      BY <2>1, <3>2 DEF InProtocol
  <2> QED
    BY <2>2, <2>3
<1>9. PICK m \in Nat : m = N
    BY <1>3
<1>10. InProtocol(m + 1)'
  <2>1. m + 1 \in 1..(m + 1) /\ m + 1 - 1 = m
    OBVIOUS
  <2>2. TypeBefore(m + 1)' = p /\ script'[m + 1] = event
    BY <1>3, <1>9, <2>1
  <2>3. p # "nothing" => script'[m] = script[m]
    <3>1. m = 0 => p = "nothing"
      BY <1>6, <1>9 DEF N, ScriptInv, Listed
    <3> QED
      BY <1>3, <1>9, <3>1
  <2>4. /\ event.type \in ClaudeEvents
        /\ p \notin {"message_stop", "error"}
        /\ event.type = "message_start" <=> p = "nothing"
    BY <1>2, <1>6 DEF ClaudeEvents
  <2>5. event.type = "content_block_start" =>
           /\ p \in {"message_start", "content_block_stop"} /\ event.kind \in Kinds
           /\ event.index = IF p = "message_start" THEN 0 ELSE script'[m].index + 1
    BY <1>1, <1>2, <1>5, <1>9, <2>3
  <2>6. event.type = "content_block_delta" =>
           p = "content_block_start" /\ event.index = script'[m].index /\ event.kind = script'[m].kind
    BY <1>2, <1>5, <1>9, <2>3
  <2>7. event.type = "content_block_stop" =>
           p \in {"content_block_start", "content_block_delta"} /\ event.index = script'[m].index
    BY <1>2, <1>5, <1>9, <2>3
  <2>8. /\ event.type = "message_delta" => p = "content_block_stop"
        /\ event.type = "message_stop" => p = "message_delta"
    BY <1>2
  <2> QED
    BY <2>1, <2>2, <2>4, <2>5, <2>6, <2>7, <2>8 DEF InProtocol, ClaudeEvents
<1>11. TypeBefore(Len(script) + 1)' = event.type /\ script'[Len(script')] = event
    BY <1>3 DEF N
<1>12. event.type \in {"nothing", "message_start"} => Cardinality(Started') = 0
    BY <1>1, <1>2, <1>3, <1>5, <1>6
<1>13. event.type \in {"content_block_start", "content_block_delta", "content_block_stop"} => event.index = Index'
    BY <1>1, <1>2, <1>7
<1>14. event.type = "content_block_start" => event.kind = open'
    BY <1>2, <1>4
<1>15. \A n \in 1..Len(script') : InProtocol(n)'
  <2>1. \A n \in 1..Len(script') : n \in 1..N \/ n = m + 1
    BY <1>3, <1>9
  <2> QED
    BY <1>8, <1>10, <2>1
<1> QED
    BY <1>3, <1>11, <1>12, <1>13, <1>14, <1>15 DEF ScriptInv

LEMMA ScriptStep == ScriptInv /\ [ExchangeNext]_<<vars, streamVars>> => ScriptInv'
<1> SUFFICES ASSUME ScriptInv, [ExchangeNext]_<<vars, streamVars>>
             PROVE  ScriptInv'
    OBVIOUS
<1>1. CASE script' = script /\ open' = open
    BY <1>1 DEF ScriptInv, TypeBefore, InProtocol, Started, Index
<1>2. CASE UNCHANGED streamVars
    BY <1>1, <1>2 DEF streamVars
<1>3. CASE StreamBegins
    BY <1>1, <1>3 DEF StreamBegins, Receive
<1>4. CASE StreamNext
  <2>1. CASE ProviderWrites
    BY <2>1, ProtocolKept
  <2>2. CASE ~ProviderWrites
    BY <1>1, <1>4, <2>2
    DEF StreamNext, ProviderEnds, Chunk, TranslationEnds, Intercept, InterceptFails, ExecuteTool, Continue
  <2> QED
    BY <2>1, <2>2
<1> QED
    BY <1>2, <1>3, <1>4 DEF ExchangeNext

--------------------------------------------------------------------------------
(***************************************************************************)
(* The translation                                                         *)
(***************************************************************************)
TranslationInv ==
    /\ handling = "none" => out = <<>> /\ blocks = <<>>
    /\ handling = "translate" => MadeOf(out, blocks, Len(heard))

LEMMA NothingMade == MadeOf(<<>>, <<>>, 0)
<1>1. Formed(<<>>, <<>>, "closed")
    BY DEF Formed
<1>2. TypeBefore(0 + 1) = "nothing" /\ NotOver(<<>>)
    BY DEF TypeBefore, NotOver
<1>3. Made(<<>>, <<>>, 0, "closed")
    BY <1>1, <1>2 DEF Made
<1> QED
    BY <1>3 DEF MadeOf

\* What is parsed has been written.
LEMMA HeardIsWritten ==
    ASSUME ParserInv, handling = "translate"
    PROVE  Len(heard) \in Nat /\ Len(script) \in Nat /\ Len(heard) <= Len(script)
<1>1. PICK at : Pending(buf, wire, Len(heard) + 1, Len(script), at)
    BY DEF ParserInv
<1>2. Len(heard) + 1 <= Len(script) + 1
    BY <1>1 DEF Pending, Layout, Places
<1>3. Len(heard) \in Nat /\ Len(script) \in Nat
    BY DEF ParserInv, Listed
<1> QED
    BY <1>2, <1>3

LEMMA WritingMakesNothing ==
    ASSUME ParserInv, ScriptInv, TranslationInv, handling = "translate",
           NEW event, NEW kind, Write(event, kind)
    PROVE  TranslationInv'
<1>1. PICK h \in Nat : h = Len(heard)
    BY HeardIsWritten
<1>2. h <= Len(script) /\ Len(script) \in Nat
    BY <1>1, HeardIsWritten
<1>3. handling' = handling /\ out' = out /\ blocks' = blocks /\ heard' = heard
    BY DEF Write
<1>4. PICK last : Made(out, blocks, h, last)
    BY <1>1 DEF TranslationInv, MadeOf
<1>5. /\ \A n \in 1..Len(script) : script'[n] = script[n]
      /\ \A n \in 1..(Len(script) + 1) : TypeBefore(n)' = TypeBefore(n)
    BY ScriptGrows
<1>6. TypeBefore(h + 1)' = TypeBefore(h + 1)
  <2>1. h + 1 \in 1..(Len(script) + 1)
    BY <1>2
  <2> QED
    BY <1>5, <2>1
<1>7. TypeBefore(h + 1) # "nothing" => script'[h] = script[h]
  <2>1. CASE h = 0
    BY <2>1 DEF TypeBefore
  <2>2. CASE h # 0
    <3>1. h \in 1..Len(script)
      BY <1>2, <2>2
    <3> QED
      BY <1>5, <3>1
  <2> QED
    BY <2>1, <2>2
<1>8. Made(out, blocks, h, last)'
    BY <1>3, <1>4, <1>6, <1>7 DEF Made
<1>9. MadeOf(out, blocks, Len(heard))'
    BY <1>1, <1>3, <1>8 DEF MadeOf
<1> QED
    BY <1>3, <1>9 DEF TranslationInv

LEMMA Continued ==
    ASSUME NEW s, NEW t, Listed(s), Listed(t)
    PROVE  /\ Len(s \o t) = Len(s) + Len(t)
           /\ \A k \in 1..Len(t) : (s \o t)[Len(s) + k] = t[k]
<1> DEFINE S == {s[i] : i \in DOMAIN s} \cup {t[i] : i \in DOMAIN t}
<1>1. s \in Seq(S) /\ t \in Seq(S)
  <2>1. s \in [1..Len(s) -> S] /\ t \in [1..Len(t) -> S] /\ Len(s) \in Nat /\ Len(t) \in Nat
    BY DEF Listed
  <2> QED
    BY <2>1
<1> HIDE DEF S
<1> QED
    BY <1>1

\* However many events a chunk completes, each is translated in its turn.
LEMMA EventsTurn ==
    ASSUME ScriptInv, MadeOf(out, blocks, Len(heard)), NEW events, Listed(heard), Listed(events),
           Len(heard) + Len(events) <= Len(script),
           \A k \in 1..Len(events) : events[k].number = Len(heard) + k
    PROVE  MadeOf(Translated(events).out, Translated(events).kinds, Len(heard) + Len(events))
<1> DEFINE h == Len(heard)
           n == Len(events)
<1>1. h \in Nat /\ n \in Nat /\ Len(script) \in Nat
    BY DEF Listed, ScriptInv
<1>2. PICK after :
         /\ after[0] = Begun
         /\ \A k \in 1..n : after[k] = Turned(events[k], after[k - 1])
         /\ Translated(events) = after[n]
  <2>1. events \in Seq({events[i] : i \in DOMAIN events})
    BY DEF Listed
  <2> QED
    BY <2>1, TranslatedSteps
<1> DEFINE T == {k \in 0..n : MadeOf(after[k].out, after[k].kinds, h + k)}
<1>3. 0 \in T
  <2>1. after[0].out = out /\ after[0].kinds = blocks /\ h + 0 = h /\ 0 \in 0..n
    BY <1>1, <1>2 DEF Begun
  <2> QED
    BY <2>1
<1>4. ASSUME NEW k \in 0..n, k \in T, k < n
      PROVE  k + 1 \in T
  <2>1. k + 1 \in 1..n /\ k + 1 - 1 = k /\ k + 1 \in 0..n /\ h + k \in Nat /\ h + (k + 1) = h + k + 1
    BY <1>1, <1>4
  <2>2. events[k + 1].number = h + k + 1
    BY <2>1
  <2>3. after[k + 1] = Turned(events[k + 1], after[k])
    BY <1>2, <2>1
  <2>4. InProtocol(h + k + 1)
    <3>1. h + k + 1 \in 1..Len(script)
      BY <1>1, <1>4
    <3> QED
      BY <3>1 DEF ScriptInv
  <2>5. MadeOf(after[k].out, after[k].kinds, h + k)
    BY <1>4
  <2> HIDE DEF h, n
  <2> DEFINE more == KindsAfter(script[h + k + 1], after[k].kinds)
  <2>6. MadeOf(after[k].out \o ResponsesEvents(script[h + k + 1], more), more, h + k + 1)
    BY <2>1, <2>4, <2>5, EventTurns
  <2>7. /\ after[k + 1].out = after[k].out \o ResponsesEvents(script[h + k + 1], more)
        /\ after[k + 1].kinds = more
    <3> DEFINE number == events[k + 1].number
               acc == after[k]
    <3>1. after[k + 1] = Turned(events[k + 1], acc)
      BY <2>3
    <3>2. number = h + k + 1
      BY <2>2
    <3> HIDE DEF acc
    <3>3. /\ after[k + 1].out = acc.out \o ResponsesEvents(script[number], KindsAfter(script[number], acc.kinds))
          /\ after[k + 1].kinds = KindsAfter(script[number], acc.kinds)
      <4> DEFINE longer == acc.out \o ResponsesEvents(script[number], KindsAfter(script[number], acc.kinds))
      <4>1. after[k + 1] = [kinds |-> KindsAfter(script[number], acc.kinds), out |-> longer]
        BY <3>1 DEF Turned
      <4> HIDE DEF longer
      <4>2. after[k + 1].out = longer /\ after[k + 1].kinds = KindsAfter(script[number], acc.kinds)
        BY <4>1
      <4> QED
        BY <4>2 DEF longer
    <3> HIDE DEF number
    <3> QED
      BY <3>2, <3>3 DEF acc
  <2> HIDE DEF more
  <2> QED
    BY <2>1, <2>6, <2>7
<1>5. \A k \in 0..n : k \in T /\ k < n => k + 1 \in T
    BY <1>4
<1> HIDE DEF h, n, T
<1>6. n \in T
  <2>1. \A k \in 0..n : k \in T
    BY <1>1, <1>3, <1>5, InductionUpTo
  <2> QED
    BY <1>1, <2>1
<1> QED
    BY <1>2, <1>6 DEF T, h, n

LEMMA ChunkIsTurned ==
    ASSUME ParserInv, ParserInv', ScriptInv, TranslationInv, handling = "translate", Chunk
    PROVE  TranslationInv'
<1>1. PICK m \in 1..MaxChunk :
         /\ m <= Len(wire)
         /\ heard' = heard \o Parsed(buf \o FromUtf8Lossy(SubSeq(wire, 1, m)))
         /\ out' = Translated(Parsed(buf \o FromUtf8Lossy(SubSeq(wire, 1, m)))).out
         /\ blocks' = Translated(Parsed(buf \o FromUtf8Lossy(SubSeq(wire, 1, m)))).kinds
    BY DEF Chunk
<1> DEFINE text == Fed(buf, wire, m)
           events == Parsed(text)
<1>2. heard' = heard \o events /\ out' = Translated(events).out /\ blocks' = Translated(events).kinds
    BY <1>1 DEF Fed, Joint
<1>3. handling' = handling /\ script' = script
    BY DEF Chunk
<1>4. wire \in Seq(Byte) /\ buf \in Seq(Byte) /\ Listed(heard) /\ Listed(heard')
    BY <1>3, SequenceIsList DEF ParserInv
<1>5. m \in 1..Len(wire)
    BY <1>1, <1>4, StreamsAssumption
<1> HIDE DEF text
<1>6. text \in Seq(Byte)
  <2>1. PICK at : Pending(buf, wire, Len(heard) + 1, Len(script), at)
    BY DEF ParserInv
  <2>2. Layout(Joint(buf, wire), Len(buf), Len(heard) + 1, Len(script), at)
    BY <2>1 DEF Pending
  <2> QED
    BY <1>4, <1>5, <2>2, Decoded DEF text
<1>7. Listed(events)
  <2>1. Len(text) \in Nat /\ Ends(text) \subseteq 1..Len(text)
    BY <1>6 DEF Ends
  <2>2. IsFiniteSet(Ends(text))
    <3>1. IsFiniteSet(1..Len(text))
      BY <2>1, FS_Interval
    <3> QED
      BY <2>1, <3>1, FS_Subset
  <2>3. Cardinality(Ends(text)) \in Nat
    BY <2>2, FS_CardinalityType
  <2>4. events = [k \in 1..Cardinality(Ends(text)) |-> events[k]]
    BY DEF Parsed
  <2> HIDE DEF events
  <2> QED
    BY <2>3, <2>4, MadeList
<1> HIDE DEF events
<1>8. /\ Len(heard') = Len(heard) + Len(events)
      /\ \A k \in 1..Len(events) : heard'[Len(heard) + k] = events[k]
    BY <1>2, <1>4, <1>7, Continued
<1>9. \A k \in 1..Len(events) : events[k].number = Len(heard) + k
  <2>1. Len(heard) \in Nat /\ Len(events) \in Nat
    BY <1>4, <1>7 DEF Listed
  <2>2. \A k \in 1..Len(heard') : heard'[k].number = k
    BY <1>3 DEF ParserInv
  <2> QED
    BY <1>8, <2>1, <2>2
<1>10. Len(heard) + Len(events) <= Len(script)
  <2>1. PICK at : Pending(buf', wire', Len(heard') + 1, Len(script'), at)
    BY <1>3 DEF ParserInv
  <2>2. Len(heard') + 1 <= Len(script') + 1
    BY <2>1 DEF Pending, Layout, Places
  <2>3. Len(heard') \in Nat /\ Len(script') \in Nat
    BY <1>3, <1>4 DEF ScriptInv, Listed
  <2> QED
    BY <1>3, <1>8, <2>2, <2>3
<1>11. MadeOf(Translated(events).out, Translated(events).kinds, Len(heard) + Len(events))
    BY <1>4, <1>7, <1>9, <1>10, EventsTurn DEF TranslationInv
<1>12. MadeOf(out', blocks', Len(heard'))
    BY <1>2, <1>8, <1>11
<1>13. MadeOf(out, blocks, Len(heard))'
    BY <1>3, <1>12 DEF MadeOf, Made, TypeBefore
<1> QED
    BY <1>3, <1>13 DEF TranslationInv

LEMMA TranslationStep ==
    ParserInv /\ ScriptInv /\ TranslationInv /\ ParserInv' /\ [ExchangeNext]_<<vars, streamVars>> => TranslationInv'
<1> SUFFICES ASSUME ParserInv, ParserInv', ScriptInv, TranslationInv, [ExchangeNext]_<<vars, streamVars>>
             PROVE  TranslationInv'
    OBVIOUS
<1>1. CASE UNCHANGED streamVars
    BY <1>1 DEF TranslationInv, MadeOf, Made, TypeBefore, streamVars
<1>2. CASE StreamBegins
  <2>1. handling = "none" /\ handling' # "none" /\ UNCHANGED <<heard, out, blocks>>
    BY <1>2 DEF StreamBegins, Receive, Handling
  <2>2. out' = <<>> /\ blocks' = <<>> /\ Len(heard') = 0
    BY <2>1 DEF TranslationInv, ParserInv
  <2>3. MadeOf(<<>>, <<>>, 0)'
    BY NothingMade, PTL
  <2> QED
    BY <2>1, <2>2, <2>3 DEF TranslationInv
<1>3. CASE StreamNext
  <2>1. CASE handling = "none"
    <3>1. wire = <<>>
      BY <2>1 DEF ParserInv
    <3> QED
      BY <1>3, <2>1, <3>1
      DEF StreamNext, ProviderWrites, ProviderEnds, Chunk, TranslationEnds, Intercept, InterceptFails,
          ExecuteTool, Continue, TranslationInv
  <2>2. CASE handling = "translate"
    <3>1. CASE ProviderWrites
      <4>1. PICK event, kind : Write(event, kind)
        BY <3>1 DEF ProviderWrites
      <4> QED
        BY <2>2, <4>1, WritingMakesNothing
    <3>2. CASE Chunk
      BY <2>2, <3>2, ChunkIsTurned
    <3>3. CASE ProviderEnds \/ TranslationEnds
      BY <3>3 DEF ProviderEnds, TranslationEnds, TranslationInv, MadeOf, Made, TypeBefore
    <3> QED
      BY <1>3, <2>2, <3>1, <3>2, <3>3
      DEF StreamNext, Intercept, InterceptFails, ExecuteTool, Continue
  <2>3. CASE handling \notin {"none", "translate"}
    <3>1. handling' = handling
      BY <1>3, <2>3
      DEF StreamNext, ProviderWrites, Write, ProviderEnds, Chunk, TranslationEnds, Intercept,
          InterceptFails, ExecuteTool, Continue
    <3> QED
      BY <2>3, <3>1 DEF TranslationInv
  <2> QED
    BY <2>1, <2>2, <2>3
<1> QED
    BY <1>1, <1>2, <1>3 DEF ExchangeNext

\* For a Responses client every item is announced before anything else is said of it, gets
\* events of one kind only, and is done once, before the response is completed, after which
\* nothing comes (responses_sse_from_anthropic_event).
THEOREM ItemsAreDone == ExchangeSpec => []ItemsAreClosed
<1> DEFINE I == ParserInv /\ ScriptInv /\ TranslationInv
<1>1. ExchangeInit => I
  <2> SUFFICES ASSUME ExchangeInit PROVE I
    OBVIOUS
  <2>1. /\ handling = "none" /\ script = <<>> /\ wire = <<>> /\ buf = <<>> /\ heard = <<>>
        /\ out = <<>> /\ blocks = <<>>
    BY DEF ExchangeInit, StreamInit
  <2>2. Listed(script) /\ Len(script) = 0
    <3>1. <<>> \in Seq(Nat)
      OBVIOUS
    <3> QED
      BY <2>1, <3>1, SequenceIsList
  <2>3. Started = {} /\ TypeBefore(Len(script) + 1) = "nothing"
    BY <2>1, <2>2 DEF Started, TypeBefore, Listed
  <2>4. Cardinality(Started) = 0
    BY <2>3, FS_EmptySet
  <2>5. ScriptInv
    BY <2>2, <2>3, <2>4 DEF ScriptInv
  <2> QED
    BY <2>1, <2>5 DEF ParserInv, TranslationInv
<1>2. I /\ [ExchangeNext]_<<vars, streamVars>> => I'
    BY ParserStep, ScriptStep, TranslationStep
<1>3. I => ItemsAreClosed
  <2> SUFFICES ASSUME ParserInv, TranslationInv, handling = "translate" PROVE ItemsAreClosed
    BY DEF ItemsAreClosed
  <2>1. PICK last : Formed(out, blocks, last)
    BY DEF TranslationInv, MadeOf, Made
  <2> QED
    BY <2>1, FormedIsClosed
<1> QED
    BY <1>1, <1>2, <1>3, PTL DEF ExchangeSpec

--------------------------------------------------------------------------------
(***************************************************************************)
(* The interception of a list of events, step by step, like that of the    *)
(* translation above.                                                      *)
(***************************************************************************)
Fetched(h, r) == RewriterFeed(r, script[h.number])

FetchedUpTo(g, events, n) ==
    g = [s \in SUBSET (1..n) |-> IF s = {} THEN Passthrough ELSE Fetched(events[Max(s)], g[s \ {Max(s)}])]

LEMMA RewrittenDef ==
    ASSUME NEW S, NEW events \in Seq(S)
    PROVE  Rewritten(events) = (CHOOSE g : FetchedUpTo(g, events, Len(events)))[1..Len(events)]
<1>1. DOMAIN events = 1..Len(events)
    OBVIOUS
<1> QED
    BY <1>1 DEF Rewritten, FoldLeft, MapThenFoldSet, FetchedUpTo, Fetched

LEMMA FetchedExists ==
    ASSUME NEW events, NEW N \in Nat
    PROVE  \E g : FetchedUpTo(g, events, N)
<1> DEFINE T == {n \in 0..N : \E g : FetchedUpTo(g, events, n)}
<1>1. 0 \in T
  <2>1. FetchedUpTo([s \in SUBSET (1..0) |-> Passthrough], events, 0)
    <3>1. \A s \in SUBSET (1..0) : s = {}
      OBVIOUS
    <3> QED
      BY <3>1 DEF FetchedUpTo
  <2> QED
    BY <2>1
<1>2. ASSUME NEW n \in 0..N, n \in T, n < N
      PROVE  n + 1 \in T
  <2>1. PICK g : FetchedUpTo(g, events, n)
    BY <1>2
  <2> DEFINE h == [s \in SUBSET (1..(n + 1)) |->
                      IF n + 1 \in s THEN Fetched(events[n + 1], g[s \ {n + 1}]) ELSE g[s]]
  <2>2. ASSUME NEW s \in SUBSET (1..(n + 1))
        PROVE  h[s] = IF s = {} THEN Passthrough ELSE Fetched(events[Max(s)], h[s \ {Max(s)}])
    <3>1. CASE n + 1 \in s
      <4>1. Max(s) = n + 1
        BY <3>1, LastOfSome
      <4>2. s \ {n + 1} \in SUBSET (1..(n + 1)) /\ n + 1 \notin s \ {n + 1} /\ s # {}
        BY <3>1
      <4>3. h[s \ {n + 1}] = g[s \ {n + 1}]
        BY <4>2
      <4> QED
        BY <3>1, <4>1, <4>2, <4>3
    <3>2. CASE n + 1 \notin s
      <4>1. s \in SUBSET (1..n)
        BY <3>2
      <4>2. h[s] = g[s]
        BY <3>2
      <4>3. g[s] = IF s = {} THEN Passthrough ELSE Fetched(events[Max(s)], g[s \ {Max(s)}])
        BY <4>1, <2>1 DEF FetchedUpTo
      <4>4. h[s \ {Max(s)}] = g[s \ {Max(s)}]
        <5>1. s \ {Max(s)} \in SUBSET (1..(n + 1)) /\ n + 1 \notin s \ {Max(s)}
          BY <3>2
        <5> QED
          BY <5>1
      <4> QED
        BY <4>2, <4>3, <4>4
    <3> QED
      BY <3>1, <3>2
  <2>3. FetchedUpTo(h, events, n + 1)
    <3>1. DOMAIN h = SUBSET (1..(n + 1))
      OBVIOUS
    <3> HIDE DEF h
    <3>2. \A s \in SUBSET (1..(n + 1)) :
             h[s] = IF s = {} THEN Passthrough ELSE Fetched(events[Max(s)], h[s \ {Max(s)}])
      BY <2>2
    <3>3. h = [s \in SUBSET (1..(n + 1)) |-> h[s]]
      BY <3>1 DEF h
    <3> QED
      BY <3>2, <3>3 DEF FetchedUpTo
  <2> HIDE DEF h
  <2>4. n + 1 \in 0..N
    BY <1>2
  <2> QED
    BY <2>3, <2>4
<1>3. \A n \in 0..N : n \in T /\ n < N => n + 1 \in T
    BY <1>2
<1> HIDE DEF T
<1>4. N \in T
    BY <1>1, <1>3, InductionUpTo
<1> QED
    BY <1>4 DEF T

LEMMA RewrittenSteps ==
    ASSUME NEW S, NEW events \in Seq(S)
    PROVE  \E after :
              /\ after[0] = Passthrough
              /\ \A k \in 1..Len(events) : after[k] = Fetched(events[k], after[k - 1])
              /\ Rewritten(events) = after[Len(events)]
<1> DEFINE N == Len(events)
           g == CHOOSE f : FetchedUpTo(f, events, N)
<1>1. N \in Nat
    OBVIOUS
<1>2. FetchedUpTo(g, events, N)
    BY <1>1, FetchedExists
<1>3. Rewritten(events) = g[1..N]
    BY RewrittenDef
<1> HIDE DEF g, N
<1> DEFINE after == [k \in 0..N |-> g[1..k]]
<1>4. g[{}] = Passthrough
    BY <1>2 DEF FetchedUpTo
<1>5. ASSUME NEW k \in 1..N
      PROVE  g[1..k] = Fetched(events[k], g[1..(k - 1)])
  <2>1. k \in Nat /\ k - 1 \in Nat /\ k - 1 + 1 = k /\ 1..k \in SUBSET (1..N) /\ k \in 1..k
    BY <1>1
  <2>2. Max(1..k) = k
    BY <2>1, LastOfSome
  <2>3. (1..k) \ {k} = 1..(k - 1)
    BY <2>1
  <2> QED
    BY <1>2, <2>1, <2>2, <2>3 DEF FetchedUpTo
<1>6. after[0] = Passthrough
  <2>1. 1..0 = {}
    OBVIOUS
  <2> QED
    BY <1>1, <1>4, <2>1
<1>7. \A k \in 1..N : after[k] = Fetched(events[k], after[k - 1])
    BY <1>1, <1>5
<1>8. Rewritten(events) = after[N]
    BY <1>1, <1>3
<1> HIDE DEF after
<1> QED
    BY <1>6, <1>7, <1>8 DEF N

--------------------------------------------------------------------------------
(***************************************************************************)
(* The blocks of the script: an index is given to one block only.          *)
(***************************************************************************)
Opens(n)   == script[n].type = "content_block_start"
Closes(n)  == script[n].type = "content_block_stop"
OfBlock(n) == script[n].type \in {"content_block_start", "content_block_delta", "content_block_stop"}

LEMMA IndicesGrow ==
    ASSUME ScriptInv, NEW n \in 1..Len(script), OfBlock(n)
    PROVE  /\ script[n].index \in Nat
           /\ \A m \in 1..Len(script) : m < n /\ OfBlock(m) =>
                 /\ script[m].index <= script[n].index
                 /\ Opens(n) \/ Closes(m) => script[m].index < script[n].index
<1> DEFINE N == Len(script)
           Grows(k) == /\ script[k].index \in Nat
                       /\ \A m \in 1..N : m < k /\ OfBlock(m) =>
                             /\ script[m].index \in Nat
                             /\ script[m].index <= script[k].index
                             /\ Opens(k) \/ Closes(m) => script[m].index < script[k].index
           T == {k \in 0..N : k > 0 /\ OfBlock(k) => Grows(k)}
<1>1. N \in Nat
    BY DEF ScriptInv, Listed
<1>2. 0 \in T
    BY <1>1
<1>3. ASSUME NEW k \in 0..N, k \in T, k < N
      PROVE  k + 1 \in T
  <2> DEFINE e == script[k + 1]
  <2>1. k + 1 \in 1..N /\ k + 1 - 1 = k /\ k \in Nat
    BY <1>1, <1>3
  <2>2. InProtocol(k + 1)
    BY <2>1 DEF ScriptInv
  <2>3. CASE k = 0
    <3>1. e.type = "message_start"
      BY <2>2, <2>3 DEF InProtocol, TypeBefore
    <3> QED
      BY <2>1, <3>1 DEF OfBlock
  <2>4. CASE k # 0 /\ OfBlock(k + 1)
    <3>1. k \in 1..N /\ TypeBefore(k + 1) = script[k].type
      BY <2>1, <2>4 DEF TypeBefore
    <3>2. CASE script[k].type = "message_start"
      <4>1. InProtocol(k)
        BY <3>1 DEF ScriptInv
      <4>2. k = 1
        <5>1. InProtocol(k - 1) \/ k = 1
          BY <2>1, <3>1 DEF ScriptInv
        <5> QED
          BY <3>2, <4>1, <5>1 DEF InProtocol, TypeBefore
      <4>3. \A m \in 1..N : m < k + 1 => m = k
        BY <1>1, <4>2
      <4>4. ~OfBlock(k) /\ e.index \in Nat
        BY <2>2, <2>4, <3>1, <3>2 DEF InProtocol, OfBlock
      <4>5. Grows(k + 1)
        BY <4>3, <4>4
      <4> QED
        BY <2>1, <4>5
    <3>3. CASE script[k].type # "message_start"
      <4>1. OfBlock(k)
        BY <2>2, <2>4, <3>1, <3>3 DEF InProtocol, OfBlock
      <4>2. Grows(k)
        BY <1>3, <2>4, <3>1, <4>1
      <4>3. \/ Opens(k + 1) /\ e.index = script[k].index + 1 /\ Closes(k)
            \/ ~Opens(k + 1) /\ e.index = script[k].index /\ ~Closes(k)
        BY <2>1, <2>2, <2>4, <3>1, <3>3 DEF InProtocol, OfBlock, Opens, Closes
      <4>4. \A m \in 1..N : m < k + 1 => m < k \/ m = k
        BY <1>1
      <4>5. ASSUME NEW m \in 1..N, m < k + 1, OfBlock(m)
            PROVE  /\ script[m].index \in Nat
                   /\ script[m].index <= e.index
                   /\ Opens(k + 1) \/ Closes(m) => script[m].index < e.index
        <5>1. CASE m = k
          BY <4>2, <4>3, <5>1
        <5>2. CASE m < k
          <6>1. /\ script[m].index \in Nat /\ script[m].index <= script[k].index
                /\ Closes(m) => script[m].index < script[k].index
            BY <4>2, <4>5, <5>2
          <6> QED
            BY <4>2, <4>3, <6>1
        <5> QED
          BY <4>4, <4>5, <5>1, <5>2
      <4>6. e.index \in Nat
        BY <4>2, <4>3
      <4>7. Grows(k + 1)
        BY <4>5, <4>6
      <4> QED
        BY <2>1, <4>7
    <3> QED
      BY <3>2, <3>3
  <2> QED
    BY <2>1, <2>3, <2>4
<1>4. \A k \in 0..N : k \in T /\ k < N => k + 1 \in T
    BY <1>3
<1> HIDE DEF T
<1>5. n \in T
    BY <1>1, <1>2, <1>4, InductionUpTo
<1> QED
    BY <1>1, <1>5 DEF T

\* The calls: an event of a block with an index is of a call if the block is.
OfCall(n) == OfBlock(n) /\ (IF Closes(n) THEN script[n - 1].kind ELSE script[n].kind) = "tool_use"

CallIndices == {script[n].index : n \in {m \in 1..Len(script) : Opens(m) /\ script[m].kind = "tool_use"}}

LEMMA CallsHaveIndices ==
    ASSUME ScriptInv, NEW n \in 1..Len(script), OfBlock(n)
    PROVE  script[n].index \in CallIndices <=> OfCall(n)
<1>1. ASSUME NEW m \in 1..Len(script), Opens(m)
      PROVE  script[m].index \in CallIndices <=> script[m].kind = "tool_use"
  <2>1. ASSUME NEW k \in 1..Len(script), Opens(k), script[k].index = script[m].index
        PROVE  k = m
    <3>1. OfBlock(k) /\ OfBlock(m)
      BY <1>1, <2>1 DEF Opens, OfBlock
    <3>2. script[k].index \in Nat /\ script[m].index \in Nat
      BY <3>1, IndicesGrow
    <3>3. ~(k < m) /\ ~(m < k)
      BY <1>1, <2>1, <3>1, <3>2, IndicesGrow
    <3>4. Len(script) \in Nat
      BY DEF ScriptInv, Listed
    <3> QED
      BY <3>3, <3>4
  <2> QED
    BY <1>1, <2>1 DEF CallIndices
<1>2. InProtocol(n)
    BY DEF ScriptInv
<1>3. Len(script) \in Nat
    BY DEF ScriptInv, Listed
<1>4. CASE Opens(n)
    BY <1>1, <1>4 DEF OfCall, OfBlock, Opens, Closes
<1>5. ASSUME NEW k \in 1..Len(script), script[k].type = "content_block_delta"
      PROVE  /\ k - 1 \in 1..Len(script) /\ Opens(k - 1)
             /\ script[k].index = script[k - 1].index /\ script[k].kind = script[k - 1].kind
  <2>1. InProtocol(k)
    BY DEF ScriptInv
  <2>2. k # 1
    BY <1>5, <2>1 DEF InProtocol, TypeBefore
  <2> QED
    BY <1>3, <1>5, <2>1, <2>2 DEF InProtocol, TypeBefore, Opens
<1>6. CASE script[n].type = "content_block_delta"
    BY <1>1, <1>5, <1>6 DEF OfCall, OfBlock, Closes
<1>7. CASE Closes(n)
  <2>1. n # 1
    BY <1>2, <1>7 DEF InProtocol, TypeBefore, Closes
  <2>2. /\ n - 1 \in 1..Len(script) /\ script[n].index = script[n - 1].index
        /\ script[n - 1].type \in {"content_block_start", "content_block_delta"}
    BY <1>2, <1>3, <1>7, <2>1 DEF InProtocol, TypeBefore, Closes
  <2>3. script[n - 1].index \in CallIndices <=> script[n - 1].kind = "tool_use"
    BY <1>1, <1>5, <2>2 DEF Opens
  <2> QED
    BY <1>7, <2>2, <2>3 DEF OfCall
<1> QED
    BY <1>4, <1>6, <1>7 DEF OfBlock, Opens, Closes

--------------------------------------------------------------------------------
(***************************************************************************)
(* What the interception has made of the first n events.                   *)
(***************************************************************************)
UntouchedUpTo(n) == {k \in 1..n : ~OfCall(k)}

LEMMA UntouchedGrow ==
    ASSUME NEW n \in Nat
    PROVE  /\ Cardinality(UntouchedUpTo(n)) \in Nat
           /\ Cardinality(UntouchedUpTo(n + 1)) = Cardinality(UntouchedUpTo(n)) + IF OfCall(n + 1) THEN 0 ELSE 1
           /\ \A k : k \in UntouchedUpTo(n + 1) <=> k \in UntouchedUpTo(n) \/ (k = n + 1 /\ ~OfCall(n + 1))
<1>1. IsFiniteSet(UntouchedUpTo(n))
  <2>1. UntouchedUpTo(n) \subseteq 1..n
    BY DEF UntouchedUpTo
  <2>2. IsFiniteSet(1..n)
    BY FS_Interval
  <2> QED
    BY <2>1, <2>2, FS_Subset
<1>2. Cardinality(UntouchedUpTo(n)) \in Nat
    BY <1>1, FS_CardinalityType
<1>3. \A k : k \in UntouchedUpTo(n + 1) <=> k \in UntouchedUpTo(n) \/ (k = n + 1 /\ ~OfCall(n + 1))
  <2>1. \A k : k \in 1..(n + 1) <=> k \in 1..n \/ k = n + 1
    OBVIOUS
  <2> QED
    BY <2>1 DEF UntouchedUpTo
<1>4. CASE OfCall(n + 1)
  <2>1. UntouchedUpTo(n + 1) = UntouchedUpTo(n)
    BY <1>3, <1>4
  <2> QED
    BY <1>2, <1>3, <1>4, <2>1
<1>5. CASE ~OfCall(n + 1)
  <2>1. UntouchedUpTo(n + 1) = UntouchedUpTo(n) \cup {n + 1}
    BY <1>3, <1>5
  <2>2. n + 1 \notin UntouchedUpTo(n)
    BY DEF UntouchedUpTo
  <2>3. Cardinality(UntouchedUpTo(n) \cup {n + 1}) = Cardinality(UntouchedUpTo(n)) + 1
    BY <1>1, <2>2, FS_AddElement
  <2> QED
    BY <1>2, <1>3, <1>5, <2>1, <2>3
<1> QED
    BY <1>4, <1>5

CallType == [index : Nat, result : {"none", "ok", "failed"}]

BuffersAt(b, n) ==
    (n > 0 => script[n].type # "error") =>
        b = IF n > 0 /\ script[n].type \in {"content_block_start", "content_block_delta"}
                     /\ script[n].kind = "tool_use"
            THEN script[n].index ELSE -1

ForwardsUpTo(f, n) ==
    /\ Listed(f) /\ Len(f) = Cardinality(UntouchedUpTo(n))
    /\ \A k \in UntouchedUpTo(n) :
          /\ Cardinality(UntouchedUpTo(k)) \in 1..Len(f)
          /\ f[Cardinality(UntouchedUpTo(k))] = script[k]

TakesUpTo(c, n) ==
    /\ c \in Seq(CallType) /\ \A j \in 1..Len(c) : c[j].result = "none"
    /\ {c[j].index : j \in 1..Len(c)} = {script[k].index : k \in {m \in 1..n : Closes(m) /\ OfCall(m)}}
    /\ \A i, j \in 1..Len(c) : i < j => c[i].index < c[j].index

RewroteUpTo(r, n) ==
    \E b, f, c : /\ r = [buffering |-> b, forward |-> f, calls |-> c]
                 /\ BuffersAt(b, n) /\ ForwardsUpTo(f, n) /\ TakesUpTo(c, n)

LEMMA Forwarded ==
    ASSUME NEW n \in Nat, NEW f, ForwardsUpTo(f, n)
    PROVE  ForwardsUpTo(IF OfCall(n + 1) THEN f ELSE Append(f, script[n + 1]), n + 1)
<1>1. /\ Cardinality(UntouchedUpTo(n)) \in Nat
      /\ Cardinality(UntouchedUpTo(n + 1)) = Cardinality(UntouchedUpTo(n)) + IF OfCall(n + 1) THEN 0 ELSE 1
      /\ \A k : k \in UntouchedUpTo(n + 1) <=> k \in UntouchedUpTo(n) \/ (k = n + 1 /\ ~OfCall(n + 1))
    BY UntouchedGrow
<1>2. CASE OfCall(n + 1)
    BY <1>1, <1>2 DEF ForwardsUpTo
<1>3. CASE ~OfCall(n + 1)
  <2> DEFINE t == Append(f, script[n + 1])
  <2>1. Listed(t)
    BY AppendedList DEF ForwardsUpTo
  <2>2. /\ Len(t) = Len(f) + 1 /\ Len(f) \in Nat
        /\ t[Len(f) + 1] = script[n + 1] /\ \A i \in 1..Len(f) : t[i] = f[i]
    <3> DEFINE S == {f[i] : i \in DOMAIN f} \cup {script[n + 1]}
               x == script[n + 1]
    <3>1. f \in [1..Len(f) -> S] /\ Len(f) \in Nat /\ x \in S
      BY DEF ForwardsUpTo, Listed
    <3>2. f \in Seq(S)
      BY <3>1
    <3> HIDE DEF S, x
    <3>3. /\ Len(Append(f, x)) = Len(f) + 1
          /\ Append(f, x)[Len(f) + 1] = x /\ \A i \in 1..Len(f) : Append(f, x)[i] = f[i]
      BY <3>1, <3>2
    <3> QED
      BY <3>1, <3>3 DEF x
  <2> HIDE DEF t
  <2>3. Len(t) = Cardinality(UntouchedUpTo(n + 1)) /\ Len(f) = Cardinality(UntouchedUpTo(n))
    BY <1>1, <1>3, <2>2 DEF ForwardsUpTo
  <2>4. ASSUME NEW k \in UntouchedUpTo(n + 1)
        PROVE  /\ Cardinality(UntouchedUpTo(k)) \in 1..Len(t)
               /\ t[Cardinality(UntouchedUpTo(k))] = script[k]
    <3>1. CASE k = n + 1
      BY <1>1, <2>2, <2>3, <3>1
    <3>2. CASE k \in UntouchedUpTo(n)
      <4>1. Cardinality(UntouchedUpTo(k)) \in 1..Len(f) /\ f[Cardinality(UntouchedUpTo(k))] = script[k]
        BY <3>2 DEF ForwardsUpTo
      <4> QED
        BY <2>2, <4>1
    <3> QED
      BY <1>1, <2>4, <3>1, <3>2
  <2>5. ForwardsUpTo(t, n + 1)
    BY <2>1, <2>3, <2>4 DEF ForwardsUpTo
  <2> QED
    BY <1>3, <2>5 DEF t
<1> QED
    BY <1>2, <1>3

LEMMA Collected ==
    ASSUME ScriptInv, NEW n \in Nat, n + 1 \in 1..Len(script), NEW c, TakesUpTo(c, n)
    PROVE  TakesUpTo(IF Closes(n + 1) /\ OfCall(n + 1)
                     THEN Append(c, [index |-> script[n + 1].index, result |-> "none"]) ELSE c, n + 1)
<1> DEFINE Stops(m) == {k \in 1..m : Closes(k) /\ OfCall(k)}
           i == script[n + 1].index
           call == [index |-> i, result |-> "none"]
           t == Append(c, call)
<1>1. \A k : k \in Stops(n + 1) <=> k \in Stops(n) \/ (k = n + 1 /\ Closes(n + 1) /\ OfCall(n + 1))
  <2>1. \A k : k \in 1..(n + 1) <=> k \in 1..n \/ k = n + 1
    OBVIOUS
  <2> QED
    BY <2>1
<1>2. /\ c \in Seq(CallType) /\ \A j \in 1..Len(c) : c[j].result = "none"
      /\ {c[j].index : j \in 1..Len(c)} = {script[k].index : k \in Stops(n)}
      /\ \A j, k \in 1..Len(c) : j < k => c[j].index < c[k].index
    BY DEF TakesUpTo
<1> HIDE DEF Stops
<1>3. CASE ~(Closes(n + 1) /\ OfCall(n + 1))
  <2>1. Stops(n + 1) = Stops(n)
    BY <1>1, <1>3
  <2> QED
    BY <1>2, <1>3, <2>1 DEF TakesUpTo, Stops
<1>4. CASE Closes(n + 1) /\ OfCall(n + 1)
  <2>1. i \in Nat /\ \A k \in Stops(n) : script[k].index < i /\ script[k].index \in Nat
    <3>1. OfBlock(n + 1)
      BY <1>4 DEF OfCall
    <3>2. ASSUME NEW k \in Stops(n) PROVE script[k].index < i /\ script[k].index \in Nat
      <4>1. k \in 1..Len(script) /\ k < n + 1 /\ Closes(k) /\ OfBlock(k)
        BY DEF Stops, OfCall, ScriptInv, Listed
      <4> QED
        BY <3>1, <4>1, IndicesGrow
    <3> QED
      BY <3>1, <3>2, IndicesGrow
  <2>2. call \in CallType /\ call.index = i /\ call.result = "none"
    BY <2>1 DEF CallType
  <2> HIDE DEF i, call
  <2>3. /\ t \in Seq(CallType) /\ Len(t) = Len(c) + 1 /\ Len(c) \in Nat
        /\ t[Len(c) + 1] = call /\ \A j \in 1..Len(c) : t[j] = c[j]
    BY <1>2, <2>2
  <2> HIDE DEF t
  <2>4. \A j : j \in 1..Len(t) <=> j \in 1..Len(c) \/ j = Len(c) + 1
    BY <2>3
  <2>5. \A j \in 1..Len(t) : t[j].result = "none"
    BY <1>2, <2>2, <2>3, <2>4
  <2>6. {t[j].index : j \in 1..Len(t)} = {script[k].index : k \in Stops(n + 1)}
    <3>1. ASSUME NEW j \in 1..Len(t) PROVE \E k \in Stops(n + 1) : t[j].index = script[k].index
      <4>1. CASE j = Len(c) + 1
        BY <1>1, <1>4, <2>2, <2>3, <4>1 DEF i
      <4>2. CASE j \in 1..Len(c)
        <5>1. c[j].index \in {script[k].index : k \in Stops(n)}
          BY <1>2, <4>2
        <5> QED
          BY <1>1, <2>3, <4>2, <5>1
      <4> QED
        BY <2>4, <4>1, <4>2
    <3>2. ASSUME NEW k \in Stops(n + 1) PROVE \E j \in 1..Len(t) : t[j].index = script[k].index
      <4>1. CASE k = n + 1
        BY <2>2, <2>3, <2>4, <4>1 DEF i
      <4>2. CASE k \in Stops(n)
        <5>1. script[k].index \in {c[j].index : j \in 1..Len(c)}
          BY <1>2, <4>2
        <5> QED
          BY <2>3, <2>4, <5>1
      <4> QED
        BY <1>1, <4>1, <4>2
    <3> DEFINE I == {t[j].index : j \in 1..Len(t)}
               J == {script[k].index : k \in Stops(n + 1)}
    <3>3. I \subseteq J
      BY <3>1
    <3>4. J \subseteq I
      BY <3>2
    <3> HIDE DEF I, J
    <3>5. I = J
      BY <3>3, <3>4
    <3> QED
      BY <3>5 DEF I, J
  <2>7. ASSUME NEW j \in 1..Len(t), NEW k \in 1..Len(t), j < k
        PROVE  t[j].index < t[k].index
    <3>1. CASE k \in 1..Len(c)
      BY <1>2, <2>3, <2>7, <3>1
    <3>2. CASE k = Len(c) + 1
      <4>1. j \in 1..Len(c)
        BY <2>3, <2>7, <3>2
      <4>2. c[j].index \in {script[m].index : m \in Stops(n)}
        BY <1>2, <4>1
      <4> QED
        BY <2>1, <2>2, <2>3, <3>2, <4>1, <4>2
    <3> QED
      BY <2>4, <3>1, <3>2
  <2>8. TakesUpTo(t, n + 1)
    BY <2>3, <2>5, <2>6, <2>7 DEF TakesUpTo, Stops
  <2> QED
    BY <1>4, <2>8 DEF t, call, i
<1> QED
    BY <1>3, <1>4

\* The rewriter gives up nothing but the calls.
LEMMA EventIsFetched ==
    ASSUME ScriptInv, NEW n \in Nat, n + 1 \in 1..Len(script), NEW before, RewroteUpTo(before, n)
    PROVE  RewroteUpTo(RewriterFeed(before, script[n + 1]), n + 1)
<1>0. PICK b, f, c : /\ before = [buffering |-> b, forward |-> f, calls |-> c]
                     /\ BuffersAt(b, n) /\ ForwardsUpTo(f, n) /\ TakesUpTo(c, n)
    BY DEF RewroteUpTo
<1> DEFINE e == script[n + 1]
           r == [buffering |-> b, forward |-> f, calls |-> c]
           f1 == IF OfCall(n + 1) THEN f ELSE Append(f, e)
           c1 == IF Closes(n + 1) /\ OfCall(n + 1) THEN Append(c, [index |-> e.index, result |-> "none"]) ELSE c
           called == e.type \in {"content_block_start", "content_block_delta"} /\ e.kind = "tool_use"
           b1 == IF e.type = "error" THEN b ELSE IF called THEN e.index ELSE -1
<1>1. ForwardsUpTo(f1, n + 1)
    BY <1>0, Forwarded
<1>2. TakesUpTo(c1, n + 1)
    BY <1>0, Collected
<1>3. BuffersAt(b1, n + 1)
    BY DEF BuffersAt
<1>4. InProtocol(n + 1) /\ TypeBefore(n + 1) = IF n = 0 THEN "nothing" ELSE script[n].type
  <2>1. n + 1 - 1 = n
    OBVIOUS
  <2> QED
    BY <2>1 DEF ScriptInv, TypeBefore
<1>5. b = IF n > 0 /\ script[n].type \in {"content_block_start", "content_block_delta"}
                   /\ script[n].kind = "tool_use"
          THEN script[n].index ELSE -1
    BY <1>0, <1>4 DEF BuffersAt, InProtocol
<1>6. n + 1 - 1 = n
    OBVIOUS
<1>7. OfBlock(n + 1) => e.index \in Nat /\ e.index # -1
    BY IndicesGrow
<1> HIDE DEF f1, c1
<1>8. CASE Opens(n + 1) /\ e.kind = "tool_use"
  <2>1. OfCall(n + 1) /\ ~Closes(n + 1)
    BY <1>8 DEF OfCall, OfBlock, Opens, Closes
  <2>2. f1 = f /\ c1 = c /\ b1 = e.index
    BY <1>8, <2>1 DEF f1, c1, Opens
  <2>3. RewriterFeed(r, e) = [r EXCEPT !.buffering = e.index]
    BY <1>8 DEF RewriterFeed, Opens
  <2> HIDE DEF b1
  <2>4. RewriterFeed(r, e) = [buffering |-> b1, forward |-> f1, calls |-> c1]
    BY <2>2, <2>3
  <2> QED
    BY <1>0, <1>1, <1>2, <1>3, <2>4 DEF RewroteUpTo
<1>9. CASE e.type = "content_block_delta" /\ e.kind = "tool_use"
  <2>1. OfCall(n + 1) /\ ~Closes(n + 1)
    BY <1>9 DEF OfCall, OfBlock, Closes
  <2>2. b = e.index /\ b # -1
    BY <1>4, <1>5, <1>7, <1>6, <1>9 DEF InProtocol, OfBlock
  <2>3. f1 = f /\ c1 = c /\ b1 = b
    BY <1>9, <2>1, <2>2 DEF f1, c1
  <2>4. RewriterFeed(r, e) = r
    BY <1>9, <2>2 DEF RewriterFeed
  <2> HIDE DEF b1
  <2> QED
    BY <1>0, <1>1, <1>2, <1>3, <2>3, <2>4 DEF RewroteUpTo
<1>10. CASE Closes(n + 1) /\ OfCall(n + 1)
  <2>1. b = e.index
    BY <1>4, <1>5, <1>6, <1>10 DEF InProtocol, OfCall, Closes
  <2>2. f1 = f /\ c1 = Append(c, [index |-> e.index, result |-> "none"]) /\ b1 = -1
    BY <1>10 DEF f1, c1, Closes
  <2>3. RewriterFeed(r, e) = [r EXCEPT !.buffering = -1, !.calls = Append(@, [index |-> e.index, result |-> "none"])]
    BY <1>10, <2>1 DEF RewriterFeed, Closes
  <2> HIDE DEF b1
  <2>4. RewriterFeed(r, e) = [buffering |-> b1, forward |-> f1, calls |-> c1]
    BY <2>2, <2>3
  <2> QED
    BY <1>0, <1>1, <1>2, <1>3, <2>4 DEF RewroteUpTo
<1>11. CASE ~OfCall(n + 1)
  <2>1. f1 = Append(f, e) /\ c1 = c
    BY <1>11 DEF f1, c1
  <2>2. ~(e.type = "content_block_start" /\ e.kind = "tool_use")
    BY <1>11 DEF OfCall, OfBlock, Closes
  <2>3. e.type \in {"content_block_start", "content_block_delta", "content_block_stop"} => b = -1
    BY <1>4, <1>5, <1>6, <1>11 DEF InProtocol, OfCall, OfBlock, Closes
  <2>4. e.type = "content_block_stop" => b # e.index
    BY <1>7, <2>3 DEF OfBlock
  <2>5. b1 = b
    <3>1. CASE e.type = "error"
      BY <3>1
    <3>2. CASE e.type # "error"
      <4>1. ~called
        BY <1>11 DEF OfCall, OfBlock, Closes
      <4>2. b = -1
        BY <1>4, <1>5, <2>3, <3>2 DEF InProtocol
      <4> QED
        BY <3>2, <4>1, <4>2
    <3> QED
      BY <3>1, <3>2
  <2>6. RewriterFeed(r, e) = [r EXCEPT !.forward = Append(@, e)]
    <3>1. ~(e.type = "content_block_delta" /\ r.buffering # -1) /\ ~(e.type = "content_block_stop" /\ r.buffering = e.index)
      BY <2>3, <2>4
    <3> QED
      BY <2>2, <3>1 DEF RewriterFeed
  <2> HIDE DEF b1
  <2>7. RewriterFeed(r, e) = [buffering |-> b1, forward |-> f1, calls |-> c1]
    BY <2>1, <2>5, <2>6
  <2> QED
    BY <1>0, <1>1, <1>2, <1>3, <2>7 DEF RewroteUpTo
<1>12. OfCall(n + 1) => \/ Opens(n + 1) /\ e.kind = "tool_use"
                        \/ e.type = "content_block_delta" /\ e.kind = "tool_use"
                        \/ Closes(n + 1)
    BY DEF OfCall, OfBlock, Opens, Closes
<1> QED
    BY <1>0, <1>8, <1>9, <1>10, <1>11, <1>12

LEMMA AllAreFetched ==
    ASSUME ScriptInv, NEW events, Listed(events), Len(events) = Len(script),
           \A k \in 1..Len(events) : events[k].number = k
    PROVE  RewroteUpTo(Rewritten(events), Len(script))
<1> DEFINE N == Len(events)
<1>1. N \in Nat
    BY DEF Listed
<1>2. PICK after :
         /\ after[0] = Passthrough
         /\ \A k \in 1..N : after[k] = Fetched(events[k], after[k - 1])
         /\ Rewritten(events) = after[N]
  <2>1. events \in Seq({events[i] : i \in DOMAIN events})
    BY DEF Listed
  <2> QED
    BY <2>1, RewrittenSteps
<1> DEFINE T == {k \in 0..N : RewroteUpTo(after[k], k)}
<1>3. 0 \in T
  <2>1. after[0] = [buffering |-> -1, forward |-> <<>>, calls |-> <<>>]
    BY <1>2 DEF Passthrough
  <2>2. BuffersAt(-1, 0)
    BY DEF BuffersAt
  <2>3. UntouchedUpTo(0) = {} /\ \A m : m \notin 1..0
    BY DEF UntouchedUpTo
  <2>4. ForwardsUpTo(<<>>, 0)
    <3>1. <<>> \in Seq(Nat) /\ Len(<<>>) = 0
      OBVIOUS
    <3>2. Cardinality({}) = 0
      BY FS_EmptySet
    <3> QED
      BY <2>3, <3>1, <3>2, SequenceIsList DEF ForwardsUpTo
  <2>5. TakesUpTo(<<>>, 0)
    <3>1. <<>> \in Seq(CallType) /\ Len(<<>>) = 0
      OBVIOUS
    <3> QED
      BY <2>3, <3>1 DEF TakesUpTo
  <2> QED
    BY <1>1, <2>1, <2>2, <2>4, <2>5 DEF RewroteUpTo
<1>4. ASSUME NEW k \in 0..N, k \in T, k < N
      PROVE  k + 1 \in T
  <2>1. k + 1 \in 1..N /\ k + 1 - 1 = k /\ k + 1 \in 0..N /\ k \in Nat
    BY <1>1, <1>4
  <2>2. after[k + 1] = Fetched(events[k + 1], after[k]) /\ events[k + 1].number = k + 1
    BY <1>2, <2>1
  <2>3. after[k + 1] = RewriterFeed(after[k], script[k + 1])
    <3> DEFINE number == events[k + 1].number
    <3>1. after[k + 1] = RewriterFeed(after[k], script[number]) /\ number = k + 1
      BY <2>2 DEF Fetched
    <3> HIDE DEF number
    <3> QED
      BY <3>1
  <2>4. k + 1 \in 1..Len(script)
    BY <2>1
  <2>5. RewroteUpTo(RewriterFeed(after[k], script[k + 1]), k + 1)
    BY <1>4, <2>1, <2>4, EventIsFetched
  <2> QED
    BY <2>1, <2>3, <2>5
<1>5. \A k \in 0..N : k \in T /\ k < N => k + 1 \in T
    BY <1>4
<1> HIDE DEF N, T
<1>6. N \in T
  <2>1. \A k \in 0..N : k \in T
    BY <1>1, <1>3, <1>5, InductionUpTo
  <2> QED
    BY <1>1, <2>1
<1>7. RewroteUpTo(after[N], N)
    BY <1>6 DEF T
<1>8. N = Len(script)
    BY DEF N
<1> QED
    BY <1>2, <1>7, <1>8

--------------------------------------------------------------------------------
(***************************************************************************)
(* The interception.  Before it, buffer and wire are all that the provider *)
(* has written; after it, nothing is written any more.                     *)
(***************************************************************************)
IndexInv == \A n \in 1..Len(script) : "index" \in DOMAIN script[n] <=> OfBlock(n)

InterceptionInv ==
    /\ handling = "none" => calls = <<>> /\ ~done
    /\ handling = "intercept" =>
          /\ heard = <<>> /\ ~done =>
                /\ calls = <<>> /\ wire \in Seq(Byte) /\ buf \in Seq(Byte)
                /\ \E at : Layout(Joint(buf, wire), Len(buf), 1, Len(script), at)
          /\ heard # <<>> =>
                /\ ended = "eof" /\ wire = <<>> /\ Listed(out) /\ calls \in Seq(CallType)
                /\ CallsAreTaken

LEMMA NothingWritten ==
    ASSUME script = <<>>
    PROVE  ScriptInv
<1>1. Listed(script) /\ Len(script) = 0
  <2>1. <<>> \in Seq(Nat)
    OBVIOUS
  <2> QED
    BY <2>1, SequenceIsList
<1>2. Started = {} /\ TypeBefore(Len(script) + 1) = "nothing"
    BY <1>1 DEF Started, TypeBefore, Listed
<1>3. Cardinality(Started) = 0
    BY <1>2, FS_EmptySet
<1> QED
    BY <1>1, <1>2, <1>3 DEF ScriptInv

LEMMA IndexStep ==
    ASSUME ScriptInv, IndexInv, [ExchangeNext]_<<vars, streamVars>>
    PROVE  IndexInv'
<1>1. CASE script' = script
    BY <1>1 DEF IndexInv, OfBlock
<1>2. CASE ProviderWrites
  <2>1. PICK event, kind : Write(event, kind) /\
           ("index" \in DOMAIN event
              <=> event.type \in {"content_block_start", "content_block_delta", "content_block_stop"})
    <3>1. CASE Write([type |-> "message_start"], "none")
      BY <3>1
    <3>2. CASE \E k : Write([type |-> "content_block_start", index |-> Index + 1, kind |-> k], k)
      BY <3>2
    <3>3. CASE Write([type |-> "content_block_delta", index |-> Index, kind |-> open], open)
      BY <3>3
    <3>4. CASE Write([type |-> "content_block_stop", index |-> Index], "none")
      BY <3>4
    <3>5. CASE Write([type |-> "message_delta"], "none")
      BY <3>5
    <3>6. CASE Write([type |-> "message_stop"], "none")
      BY <3>6
    <3>7. CASE Write([type |-> "error"], "none")
      BY <3>7
    <3> QED
      BY <1>2, <3>1, <3>2, <3>3, <3>4, <3>5, <3>6, <3>7 DEF ProviderWrites
  <2>2. /\ Len(script') = Len(script) + 1 /\ Len(script) \in Nat
        /\ \A n \in 1..Len(script) : script'[n] = script[n]
        /\ script'[Len(script) + 1] = event
    BY <2>1, ScriptGrows
  <2>3. ASSUME NEW n \in 1..Len(script')
        PROVE  "index" \in DOMAIN script'[n]
                 <=> script'[n].type \in {"content_block_start", "content_block_delta", "content_block_stop"}
    <3>1. CASE n = Len(script) + 1
      BY <2>1, <2>2, <3>1
    <3>2. CASE n \in 1..Len(script)
      BY <2>2, <3>2 DEF IndexInv, OfBlock
    <3> QED
      BY <2>2, <3>1, <3>2
  <2> QED
    BY <2>3 DEF IndexInv, OfBlock
<1>3. ProviderWrites \/ script' = script
    BY DEF ExchangeNext, StreamNext, StreamBegins, Receive, ProviderEnds, Chunk, TranslationEnds,
           Intercept, InterceptFails, ExecuteTool, Continue, streamVars
<1> QED
    BY <1>1, <1>2, <1>3

\* Bytes that pass from the wire to the buffer as they are.
LEMMA Passed ==
    ASSUME NEW u \in Seq(Byte), NEW w \in Seq(Byte), NEW m \in 1..Len(w)
    PROVE  /\ Joint(u, SubSeq(w, 1, m)) \in Seq(Byte) /\ After(w, m) \in Seq(Byte)
           /\ Len(u) <= Len(Joint(u, SubSeq(w, 1, m)))
           /\ Joint(Joint(u, SubSeq(w, 1, m)), After(w, m)) = Joint(u, w)
<1> DEFINE x == SubSeq(w, 1, m)
           y == SubSeq(w, m + 1, Len(w))
<1>1. Len(u) \in Nat /\ Len(w) \in Nat /\ m \in Nat /\ m <= Len(w)
    OBVIOUS
<1>2. x \in Seq(Byte) /\ Len(x) = m /\ \A i \in 1..m : x[i] = w[i]
  <2>1. 0 \in Nat /\ 0 <= m /\ m - 0 = m /\ 0 + 1 = 1
    BY <1>1
  <2>2. /\ SubSeq(w, 0 + 1, m) \in Seq(Byte) /\ Len(SubSeq(w, 0 + 1, m)) = m - 0
        /\ \A i \in 1..(m - 0) : SubSeq(w, 0 + 1, m)[i] = w[0 + i]
    BY <1>1, <2>1, Cut
  <2>3. \A i \in 1..m : 0 + i = i
    BY <1>1
  <2> QED
    BY <2>1, <2>2, <2>3
<1>3. y \in Seq(Byte) /\ Len(y) = Len(w) - m /\ \A i \in 1..(Len(w) - m) : y[i] = w[m + i]
    BY <1>1, Cut
<1> HIDE DEF x, y
<1> DEFINE z == Joint(u, x)
<1>4. /\ z \in Seq(Byte) /\ Len(z) = Len(u) + m
      /\ \A p \in 1..(Len(u) + m) : z[p] = IF p <= Len(u) THEN u[p] ELSE x[p - Len(u)]
    BY <1>2, Concatenated, JointAt
<1> HIDE DEF z
<1>5. /\ Joint(z, y) \in Seq(Byte) /\ Len(Joint(z, y)) = Len(z) + Len(y)
      /\ \A p \in 1..(Len(z) + Len(y)) : Joint(z, y)[p] = IF p <= Len(z) THEN z[p] ELSE y[p - Len(z)]
    BY <1>3, <1>4, Concatenated, JointAt
<1>6. /\ Joint(u, w) \in Seq(Byte) /\ Len(Joint(u, w)) = Len(u) + Len(w)
      /\ \A p \in 1..(Len(u) + Len(w)) : Joint(u, w)[p] = IF p <= Len(u) THEN u[p] ELSE w[p - Len(u)]
    BY Concatenated, JointAt
<1>7. Len(Joint(z, y)) = Len(Joint(u, w))
    BY <1>1, <1>3, <1>4, <1>5, <1>6
<1>8. ASSUME NEW p \in 1..(Len(u) + Len(w))
      PROVE  Joint(z, y)[p] = Joint(u, w)[p]
  <2>1. CASE p <= Len(u)
    <3>1. p \in 1..(Len(u) + m) /\ p \in 1..(Len(z) + Len(y)) /\ p <= Len(z)
      BY <1>1, <1>3, <1>4, <2>1
    <3> QED
      BY <1>4, <1>5, <1>6, <2>1, <3>1
  <2>2. CASE p > Len(u) /\ p <= Len(u) + m
    <3>1. p - Len(u) \in 1..m
      BY <1>1, <2>2
    <3>2. p \in 1..(Len(u) + m) /\ p \in 1..(Len(z) + Len(y)) /\ p <= Len(z) /\ ~(p <= Len(u))
      BY <1>1, <1>3, <1>4, <2>2
    <3>3. Joint(z, y)[p] = z[p] /\ z[p] = x[p - Len(u)] /\ Joint(u, w)[p] = w[p - Len(u)]
      BY <1>4, <1>5, <1>6, <3>2
    <3> QED
      BY <1>2, <3>1, <3>3
  <2>3. CASE p > Len(u) + m
    <3> DEFINE i == p - (Len(u) + m)
    <3>1. i \in 1..(Len(w) - m) /\ m + i = p - Len(u)
      BY <1>1, <2>3
    <3>2. p \in 1..(Len(z) + Len(y)) /\ ~(p <= Len(z)) /\ ~(p <= Len(u)) /\ p - Len(z) = i
      BY <1>1, <1>3, <1>4, <2>3
    <3>3. Joint(z, y)[p] = y[i] /\ Joint(u, w)[p] = w[p - Len(u)]
      BY <1>5, <1>6, <3>2
    <3> QED
      BY <1>3, <3>1, <3>3
  <2> QED
    BY <1>1, <2>1, <2>2, <2>3
<1>9. Joint(z, y) = Joint(u, w)
    BY <1>1, <1>5, <1>6, <1>7, <1>8
<1> QED
    BY <1>1, <1>3, <1>4, <1>9 DEF x, y, z, After

LEMMA LessExact ==
    ASSUME NEW s, NEW e \in Nat, NEW d \in Nat, e <= d, NEW a, NEW N, NEW at, Layout(s, e, a, N, at)
    PROVE  Layout(s, d, a, N, at)
<1>1. Places(s, a, N, at)
    BY DEF Layout
<1>2. ASSUME NEW n \in a..N, NEW i \in 1..Size(n), at[n] + i > d
      PROVE  s[at[n] + i] = ByteAt(n, i)
  <2>1. at[n] + i \in 1..Len(s)
    BY <1>1, Inside
  <2>2. at[n] + i > e
    BY <1>2, <2>1
  <2> QED
    BY <2>2 DEF Layout
<1> QED
    BY <1>1, <1>2 DEF Layout

\* What has been made of all events is what the property says.
AllFetched ==
    /\ ScriptInv /\ IndexInv
    /\ ForwardsUpTo(out, Len(script)) /\ TakesUpTo(calls, Len(script))
    /\ Listed(heard) /\ Len(heard) = Len(script) /\ \A k \in 1..Len(heard) : heard[k].number = k
    /\ done = (calls = <<>>)

LEMMA FetchedIsTaken == AllFetched => CallsAreTaken
<1> SUFFICES ASSUME ScriptInv, IndexInv, ForwardsUpTo(out, Len(script)), TakesUpTo(calls, Len(script)),
                    Listed(heard), Len(heard) = Len(script), \A k \in 1..Len(heard) : heard[k].number = k,
                    done = (calls = <<>>)
             PROVE  CallsAreTaken
    BY DEF AllFetched
<1> DEFINE N == Len(script)
<1>1. N \in Nat /\ DOMAIN heard = 1..N /\ \A k \in 1..N : HeardEvent(k) = script[k]
    BY DEF HeardEvent, Listed
<1>2. Tools = CallIndices
    BY <1>1 DEF Tools, HeardOf, CallIndices, Opens
<1>3. ASSUME NEW k \in 1..N
      PROVE  k \in Untouched <=> ~OfCall(k)
  <2>1. "index" \in DOMAIN script[k] <=> OfBlock(k)
    BY DEF IndexInv
  <2>2. OfBlock(k) => (script[k].index \in CallIndices <=> OfCall(k))
    BY CallsHaveIndices
  <2>3. OfCall(k) => OfBlock(k)
    BY DEF OfCall
  <2> QED
    BY <1>1, <1>2, <2>1, <2>2, <2>3 DEF Untouched
<1>4. Untouched \subseteq 1..N
    BY <1>1 DEF Untouched
<1>5. Untouched = UntouchedUpTo(N)
    BY <1>3, <1>4 DEF UntouchedUpTo
<1>6. ASSUME NEW k \in Untouched
      PROVE  {j \in Untouched : j <= k} = UntouchedUpTo(k)
  <2>1. k \in 1..N
    BY <1>4
  <2>2. \A j : j \in 1..k <=> j \in 1..N /\ j <= k
    BY <1>1, <2>1
  <2> QED
    BY <1>3, <1>4, <2>2 DEF UntouchedUpTo
<1>7. ASSUME NEW k \in Untouched
      PROVE  LET place == Cardinality({j \in Untouched : j <= k})
             IN  place \in DOMAIN out /\ out[place] = HeardEvent(k)
  <2>1. k \in 1..N /\ k \in UntouchedUpTo(N)
    BY <1>4, <1>5
  <2>2. Cardinality(UntouchedUpTo(k)) \in DOMAIN out /\ out[Cardinality(UntouchedUpTo(k))] = script[k]
    BY <2>1 DEF ForwardsUpTo, Listed
  <2> QED
    BY <1>1, <1>6, <2>1, <2>2
<1>8. Len(out) = Cardinality(Untouched)
    BY <1>5 DEF ForwardsUpTo
<1>9. DOMAIN calls = 1..Len(calls)
    BY DEF TakesUpTo
<1>10. {calls[k].index : k \in DOMAIN calls} = Complete
  <2> DEFINE S == {k \in 1..N : Closes(k) /\ OfCall(k)}
  <2>1. \A k \in 1..N : Closes(k) => (k \in S <=> script[k].index \in Tools)
    BY <1>2, CallsHaveIndices DEF OfBlock, Closes
  <2>2. HeardOf("content_block_stop") = {k \in 1..N : Closes(k)}
    BY <1>1 DEF HeardOf, Closes
  <2>3. Complete = {script[k].index : k \in S}
    BY <1>1, <2>1, <2>2 DEF Complete
  <2> QED
    BY <1>9, <2>3 DEF TakesUpTo
<1>11. \A j, k \in DOMAIN calls : j < k => calls[j].index < calls[k].index
    BY <1>9 DEF TakesUpTo
<1>12. done => Waiting = {}
  <2>1. calls = <<>> => DOMAIN calls = {}
    OBVIOUS
  <2> QED
    BY <2>1 DEF Waiting
<1> QED
    BY <1>7, <1>8, <1>10, <1>11, <1>12 DEF CallsAreTaken

LEMMA InterceptKeeps ==
    ASSUME ScriptInv, IndexInv, InterceptionInv, Intercept
    PROVE  InterceptionInv'
<1> DEFINE N == Len(script)
           events == Parsed(buf)
<1>1. /\ handling = "intercept" /\ handling' = handling /\ heard = <<>> /\ ~done /\ wire = <<>> /\ ended = "eof"
      /\ script' = script /\ wire' = wire /\ ended' = ended
      /\ heard' = events /\ done' = (calls' = <<>>)
    BY DEF Intercept
<1>2. out' = Rewritten(events).forward /\ calls' = Rewritten(events).calls
  <2>1. heard' = events
    BY <1>1
  <2>2. out' = Rewritten(heard').forward /\ calls' = Rewritten(heard').calls
    BY DEF Intercept
  <2> QED
    BY <2>1, <2>2 DEF Rewritten
<1>3. wire \in Seq(Byte) /\ buf \in Seq(Byte)
    BY <1>1 DEF InterceptionInv
<1>4. PICK at : Layout(Joint(buf, wire), Len(buf), 1, N, at)
    BY <1>1 DEF InterceptionInv
<1>5. N \in Nat
    BY DEF ScriptInv, Listed
<1>6. events \in Seq(EventType) /\ Len(events) = N /\ \A k \in 1..N : events[k].number = k
  <2> DEFINE s == Joint(buf, wire)
  <2>1. Len(s) = Len(buf) /\ \A p \in 1..Len(buf) : buf[p] = s[p]
    <3>1. Len(wire) = 0
      BY <1>1
    <3>2. Len(s) = Len(buf) + Len(wire) /\ Len(buf) \in Nat /\ \A p \in 1..Len(buf) : s[p] = buf[p]
      BY <1>3, Concatenated
    <3> HIDE DEF s
    <3> QED
      BY <3>1, <3>2
  <2> HIDE DEF s
  <2>2. at[N + 1] = Len(s) /\ Len(buf) \in Nat
    BY <1>3, <1>4 DEF Layout, Places, s
  <2> DEFINE b == N + 1
  <2>3. b \in 1..(N + 1) /\ at[b] <= Len(buf) /\ ~(b <= N) /\ b - 1 = N /\ Len(buf) <= Len(s)
    BY <1>5, <2>1, <2>2
  <2> HIDE DEF b
  <2>4. /\ Parsed(buf) \in Seq(EventType) /\ Len(Parsed(buf)) = b - 1
        /\ \A k \in 1..(b - 1) : Parsed(buf)[k].number = 1 + k - 1
    BY <1>3, <1>4, <2>1, <2>3, ParsedAre DEF s
  <2>5. \A k \in 1..N : 1 + k - 1 = k
    BY <1>5
  <2> QED
    BY <2>3, <2>4, <2>5
<1> HIDE DEF events
<1>7. Listed(events)
    BY <1>6, SequenceIsList
<1>8. RewroteUpTo(Rewritten(events), N)
    BY <1>6, <1>7, AllAreFetched
<1>9. ForwardsUpTo(out', N) /\ TakesUpTo(calls', N)
  <2>1. PICK b, f, c : /\ Rewritten(events) = [buffering |-> b, forward |-> f, calls |-> c]
                       /\ ForwardsUpTo(f, N) /\ TakesUpTo(c, N)
    BY <1>8 DEF RewroteUpTo
  <2>2. out' = f /\ calls' = c
    BY <1>2, <2>1
  <2> QED
    BY <2>1, <2>2
<1>10. /\ ScriptInv' /\ IndexInv' /\ ForwardsUpTo(out, Len(script))' /\ TakesUpTo(calls, Len(script))'
  <2>1. ScriptInv'
    BY <1>1 DEF Intercept, ScriptInv, TypeBefore, InProtocol, Started, Index
  <2>2. IndexInv'
    BY <1>1 DEF IndexInv, OfBlock
  <2>3. ForwardsUpTo(out, Len(script))'
    BY <1>1, <1>9 DEF ForwardsUpTo, UntouchedUpTo, OfCall, OfBlock, Closes
  <2>4. TakesUpTo(calls, Len(script))'
    BY <1>1, <1>9 DEF TakesUpTo, OfCall, OfBlock, Closes
  <2> QED
    BY <2>1, <2>2, <2>3, <2>4
<1>11. /\ Listed(heard') /\ Len(heard') = Len(script') /\ \A k \in 1..Len(heard') : heard'[k].number = k
    BY <1>1, <1>6, <1>7
<1>12. CallsAreTaken'
  <2>1. AllFetched'
    BY <1>1, <1>10, <1>11 DEF AllFetched
  <2> QED
    BY <2>1, FetchedIsTaken, PTL
<1>13. Listed(out') /\ calls' \in Seq(CallType)
    BY <1>9 DEF ForwardsUpTo, TakesUpTo
<1>14. heard' = <<>> => done'
  <2> SUFFICES ASSUME heard' = <<>> PROVE calls' = <<>>
    BY <1>1
  <2>1. N = 0
    BY <1>1, <1>6
  <2>2. \A k : k \notin 1..0
    OBVIOUS
  <2>3. {calls'[j].index : j \in 1..Len(calls')} = {}
    BY <1>9, <2>1, <2>2 DEF TakesUpTo
  <2>4. Len(calls') = 0
    <3>1. Len(calls') \in Nat
      BY <1>13
    <3>2. \A j \in 1..Len(calls') : FALSE
      BY <2>3
    <3> QED
      BY <3>1, <3>2
  <2> QED
    BY <1>13, <2>4
<1> QED
    BY <1>1, <1>12, <1>13, <1>14 DEF InterceptionInv

\* The image agent answers a call.
LEMMA AnsweringKeeps ==
    ASSUME InterceptionInv, ExecuteTool
    PROVE  InterceptionInv'
<1>1. /\ handling' = handling /\ handling = "intercept" /\ ~done /\ Waiting # {}
      /\ UNCHANGED <<script, wire, ended, heard, out, done>>
    BY DEF ExecuteTool
<1>2. calls # <<>>
  <2>1. calls = <<>> => DOMAIN calls = {}
    OBVIOUS
  <2> QED
    BY <1>1, <2>1 DEF Waiting
<1>3. heard # <<>>
    BY <1>1, <1>2 DEF InterceptionInv
<1>4. PICK result \in {"ok", "failed"} : calls' = [calls EXCEPT ![Min(Waiting)].result = result]
    BY DEF ExecuteTool
<1>5. calls \in Seq(CallType) /\ CallsAreTaken
    BY <1>1, <1>3 DEF InterceptionInv
<1> DEFINE w == Min(Waiting)
<1> HIDE DEF w
<1>6. /\ DOMAIN calls' = DOMAIN calls /\ DOMAIN calls = 1..Len(calls) /\ Len(calls) \in Nat
      /\ \A k \in DOMAIN calls : calls'[k].index = calls[k].index /\ calls'[k] \in CallType
  <2>1. calls' = [calls EXCEPT ![w] = [@ EXCEPT !.result = result]]
    BY <1>4 DEF w
  <2>2. ASSUME NEW k \in DOMAIN calls
        PROVE  calls'[k].index = calls[k].index /\ calls'[k] \in CallType
    <3>1. calls[k] \in CallType
      BY <1>5
    <3>2. calls'[k] = IF k = w THEN [calls[k] EXCEPT !.result = result] ELSE calls[k]
      BY <2>1
    <3> QED
      BY <3>1, <3>2 DEF CallType
  <2> QED
    BY <1>5, <2>1, <2>2
<1>7. calls' \in Seq(CallType)
  <2>1. calls' = [k \in 1..Len(calls) |-> calls'[k]]
    <3>1. calls' = [calls EXCEPT ![w].result = result]
      BY <1>4 DEF w
    <3> QED
      BY <1>5, <1>6, <3>1
  <2>2. calls' \in [1..Len(calls) -> CallType]
    BY <1>6, <2>1
  <2> QED
    BY <1>6, <2>2
<1>8. {calls'[k].index : k \in DOMAIN calls'} = {calls[k].index : k \in DOMAIN calls}
    BY <1>6
<1>9. \A j, k \in DOMAIN calls' : j < k => calls'[j].index < calls'[k].index
    BY <1>1, <1>3, <1>5, <1>6 DEF CallsAreTaken
<1>10. /\ Untouched' = Untouched /\ Complete' = Complete /\ \A k : HeardEvent(k)' = HeardEvent(k)
  <2>1. \A k : HeardEvent(k)' = HeardEvent(k)
    BY <1>1 DEF HeardEvent
  <2>2. Tools' = Tools
    BY <1>1 DEF Tools, HeardOf, HeardEvent
  <2> QED
    BY <1>1, <2>1, <2>2 DEF Untouched, Complete, HeardOf, HeardEvent
<1>11. Len(out) = Cardinality(Untouched)
    BY <1>1, <1>3, <1>5 DEF CallsAreTaken
<1>12. CallsAreTaken'
    BY <1>1, <1>3, <1>5, <1>8, <1>9, <1>10, <1>11 DEF CallsAreTaken
<1> QED
    BY <1>1, <1>3, <1>7, <1>12 DEF InterceptionInv

\* The answer to the calls is appended.
LEMMA ContinuingKeeps ==
    ASSUME InterceptionInv, Continue
    PROVE  InterceptionInv'
<1>1. /\ handling' = handling /\ handling = "intercept" /\ ~done /\ Waiting = {} /\ calls # <<>> /\ done'
      /\ UNCHANGED <<script, wire, ended, heard, calls>>
    BY DEF Continue
<1>2. heard # <<>>
    BY <1>1 DEF InterceptionInv
<1>3. Listed(out) /\ CallsAreTaken
    BY <1>1, <1>2 DEF InterceptionInv
<1>4. PICK events \in Continuations : out' = out \o events
    BY DEF Continue
<1>5. Listed(events)
  <2>1. CASE events = <<[type |-> "error"]>>
    <3>1. events \in Seq({[type |-> "error"]})
      BY <2>1
    <3> QED
      BY <3>1, SequenceIsList
  <2>2. ASSUME NEW kind, events = <<[type |-> "content_block_start", index |-> 0, kind |-> kind],
                                    [type |-> "content_block_stop", index |-> 0]>>
                                  \o <<[type |-> "message_delta"]>>
        PROVE  Listed(events)
    <3> DEFINE x == [type |-> "content_block_start", index |-> 0, kind |-> kind]
               y == [type |-> "content_block_stop", index |-> 0]
               z == [type |-> "message_delta"]
    <3>1. events = <<x, y>> \o <<z>>
      BY <2>2
    <3> HIDE DEF x, y, z
    <3>2. <<x, y>> \o <<z>> \in Seq({x, y, z})
      OBVIOUS
    <3> QED
      BY <3>1, <3>2, SequenceIsList
  <2> QED
    BY <2>1, <2>2 DEF Continuations
<1>6. Listed(out') /\ Len(out') = Len(out) + Len(events) /\ \A k \in 1..Len(out) : out'[k] = out[k]
  <2> DEFINE S == {out[i] : i \in DOMAIN out} \cup {events[i] : i \in DOMAIN events}
  <2>1. out \in Seq(S) /\ events \in Seq(S)
    <3>1. /\ out \in [1..Len(out) -> S] /\ events \in [1..Len(events) -> S]
          /\ Len(out) \in Nat /\ Len(events) \in Nat
      BY <1>3, <1>5 DEF Listed
    <3> QED
      BY <3>1
  <2> HIDE DEF S
  <2>2. out \o events \in Seq(S) /\ Len(out \o events) = Len(out) + Len(events)
        /\ \A k \in 1..Len(out) : (out \o events)[k] = out[k]
    BY <2>1
  <2> QED
    BY <1>4, <2>2, SequenceIsList
<1>7. DOMAIN out = 1..Len(out) /\ DOMAIN out' = 1..Len(out') /\ Len(out) \in Nat /\ Len(events) \in Nat
    BY <1>3, <1>5, <1>6 DEF Listed
<1>8. \A place \in DOMAIN out : place \in DOMAIN out' /\ out'[place] = out[place]
    BY <1>6, <1>7
<1>9. /\ Untouched' = Untouched /\ Complete' = Complete /\ Waiting' = Waiting
      /\ \A k : HeardEvent(k)' = HeardEvent(k)
  <2>1. \A k : HeardEvent(k)' = HeardEvent(k)
    BY <1>1 DEF HeardEvent
  <2>2. Tools' = Tools
    BY <1>1 DEF Tools, HeardOf, HeardEvent
  <2> QED
    BY <1>1, <2>1, <2>2 DEF Untouched, Complete, HeardOf, HeardEvent, Waiting
<1>10. \A k \in Untouched : LET place == Cardinality({j \in Untouched : j <= k})
                            IN  place \in DOMAIN out' /\ out'[place] = HeardEvent(k)
    BY <1>1, <1>2, <1>3, <1>8 DEF CallsAreTaken
<1>11. CallsAreTaken'
    BY <1>1, <1>2, <1>3, <1>9, <1>10 DEF CallsAreTaken
<1> QED
    BY <1>1, <1>2, <1>6, <1>11 DEF InterceptionInv

\* More bytes arrive, and nothing is looked at yet.
LEMMA ReadingKeeps ==
    ASSUME ScriptInv, InterceptionInv, handling = "intercept", Chunk
    PROVE  InterceptionInv'
<1>1. handling' = handling /\ ~done /\ wire # <<>> /\ UNCHANGED <<script, ended, calls, done>>
    BY DEF Chunk
<1>2. heard = <<>>
    BY <1>1 DEF InterceptionInv
<1>3. PICK m \in 1..MaxChunk :
         /\ m <= Len(wire)
         /\ heard' = heard \o <<>>
         /\ buf' = buf \o SubSeq(wire, 1, m)
         /\ wire' = SubSeq(wire, m + 1, Len(wire))
    BY DEF Chunk
<1>4. wire \in Seq(Byte) /\ buf \in Seq(Byte) /\ calls = <<>>
    BY <1>1, <1>2 DEF InterceptionInv
<1>5. PICK at : Layout(Joint(buf, wire), Len(buf), 1, Len(script), at)
    BY <1>1, <1>2 DEF InterceptionInv
<1>6. heard' = <<>>
  <2>1. <<>> \o <<>> = <<>>
    OBVIOUS
  <2> QED
    BY <1>2, <1>3, <2>1
<1>7. m \in 1..Len(wire)
    BY <1>3, <1>4, StreamsAssumption
<1>8. buf' = Joint(buf, SubSeq(wire, 1, m)) /\ wire' = After(wire, m)
    BY <1>3 DEF Joint, After
<1>9. /\ buf' \in Seq(Byte) /\ wire' \in Seq(Byte)
      /\ Len(buf) <= Len(buf') /\ Joint(buf', wire') = Joint(buf, wire)
    BY <1>4, <1>7, <1>8, Passed
<1>10. Layout(Joint(buf', wire'), Len(buf'), 1, Len(script'), at)
  <2>1. Len(buf) \in Nat /\ Len(buf') \in Nat
    BY <1>4, <1>9
  <2> QED
    BY <1>1, <1>5, <1>9, <2>1, LessExact
<1> QED
    BY <1>1, <1>4, <1>6, <1>9, <1>10 DEF InterceptionInv

LEMMA WritingGoesOn ==
    ASSUME ScriptInv, InterceptionInv, handling = "intercept", NEW event, NEW kind, Write(event, kind)
    PROVE  InterceptionInv'
<1> DEFINE N == Len(script)
<1>1. /\ handling' = handling /\ ended = "no" /\ UNCHANGED <<buf, heard, out, calls, done>>
      /\ wire' = Joint(wire, Bytes(N + 1))
    BY DEF Write, Joint
<1>2. heard = <<>>
    BY <1>1 DEF InterceptionInv
<1>3. N \in Nat /\ Len(script') = N + 1
    BY ScriptGrows
<1>4. CASE done
    BY <1>1, <1>2, <1>4 DEF InterceptionInv
<1>5. CASE ~done
  <2>1. calls = <<>> /\ wire \in Seq(Byte) /\ buf \in Seq(Byte)
    BY <1>2, <1>5 DEF InterceptionInv
  <2>2. PICK at : Layout(Joint(buf, wire), Len(buf), 1, N, at)
    BY <1>2, <1>5 DEF InterceptionInv
  <2> DEFINE M == N + 1
             further == [n \in 1..(M + 1) |-> IF n = M + 1 THEN at[M] + Size(M) ELSE at[n]]
  <2>3. wire' \in Seq(Byte) /\ Layout(Joint(buf, wire'), Len(buf), 1, M, further)
    BY <1>1, <2>1, <2>2, Appended
  <2> HIDE DEF further
  <2> QED
    BY <1>1, <1>2, <1>3, <1>5, <2>1, <2>3 DEF InterceptionInv
<1> QED
    BY <1>4, <1>5

LEMMA InterceptionStep ==
    ASSUME ParserInv, ScriptInv, IndexInv, InterceptionInv, [ExchangeNext]_<<vars, streamVars>>
    PROVE  InterceptionInv'
<1>1. CASE UNCHANGED streamVars
  <2>1. CallsAreTaken' = CallsAreTaken
    BY <1>1 DEF CallsAreTaken, Untouched, Complete, Tools, HeardOf, HeardEvent, Waiting, streamVars
  <2> QED
    BY <1>1, <2>1 DEF InterceptionInv, streamVars
<1>2. CASE StreamBegins
  <2>1. handling = "none" /\ handling' # "none" /\ UNCHANGED <<script, wire, buf, heard, calls, done>>
    BY <1>2 DEF StreamBegins, Receive, Handling
  <2>2. script' = <<>> /\ wire' = <<>> /\ buf' = <<>> /\ heard' = <<>> /\ calls' = <<>> /\ ~done'
    BY <2>1 DEF ParserInv, InterceptionInv
  <2>3. Len(script') = 0 /\ <<>> \in Seq(Byte)
    BY <2>2
  <2>4. \E at : Layout(Joint(<<>>, <<>>), Len(<<>>), 1, 0, at)
    BY NothingSent DEF Pending
  <2> QED
    BY <2>1, <2>2, <2>3, <2>4 DEF InterceptionInv
<1>3. CASE StreamNext
  <2>1. CASE handling = "none"
    <3>1. wire = <<>>
      BY <2>1 DEF ParserInv
    <3> QED
      BY <1>3, <2>1, <3>1
      DEF StreamNext, ProviderWrites, ProviderEnds, Chunk, TranslationEnds, Intercept, InterceptFails,
          ExecuteTool, Continue
  <2>2. CASE handling = "intercept"
    <3>1. CASE ProviderWrites
      <4>1. PICK event, kind : Write(event, kind)
        BY <3>1 DEF ProviderWrites
      <4> QED
        BY <2>2, <4>1, WritingGoesOn
    <3>2. CASE Chunk
      BY <2>2, <3>2, ReadingKeeps
    <3>3. CASE Intercept
      BY <3>3, InterceptKeeps
    <3>4. CASE ExecuteTool
      BY <3>4, AnsweringKeeps
    <3>5. CASE Continue
      BY <3>5, ContinuingKeeps
    <3>6. CASE ProviderEnds
      <4>1. heard = <<>> /\ UNCHANGED <<handling, script, wire, buf, heard, calls, done>>
        BY <2>2, <3>6 DEF ProviderEnds, InterceptionInv
      <4> QED
        BY <2>2, <4>1 DEF InterceptionInv
    <3>7. CASE InterceptFails
      BY <2>2, <3>7 DEF InterceptFails, InterceptionInv
    <3> QED
      BY <1>3, <2>2, <3>1, <3>2, <3>3, <3>4, <3>5, <3>6, <3>7 DEF StreamNext, TranslationEnds
  <2>3. CASE handling \notin {"none", "intercept"}
    <3>1. handling' = handling
      BY <1>3, <2>3
      DEF StreamNext, ProviderWrites, Write, ProviderEnds, Chunk, TranslationEnds, Intercept,
          InterceptFails, ExecuteTool, Continue
    <3> QED
      BY <2>3, <3>1 DEF InterceptionInv
  <2> QED
    BY <2>1, <2>2, <2>3
<1> QED
    BY <1>1, <1>2, <1>3 DEF ExchangeNext

\* Interception leaves no part of a call in what the client gets, takes nothing else away and
\* adds nothing until all calls are answered, and every call that was complete has one result,
\* in the order of the calls (SseRewriter::feed, process_with_tool_interception).
THEOREM CallsAreIntercepted == ExchangeSpec => []CallsAreTaken
<1> DEFINE I == ParserInv /\ ScriptInv /\ IndexInv /\ InterceptionInv
<1>1. ExchangeInit => I
  <2> SUFFICES ASSUME ExchangeInit PROVE I
    OBVIOUS
  <2>1. /\ handling = "none" /\ script = <<>> /\ wire = <<>> /\ buf = <<>> /\ heard = <<>>
        /\ calls = <<>> /\ ~done
    BY DEF ExchangeInit, StreamInit
  <2>2. \A n : n \notin 1..Len(script)
    BY <2>1
  <2> QED
    BY <2>1, <2>2, NothingWritten DEF ParserInv, IndexInv, InterceptionInv
<1>2. I /\ [ExchangeNext]_<<vars, streamVars>> => I'
    BY ParserStep, ScriptStep, IndexStep, InterceptionStep
<1>3. I => CallsAreTaken
    BY DEF InterceptionInv, CallsAreTaken
<1> QED
    BY <1>1, <1>2, <1>3, PTL DEF ExchangeSpec

================================================================================
