------------------------------- MODULE MCExchange -------------------------------
(***************************************************************************)
(* Instances of Exchange: providers of every kind, with each transformer,  *)
(* and the ways in which the clients differ in what they ask for.          *)
(***************************************************************************)
EXTENDS Exchange

Provider(words, api_kind, use) ==
    [words |-> words, api_kind |-> api_kind, use |-> use, credential |-> "found", url |-> "given",
     models |-> <<"m">>, route |-> [model |-> ""]]

MCProviders ==
    { Provider({"claude"}, "none", <<>>),
      Provider({"claude"}, "none", <<"forcereasoning">>),
      Provider({"claude"}, "AnthropicCompatible", <<"vertex-claude", "maxcompletiontokens">>),
      Provider({}, "Custom", <<"gemini">>),
      Provider({}, "none", <<"vertex-gemini">>),
      Provider({"/chat/completions"}, "none", <<"tooluse", "cerebras">>),
      Provider({"/chat/completions"}, "none", <<"openai", "vertex-claude">>),
      Provider({"/responses"}, "none", <<"openai", "streamoptions">>),
      Provider({"/responses"}, "none", <<>>),
      Provider({}, "none", <<"DeepSeek", "maxtoken">>),
      Provider({}, "none", <<"deepseek", "tooluse", "tooluse", "reasoning">>),
      Provider({"openrouter"}, "none", <<"vercel">>),
      Provider({}, "none", <<"groq", "unknown">>),
      [Provider({"groq"}, "none", <<"openrouter">>) EXCEPT !.models = <<"m", "n">>],
      [Provider({"vercel"}, "none", <<>>) EXCEPT !.models = <<"m", "n">>, !.route.model = "n"],
      [Provider({}, "OpenAiChat", <<>>) EXCEPT !.credential = "missing"] }

Claude1 == [model |-> "", system |-> Odd, tools |-> "null", max_tokens |-> Null,
            stream |-> FALSE, thinking |-> "null"]

MCClaudeOptions ==
    { Claude1,
      [Claude1 EXCEPT !.stream = TRUE, !.tools = "claude", !.system = Text(<<Word("prompt", 0)>>)],
      [Claude1 EXCEPT !.model = "claude", !.max_tokens = 10000, !.thinking = "enabled",
          !.system = Blocks([i \in 1..2 |-> [type |-> "text", text |-> <<Word("prompt", i)>>]])] }

MCCodexOptions ==
    [form : {"items", "messages", "text", "state"}, stream : BOOLEAN]
    \cup {[form |-> "none", stream |-> TRUE],
          [form |-> "state", stream |-> FALSE, previous_response_id |-> "r"],
          [form |-> "items", stream |-> TRUE, model |-> "gpt", max_output_tokens |-> 10000]}

================================================================================
