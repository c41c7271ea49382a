----------------------------- MODULE EndpointTest -----------------------------
(***************************************************************************)
(* "Test Providers" of the Config tab: a small request of CCR's own to a   *)
(* provider, put together apart from the requests of clients, and what the *)
(* user is told of the answers: endpoint.rs of ccr-app-core.  An answer is *)
(* an HTTP status and whether its text looks like events.                  *)
(***************************************************************************)
EXTENDS RequestMapping

DefaultEndpointTestModel(kind) ==
    CASE kind \in {"AnthropicMessages", "AnthropicCompatible"} -> "claude-sonnet-4-20250514"
      [] kind = "DeepSeek" -> "deepseek-chat"
      [] OTHER             -> "gpt-4o-mini"

\* The first model with a name, or one that the kind is known to have.
EndpointTestModel(p, kind) ==
    Head(SelectSeq(p.models, LAMBDA model : model # "") \o <<DefaultEndpointTestModel(kind)>>)

\* endpoint_test_request_with_api_key
EndpointTestRequest(p) ==
    LET kind   == ResolveProviderApiKind(p)
        mode   == Mode(kind)
        common == [model |-> EndpointTestModel(p, kind), stream |-> FALSE]
        test   == Text(<<0>>)
    IN  [mode |-> mode,
         auth |-> IF mode = "AnthropicMessages" THEN "x-api-key" ELSE "authorization",
         body |-> Joined(common,
                         IF mode = "OpenAiResponses"
                         THEN [input |-> test, max_output_tokens |-> 1]
                         ELSE [max_tokens |-> 1, messages |-> <<[role |-> "user", content |-> test]>>])]

\* What comes back: a status, or "timeout" or "broken".
Answers == [status : {"200", "401", "500", "timeout", "broken"}, events : BOOLEAN]

Succeeds(answer) == answer.status = "200"

\* Any answer that mentions "data:" or a "type" counts, whether it was streamed or not.
ResponseIndicatesStream(answer) == Succeeds(answer) /\ answer.events

EndpointStatusForSecretError(credential) ==
    IF credential = "missing" THEN "MissingCredential" ELSE "CredentialUnsupported"

Tested(status) == [status |-> status, stream |-> FALSE]

\* The second request, with stream, follows the first one's success.
CheckStreamEndpoint(p, answer) == p.credential = "found" /\ ResponseIndicatesStream(answer)

TestEndpoint(p, answer, streamed) ==
    IF p.url = "invalid" THEN Tested("InvalidUrl")
    ELSE IF p.credential # "found" THEN Tested(EndpointStatusForSecretError(p.credential))
    ELSE CASE answer.status = "timeout" -> Tested("Timeout")
           [] answer.status = "broken"  -> Tested("NetworkError")
           [] Succeeds(answer) -> [status |-> "Available", stream |-> CheckStreamEndpoint(p, streamed)]
           [] OTHER            -> Tested("HttpError")

\* test_providers does not try an empty URL.
TestProvider(p, answer, streamed) ==
    IF p.url = "" THEN Tested("InvalidUrl") ELSE TestEndpoint(p, answer, streamed)

CanBeAvailable(p) ==
    \E answer, streamed \in Answers : TestProvider(p, answer, streamed).status = "Available"
================================================================================
