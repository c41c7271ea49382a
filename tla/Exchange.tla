--------------------------------- MODULE Exchange ---------------------------------
(***************************************************************************)
(* A request and its answer: the handlers of /v1/messages and              *)
(* /v1/responses in main.rs.  Gateway has the requests, and the answers as *)
(* a whole; where an answer is a stream that the server works on, Streams  *)
(* has the rest of the exchange, event by event.                           *)
(***************************************************************************)
EXTENDS Gateway, Streams

\* Interception is for the requests that the agent has changed, translation for Responses
\* clients of providers with the protocol of Claude or without a known one; other streams
\* are passed on as they are.
Handling ==
    CASE Claude /\ AgentHandles([messages |-> messages]) -> "intercept"
      [] ~Claude /\ sent.mode \in {"AnthropicMessages", "BasicPost"} -> "translate"
      [] OTHER -> "pass"

ExchangeInit == Init /\ StreamInit

\* The exchange is followed to the end of its answer; the conversation is of no further use.
StreamBegins ==
    /\ turn = "provider" /\ sent.stream /\ Handling # "pass"
    /\ Receive(Handling)
    /\ messages' = <<>> /\ told' = Told /\ turn' = "stream" /\ sent' = NoRequest
    /\ UNCHANGED inbound

ExchangeNext ==
    \/ Next /\ UNCHANGED streamVars
    \/ StreamBegins
    \/ StreamNext /\ UNCHANGED vars

ExchangeSpec == ExchangeInit /\ [][ExchangeNext]_<<vars, streamVars>>

================================================================================
