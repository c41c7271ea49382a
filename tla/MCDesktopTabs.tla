----------------------------- MODULE MCDesktopTabs -----------------------------
(***************************************************************************)
(* Two providers: one whose kind the file does not say, and one whose kind *)
(* is not the one that its URL suggests.  A pool of two routes of the same *)
(* priority, which the server would take in the other order, one of them   *)
(* with white space in front, and with limits that are out of range.  The  *)
(* default configuration has no pool.  A provider that is added has no     *)
(* name at first, and its route, which is blank, can be put into the pool. *)
(***************************************************************************)
EXTENDS DesktopTabs

mcOrder == <<"", " openai", "anthropic", "claude-sonnet-4", "gpt-5", "openai">>
mcNames == ToSet(mcOrder)

\* The routes that name a model.  A blank comes before a comma.
mcWith(p)  == [i \in DOMAIN mcOrder |-> <<p, mcOrder[i]>>]
mcAlphabet ==
    <<<<"">>, <<" openai">>>> \o mcWith(" openai") \o mcWith("") \o <<<<"anthropic">>>> \o mcWith("anthropic")
    \o <<<<"claude-sonnet-4">>>> \o mcWith("claude-sonnet-4") \o <<<<"gpt-5">>>> \o mcWith("gpt-5")
    \o <<<<"openai">>>> \o mcWith("openai")

mcRank == [r \in Routes |-> CHOOSE i \in DOMAIN mcAlphabet : mcAlphabet[i] = r]

mcTrim == [r \in Routes |-> IF r[1] = " openai" THEN [r EXCEPT ![1] = "openai"] ELSE r]

mcProviders ==
    <<Provider("openai", {"/responses"}, <<>>, "none", "inferred", <<"gpt-5">>),
      Provider("anthropic", {"/v1/messages", "anthropic"}, <<>>, "OpenAiChat", "explicit", <<>>)>>

mcConfig(pool) == [providers |-> mcProviders, pool |-> pool, port |-> 0, admin |-> TRUE]

mcLimits == [failure_threshold |-> 0, ban_seconds |-> 604800]
mcPool  == Pool(TRUE, mcLimits, <<Candidate(<<"anthropic">>, TRUE, 5), Candidate(<<" openai">>, TRUE, 5)>>)
mcFiles == {mcConfig(<<mcPool>>)}
mcTexts == {<<"anthropic", {"/chat/completions", "anthropic"}>>}
mcProfiles == {p \in BuiltinProfiles : p.providers[1].models = <<"claude-sonnet-4">>}
================================================================================
