----------------------------- MODULE MCServices ------------------------------
EXTENDS Services

(* an administrator and a viewer; requests that carry one or two tokens *)
MCLogins == {[key |-> "admin", via |-> "standard", ip |-> "a"],
             [key |-> "k", via |-> "embed", ip |-> "a"]}

MCArrivals == {
    [tokens |-> <<"old", "t1">>, via |-> "standard", op |-> "admin", ip |-> "b"],
    [tokens |-> <<"t1">>, via |-> "embed", op |-> "viewer", ip |-> "a"],
    [tokens |-> <<"t1">>, via |-> "embed", op |-> "logout", ip |-> "a"]}

(* events of a viewer, and of no key, model or credential that is known *)
MCUsageKinds == {[key |-> "k", model |-> "m", auth |-> "both"],
                 [key |-> "", model |-> "", auth |-> "lost"]}

(* responses that are timed, of two lengths, and one that is not *)
MCTimedKinds == {[key |-> "k", timed |-> TRUE, ms |-> 1], [key |-> "", timed |-> TRUE, ms |-> 6],
                 [key |-> "k", timed |-> FALSE, ms |-> 3]}
MCSamplePriority == <<2, 1, 3>>

(* from before the retention of the shortest grain to after the present *)
MCActivityOffsets == {-20, -8, -1, 1}
MCActivityKinds == {[key |-> "", failed |-> FALSE], [key |-> "k", failed |-> TRUE]}

MCLiveWindows == {[span |-> 1, aggregation |-> 2], [span |-> 2, aggregation |-> 3]}

(* known and unknown credentials; failed, not generated, and timed responses *)
MCLiveKinds == {
    [model |-> 1, key |-> 1, auth |-> 1, fallback |-> "file", label |-> 0,
     failed |-> FALSE, generate |-> TRUE, tokens |-> 2, ttft |-> 1, latency |-> 3],
    [model |-> 2, key |-> 2, auth |-> 0, fallback |-> "provider", label |-> 5,
     failed |-> FALSE, generate |-> TRUE, tokens |-> 2, ttft |-> 2, latency |-> 5],
    [model |-> 1, key |-> 2, auth |-> 9, fallback |-> "none", label |-> 0,
     failed |-> TRUE, generate |-> TRUE, tokens |-> 1, ttft |-> 1, latency |-> 4],
    [model |-> 3, key |-> 1, auth |-> 2, fallback |-> "none", label |-> 0,
     failed |-> FALSE, generate |-> FALSE, tokens |-> 1, ttft |-> 1, latency |-> 4]}

MCListKinds == {[key |-> "k", model |-> "m", auth |-> "x", failed |-> FALSE],
                [key |-> "", model |-> "", auth |-> "y", failed |-> TRUE]}

(* everything, and what only events of the first kind are *)
MCListFilters == {[key |-> "", model |-> "", auth |-> "", result |-> ""],
                  [key |-> "k", model |-> "m", auth |-> "x", result |-> "success"]}
MCQuotaResets == {-3, 0, 2}
MCUsageGroups == [g \in {"g"} |-> {"m"}]

(* prices of a unit of tokens *)
Amounts(i, o, r, w) == [s \in {"input", "output", "read", "write"} |->
    CASE s = "input" -> i [] s = "output" -> o [] s = "read" -> r [] s = "write" -> w]

(* prices that hold, one without a multiplier; of nothing; and below zero *)
MCPriceInputs == {
    [model |-> "m", prices |-> Amounts(2, 3, 1, 2), multiplier |-> <<>>],
    [model |-> "m", prices |-> Amounts(1, 0, 0, 1), multiplier |-> <<2>>],
    [model |-> "n", prices |-> Amounts(1, 1, 1, 1), multiplier |-> <<0>>],
    [model |-> "n", prices |-> Amounts(0, -1, 0, 0), multiplier |-> <<>>]}

PriceRule(f, v, n) == [field |-> f, value |-> v, multiplier |-> n]
(* a rule that changes nothing, two that are too much with the higher prices, *)
(* two of the same value                                                      *)
MCRuleInputs == {{},
    {PriceRule("tier", "t", 0), PriceRule("key", "k", 1)},
    {PriceRule("tier", "t", 2), PriceRule("key", "k", 4)},
    {PriceRule("model_alias", "n", 2), PriceRule("model_alias", "n", 3)}}

Dims(m, a, t, k) == [f \in {"model", "model_alias", "tier", "key"} |->
    CASE f = "model" -> m [] f = "model_alias" -> a [] f = "tier" -> t [] f = "key" -> k]

(* the third has less input than cache, the fourth is priced by its alias, of *)
(* the last only the total was counted *)
MCPricedKinds == {
    [dims |-> Dims("m", "n", "t", "k"), tokens |-> Amounts(2, 1, 1, 1), total |-> 3],
    [dims |-> Dims("m", "n", "", ""), tokens |-> Amounts(1, 2, 1, 0), total |-> 3],
    [dims |-> Dims("m", "n", "t", ""), tokens |-> Amounts(0, 0, 2, 0), total |-> 0],
    [dims |-> Dims("x", "n", "t", ""), tokens |-> Amounts(2, 0, 0, 0), total |-> 2],
    [dims |-> Dims("x", "n", "t", ""), tokens |-> Amounts(0, 0, 0, 0), total |-> 1]}

Name(p, w, m, u) == [prefix |-> p, word |-> w, marks |-> m, upper |-> u]
MCUsedNames == {Name("", "gpt", TRUE, FALSE), Name("vendor", "gpt", TRUE, FALSE),
                Name("", "glm", FALSE, TRUE)}

Offer(provider, id, name, in, out, read, updated, deprecated) ==
    [provider |-> provider, id |-> id, name |-> name, input |-> in, output |-> out,
     read |-> read, updated |-> updated, deprecated |-> deprecated]

(* without a price, of a plan, and with one that is below zero among them *)
MCOffers == {
    Offer("openai", Name("", "gpt", TRUE, FALSE), Name("", "gpt", FALSE, TRUE), <<1>>, <<>>, <<>>, 2, FALSE),
    Offer("reseller", Name("x", "gpt", TRUE, FALSE), Unnamed, <<2>>, <<2>>, <<>>, 1, FALSE),
    Offer("reseller", Name("", "gpt", FALSE, FALSE), Unnamed, <<3>>, <<2>>, <<1>>, 3, TRUE),
    Offer("glm-plan", Name("", "glm", TRUE, FALSE), Name("", "glm", FALSE, FALSE), <<0>>, <<0>>, <<0>>, 3, FALSE),
    Offer("openai", Name("y", "glm", FALSE, TRUE), Unnamed, <<2>>, <<2>>, <<>>, 1, FALSE),
    Offer("zai", Name("", "glm", FALSE, FALSE), Unnamed, <<1>>, <<1>>, <<-1>>, 1, FALSE)}
MCPublicCatalogs == SUBSET MCOffers
MCFamilyOf == [w \in {"gpt", "glm"} |-> IF w = "gpt" THEN "openai" ELSE "glm"]
MCOfficials == [f \in {"openai", "glm"} |-> IF f = "openai" THEN <<"openai">> ELSE <<"zai", "glm-plan">>]
MCProviderOrder == <<"openai", "zai">>

(* up to the largest number, and below zero where a handler asks for that *)
MCRawCounts == [input: {-1, 0, 1, 3}, output: {0, 1, 3}, reasoning: {-1, 0, 1}, cached: {0, 1},
                read: {-1, 0, 1}, creation: {0, 1}, total: {-1, 0, 1, 2, 3}, present: BOOLEAN]
=============================================================================
