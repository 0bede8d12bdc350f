---------------------------- MODULE TokenProcessor ----------------------------
(* The token counts of an event are made comparable before they are stored:   *)
(* executors differ in whether the input includes what was read from and      *)
(* written to the cache, whether the output includes the reasoning, and which *)
(* fields they fill at all. Afterwards input includes cache, output includes  *)
(* reasoning, and the total is their sum; what cannot be told is left alone.  *)
EXTENDS Integers

CONSTANTS MaxTokens,     \* the largest number an int64 holds
          RawCounts      \* what may be reported: records of the fields below

VARIABLES tokenEvent,    \* what was processed: [raw, resolution]
          tokenResult    \* and what was made of it

processorVars == <<tokenEvent, tokenResult>>

TokenCounts(S) == [input: S, output: S, reasoning: S, cached: S, read: S, creation: S,
                   total: S, present: BOOLEAN]

Fits(n) == n <= MaxTokens

ASSUME TokenAssumption == /\ MaxTokens \in Nat
                          /\ RawCounts \subseteq TokenCounts({n \in Int : Fits(n)})

-----------------------------------------------------------------------------
(* Which handler: by the executor, which is certain, or by the identity of    *)
(* the credential, which is a hint                                            *)

Handlers == [claude |-> "claude", gemini |-> "gemini", codex |-> "responses",
             xai |-> "responses", kimi |-> "strict", openai |-> "openai"]

Resolve(executor, identity) ==
    [handler |-> CASE executor \in DOMAIN Handlers -> Handlers[executor]
                   [] executor \notin DOMAIN Handlers /\ identity \in DOMAIN Handlers ->
                          Handlers[identity]
                   [] OTHER -> "strict",
     contract |-> executor \in DOMAIN Handlers,
     codex |-> executor = "codex"]

-----------------------------------------------------------------------------
(* Handlers: v are the counts with negative ones set to zero, lost the names  *)
(* of those; the result has the counts, who decides on the total, and what    *)
(* was done and found wrong                                                   *)

Handled(v, authority, actions, violations) ==
    [tokens |-> v, authority |-> authority, actions |-> actions, violations |-> violations]

Lost(lost, names) == lost \cap names # {}

(* reads that are reported in the older field only *)
CacheReadAlias(v, lost, r) ==
    IF "read" \in lost
    THEN Handled(v, "", {}, IF v.cached > 0 THEN {"ambiguous"} ELSE {})
    ELSE IF (v.present /\ r.contract) \/ v.read # 0 \/ v.cached <= 0
    THEN Handled(v, "", {}, {})
    ELSE Handled([v EXCEPT !.read = v.cached], "", {"compatibility"}, {})

(* older Claude events whose total leaves out the cache *)
LegacyMissingCache(v, lost) ==
    /\ ~Lost(lost, {"input", "output", "read", "creation", "total"})
    /\ v.read + v.creation > 0 /\ v.input + v.output = v.total
    /\ Fits(v.input + v.read + v.creation + v.output)

Claude(v, lost, r) ==
    LET input == v.input + v.read + v.creation
        guess == Lost(lost, {"input", "read", "creation"})
        fold == ~guess /\ Fits(input)
        conflict == r.contract /\ v.cached > 0 /\ v.read > 0 /\ v.cached # v.read
    IN Handled([v EXCEPT !.input = IF fold THEN input ELSE @, !.cached = v.read],
               IF ~guess /\ ~fold THEN "preserve"
               ELSE IF fold /\ (r.contract \/ LegacyMissingCache(v, lost)) THEN "canonical"
               ELSE "zeroOnly",
               IF (fold /\ input # v.input) \/ v.cached # v.read THEN {"normalized"} ELSE {},
               (IF guess \/ conflict THEN {"ambiguous"} ELSE {})
                 \cup (IF ~guess /\ ~fold THEN {"overflow"} ELSE {}))

(* older Codex events that have nothing but cached tokens *)
LegacyCachedOnly(v, lost, r) ==
    /\ r.contract /\ r.codex /\ lost = {}
    /\ v.input = 0 /\ v.output = 0 /\ v.reasoning = 0
    /\ v.cached > 0 /\ v.read = 0 /\ v.creation = 0 /\ v.total = v.cached

Components == {"input", "output", "reasoning", "read", "creation"}

Responses(v, lost, r) ==
    LET alias == CacheReadAlias(v, lost, r)
    IN [alias EXCEPT !.authority =
           IF LegacyCachedOnly(v, lost, r) THEN "preserve"
           ELSE IF alias.violations = {} /\ r.contract /\ ~Lost(lost, Components)
           THEN "canonical" ELSE "zeroOnly"]

(* the total tells whether the output is without the reasoning *)
Separated(v) == /\ v.input + v.output # v.total
                /\ v.input + v.output + v.reasoning = v.total
SeparatedOverflows(v) ==
    \/ ~Fits(v.input + v.output)
    \/ v.input + v.output # v.total /\ ~Fits(v.input + v.output + v.reasoning)

Undecided(lost) == Lost(lost, {"input", "output", "reasoning", "total"})

Fold(handled, action) ==
    LET output == handled.tokens.output + handled.tokens.reasoning
    IN IF Fits(output)
       THEN [handled EXCEPT !.tokens.output = output, !.actions = @ \cup {action}]
       ELSE [handled EXCEPT !.violations = @ \cup {"overflow"}]

(* the reasoning of a credential that is said to be Gemini's; 0 is no total    *)
GeminiHintFolds(v, lost) ==
    /\ ~Undecided(lost)
    /\ \/ v.total = 0
       \/ ~SeparatedOverflows(v) /\ Separated(v)

Gemini(v, lost, r) ==
    LET alias == CacheReadAlias(v, lost, r)
        guess == Lost(lost, {"output", "reasoning"})
        folds == ~guess /\ v.reasoning > 0 /\ (r.contract \/ GeminiHintFolds(v, lost))
        asked == ~r.contract /\ ~Undecided(lost) /\ v.reasoning > 0 /\ v.total # 0
        handled == Handled(alias.tokens,
                       IF folds /\ ~Fits(v.output + v.reasoning) THEN "preserve"
                       ELSE IF /\ r.contract /\ alias.violations = {}
                               /\ ~Lost(lost, Components)
                       THEN "canonical" ELSE "zeroOnly",
                       alias.actions,
                       alias.violations
                         \cup (IF guess \/ (~r.contract /\ Undecided(lost))
                               THEN {"ambiguous"} ELSE {})
                         \cup (IF asked /\ SeparatedOverflows(v) THEN {"overflow"} ELSE {}))
    IN IF folds THEN Fold(handled, "normalized") ELSE handled

StrictPassThrough(v, lost, r) == [CacheReadAlias(v, lost, r) EXCEPT !.authority = "zeroOnly"]

(* the same for providers that speak the language of OpenAI in their own way  *)
OpenAICompatibility(v, lost, r) ==
    LET alias == StrictPassThrough(v, lost, r)
        asked == ~Undecided(lost) /\ v.reasoning > 0 /\ v.total > 0
        handled == [alias EXCEPT !.violations = @
                       \cup (IF Undecided(lost) THEN {"ambiguous"} ELSE {})
                       \cup (IF asked /\ SeparatedOverflows(v) THEN {"overflow"} ELSE {})]
    IN IF asked /\ ~SeparatedOverflows(v) /\ Separated(v) THEN Fold(handled, "compatibility")
       ELSE handled

Normalize(v, lost, r) ==
    CASE r.handler = "claude" -> Claude(v, lost, r)
      [] r.handler = "gemini" -> Gemini(v, lost, r)
      [] r.handler = "responses" -> Responses(v, lost, r)
      [] r.handler = "openai" -> OpenAICompatibility(v, lost, r)
      [] OTHER -> StrictPassThrough(v, lost, r)

-----------------------------------------------------------------------------
(* The total                                                                 *)

WithTotal(h, total, action) ==
    [h EXCEPT !.tokens.total = total, !.actions = @ \cup {action}]
WithViolations(h, violations) == [h EXCEPT !.violations = @ \cup violations]

(* a total of zero is filled in, any other one is only compared *)
ZeroOnlyTotal(h, lost, r) ==
    LET t == h.tokens
        sum == t.input + t.output
    IN IF t.total # 0
       THEN IF r.handler = "strict" \/ sum = t.total THEN h
            ELSE WithViolations(h, {IF Fits(sum) THEN "ambiguous" ELSE "overflow"})
       ELSE IF Lost(lost, {"input", "output", "total"}) THEN WithViolations(h, {"ambiguous"})
       ELSE IF ~Fits(sum) THEN WithViolations(h, {"overflow"})
       ELSE IF sum > 0 THEN WithTotal(h, sum, "compatibility")
       ELSE IF t.read > 0 THEN WithTotal(h, t.read, "compatibility")
       ELSE h

CanonicalTotal(h, lost, r) ==
    LET t == h.tokens
        sum == t.input + t.output
        wrong == IF ~Fits(t.read + t.creation) THEN {"overflow"}
                 ELSE IF t.input < t.read + t.creation \/ t.output < t.reasoning
                 THEN {"inconsistent"} ELSE {}
    IN IF Lost(lost, Components \cup {"total"}) THEN WithViolations(h, {"ambiguous"})
       ELSE IF wrong # {}
       THEN IF t.total # 0 THEN WithViolations(h, wrong)
            ELSE ZeroOnlyTotal(WithViolations(h, wrong), lost, r)
       ELSE IF ~Fits(sum) THEN WithViolations(h, {"overflow"})
       ELSE IF t.total = sum THEN h
       ELSE WithTotal(h, sum, IF t.total = 0 THEN "compatibility" ELSE "corrected")

FinalTotal(h, lost, r) ==
    CASE h.authority = "canonical" -> CanonicalTotal(h, lost, r)
      [] h.authority = "zeroOnly" -> ZeroOnlyTotal(h, lost, r)
      [] OTHER -> h

-----------------------------------------------------------------------------
AtLeastZero(n) == IF n < 0 THEN 0 ELSE n

NonNegative(raw) ==
    [input |-> AtLeastZero(raw.input), output |-> AtLeastZero(raw.output),
     reasoning |-> AtLeastZero(raw.reasoning), cached |-> AtLeastZero(raw.cached),
     read |-> AtLeastZero(raw.read), creation |-> AtLeastZero(raw.creation),
     total |-> AtLeastZero(raw.total), present |-> raw.present]

Negatives(raw) ==
    (IF raw.input < 0 THEN {"input"} ELSE {}) \cup (IF raw.output < 0 THEN {"output"} ELSE {})
      \cup (IF raw.reasoning < 0 THEN {"reasoning"} ELSE {})
      \cup (IF raw.cached < 0 THEN {"cached"} ELSE {}) \cup (IF raw.read < 0 THEN {"read"} ELSE {})
      \cup (IF raw.creation < 0 THEN {"creation"} ELSE {})
      \cup (IF raw.total < 0 THEN {"total"} ELSE {})

(* what is wrong comes before what was done *)
Outcome(h, lost) ==
    CASE "overflow" \in h.violations -> "overflow"
      [] "overflow" \notin h.violations /\ h.violations # {} -> "ambiguous"
      [] h.violations = {} /\ (lost # {} \/ "corrected" \in h.actions) -> "corrected"
      [] h.violations = {} /\ lost = {} /\ "corrected" \notin h.actions ->
             IF "compatibility" \in h.actions THEN "compatibility"
             ELSE IF "normalized" \in h.actions THEN "normalized" ELSE "valid"

Process(raw, r) ==
    LET lost == Negatives(raw)
        h == FinalTotal(Normalize(NonNegative(raw), lost, r), lost, r)
    IN [tokens |-> h.tokens, outcome |-> Outcome(h, lost)]

ProcessorInit == tokenEvent = <<>> /\ tokenResult = <<>>

ProcessEvent ==
    /\ tokenEvent = <<>>
    /\ \E raw \in RawCounts, executor, identity \in DOMAIN Handlers \cup {"unknown"} :
        LET r == Resolve(executor, identity) IN
        /\ identity # "unknown" => executor = "unknown"
        /\ tokenEvent' = <<[raw |-> raw, resolution |-> r]>>
        /\ tokenResult' = <<Process(raw, r)>>

ProcessorSpec == ProcessorInit /\ [][ProcessEvent]_processorVars

-----------------------------------------------------------------------------
(* What is stored of an event can be counted, and nothing is taken away.      *)
Countable(raw, result) ==
    LET v == NonNegative(raw)
        t == result.tokens
    IN /\ t \in TokenCounts(0 .. MaxTokens)
       /\ v.input <= t.input /\ v.output <= t.output /\ v.reasoning = t.reasoning
       /\ v.read <= t.read /\ v.creation = t.creation

(* Nobody looks at these events any more.                                     *)
Unremarkable(result) == result.outcome \notin {"ambiguous", "overflow"}

(* Their total is the sum of input and output, unless nothing is known of the *)
(* executor, or there are only reads from the cache.                          *)
TotalIsSum(raw, r, result) ==
    LET t == result.tokens
    IN Unremarkable(result) =>
         \/ t.total = t.input + t.output
         \/ r.handler = "strict" /\ t.total = raw.total
         \/ t.input = 0 /\ t.output = 0 /\ t.total = t.read
         \/ LegacyCachedOnly(NonNegative(raw), Negatives(raw), r) /\ t.total = raw.total

(* Of an executor that is known the input includes the cache and the output   *)
(* the reasoning.                                                             *)
KnownIsCanonical(raw, r, result) ==
    LET t == result.tokens
    IN Unremarkable(result) /\ r.contract /\ r.handler \in {"claude", "gemini", "responses"}
       /\ Negatives(raw) = {} /\ ~LegacyCachedOnly(raw, {}, r) =>
         t.read + t.creation <= t.input /\ t.reasoning <= t.output

(* A total that was reported gives way to the sum alone, and only to that of  *)
(* an executor that is known or of an older Claude event; what is a hint only *)
(* and adds up stays as it is.                                                *)
ReportedIsKept(raw, r, result) ==
    LET t == result.tokens
    IN /\ raw.total > 0 /\ t.total # raw.total =>
             /\ t.total = t.input + t.output
             /\ \/ r.contract /\ r.handler \in {"claude", "gemini", "responses"}
                \/ r.handler = "claude" /\ raw.total < t.total
       /\ ~r.contract /\ r.handler # "claude" /\ Negatives(raw) = {}
          /\ raw.total > 0 /\ raw.input + raw.output = raw.total =>
             t.input = raw.input /\ t.output = raw.output /\ t.total = raw.total

(* All of it, of every event.                                                 *)
TokensAddUp ==
    tokenEvent # <<>> =>
        LET raw == tokenEvent[1].raw
            r == tokenEvent[1].resolution
            result == tokenResult[1]
        IN /\ Countable(raw, result) /\ TotalIsSum(raw, r, result)
           /\ KnownIsCanonical(raw, r, result) /\ ReportedIsKept(raw, r, result)
=============================================================================
