-------------------------- MODULE BackgroundProofs --------------------------
(* What holds of the parts that work in the background, for any number of     *)
(* reports, files, events and snapshots: the counts of tokens of an event,    *)
(* the community ranking, the error events, the backups, the headers of       *)
(* quotas, the limit on logins, the local ranking and the preview of prices.  *)
(* Each is alone here; ServicesProofs has them beside the others.             *)
EXTENDS TokenProcessor, Ranking, ErrorEvents, Backups, HeaderSnapshots, LoginLimiter,
        LocalRanking, PricingSync, FiniteSetTheorems, WellFoundedInduction, TLAPS

-----------------------------------------------------------------------------
(* The counts of tokens, whatever was reported of an event, whoever reported  *)
(* it, and however large a number may be.                                     *)

Reported == TokenCounts({n \in Int : Fits(n)})
Stored == TokenCounts(0 .. MaxTokens)
Authorities == {"canonical", "zeroOnly", "preserve"}

Contracted == {"claude", "gemini", "responses"}
Actions == {"compatibility", "normalized", "corrected"}
Violations == {"ambiguous", "overflow", "inconsistent"}
Handlings == [tokens: Stored, authority: Authorities \cup {""}, actions: SUBSET Actions,
              violations: SUBSET Violations]

(* what every handler leaves alone, and what it may add to *)
KeepsCounts(v, t) ==
    /\ t.total = v.total /\ t.reasoning = v.reasoning /\ t.creation = v.creation
    /\ v.input <= t.input /\ v.output <= t.output /\ v.read <= t.read

(* what the reconciliation of the total relies on: who may set it, and when   *)
(* counts stay as they are                                                    *)
HandledRight(v, lost, r, h) ==
    /\ h \in Handlings /\ KeepsCounts(v, h.tokens) /\ h.authority \in Authorities
    /\ h.authority = "preserve" => h.violations # {} \/ LegacyCachedOnly(v, lost, r)
    /\ h.authority = "canonical" =>
         \/ r.contract /\ r.handler \in Contracted
         \/ r.handler = "claude" /\ v.total < h.tokens.input + h.tokens.output
    /\ r.contract /\ r.handler \in Contracted /\ lost = {} /\ h.violations = {} =>
         h.authority = "canonical" \/ LegacyCachedOnly(v, lost, r)
    /\ ~r.contract /\ r.handler # "claude" /\ lost = {}
       /\ v.total > 0 /\ v.input + v.output = v.total =>
         h.tokens.input = v.input /\ h.tokens.output = v.output

Resolutions == [handler: Contracted \cup {"strict", "openai"}, contract: BOOLEAN, codex: BOOLEAN]

(* what reading the older field for the newer one relies on                  *)
AliasRight(v, lost, h) ==
    /\ h \in Handlings /\ h.authority = ""
    /\ KeepsCounts(v, h.tokens)
    /\ h.tokens.input = v.input /\ h.tokens.output = v.output
    /\ "read" \notin lost => h.violations = {}

-----------------------------------------------------------------------------
(* The counts without the negative ones                                      *)

\* There is a largest number.
LEMMA LargestNumber == MaxTokens \in Nat
BY TokenAssumption, Zenon DEF TokenAssumption

\* Negative counts become zero, the others stay.
LEMMA NonNegativeCounts ==
    ASSUME NEW raw \in Reported
    PROVE  /\ NonNegative(raw) \in Stored
           /\ IF raw.total > 0 THEN NonNegative(raw).total = raw.total
                               ELSE NonNegative(raw).total = 0
           /\ Negatives(raw) = {} => NonNegative(raw) = raw
<1> DEFINE v == NonNegative(raw)
<1>1. /\ raw = [input |-> raw.input, output |-> raw.output, reasoning |-> raw.reasoning,
                cached |-> raw.cached, read |-> raw.read, creation |-> raw.creation,
                total |-> raw.total, present |-> raw.present]
      /\ raw.input \in Int /\ raw.output \in Int /\ raw.reasoning \in Int /\ raw.cached \in Int
      /\ raw.read \in Int /\ raw.creation \in Int /\ raw.total \in Int /\ raw.present \in BOOLEAN
      /\ raw.input <= MaxTokens /\ raw.output <= MaxTokens /\ raw.reasoning <= MaxTokens
      /\ raw.cached <= MaxTokens /\ raw.read <= MaxTokens /\ raw.creation <= MaxTokens
      /\ raw.total <= MaxTokens
  BY DEF Reported, TokenCounts, Fits
<1>2. \A n \in Int : n <= MaxTokens => AtLeastZero(n) \in 0 .. MaxTokens
  BY LargestNumber DEF AtLeastZero
<1>3. v \in Stored
  BY <1>1, <1>2 DEF NonNegative, Stored, TokenCounts
<1>4. IF raw.total > 0 THEN v.total = raw.total ELSE v.total = 0
  BY <1>1 DEF NonNegative, AtLeastZero
<1>5. ASSUME Negatives(raw) = {} PROVE v = raw
  <2>1. /\ raw.input >= 0 /\ raw.output >= 0 /\ raw.reasoning >= 0 /\ raw.cached >= 0
        /\ raw.read >= 0 /\ raw.creation >= 0 /\ raw.total >= 0
    BY <1>1, <1>5 DEF Negatives
  <2>2. \A n \in Int : n >= 0 => AtLeastZero(n) = n
    BY DEF AtLeastZero
  <2> QED BY <1>1, <2>1, <2>2 DEF NonNegative
<1> QED BY <1>3, <1>4, <1>5

-----------------------------------------------------------------------------
(* The handlers                                                              *)

\* Every event has a handler.
LEMMA ResolutionType ==
    ASSUME NEW executor, NEW identity
    PROVE  Resolve(executor, identity) \in Resolutions
<1> DEFINE hint == IF identity \in DOMAIN Handlers THEN Handlers[identity] ELSE "strict"
           handler == IF executor \in DOMAIN Handlers THEN Handlers[executor] ELSE hint
           r == Resolve(executor, identity)
<1>1. \A e \in DOMAIN Handlers : Handlers[e] \in Contracted \cup {"strict", "openai"}
  BY DEF Handlers, Contracted
<1>2. r = [handler |-> handler, contract |-> executor \in DOMAIN Handlers,
           codex |-> executor = "codex"]
  BY Zenon DEF Resolve
<1>3. handler \in Contracted \cup {"strict", "openai"}
  BY <1>1, Zenon
<1> HIDE DEF handler, r
<1>4. r \in Resolutions
  BY <1>2, <1>3 DEF Resolutions
<1> QED BY <1>4 DEF r

\* Reads are taken from the older field only where there are none.
LEMMA AliasKeeps ==
    ASSUME NEW v \in Stored, NEW lost, NEW r \in Resolutions
    PROVE  AliasRight(v, lost, CacheReadAlias(v, lost, r))
<1> DEFINE h == CacheReadAlias(v, lost, r)
           w == [v EXCEPT !.read = v.cached]
<1>1. /\ v.input \in Int /\ v.output \in Int /\ v.read \in 0 .. MaxTokens
      /\ v.cached \in 0 .. MaxTokens
  BY LargestNumber DEF Stored, TokenCounts
<1>2. /\ w \in Stored /\ w.input = v.input /\ w.output = v.output /\ w.reasoning = v.reasoning
      /\ w.creation = v.creation /\ w.total = v.total /\ w.read = v.cached
  BY <1>1 DEF Stored, TokenCounts
<1>3. h = IF "read" \in lost
          THEN Handled(v, "", {}, IF v.cached > 0 THEN {"ambiguous"} ELSE {})
          ELSE IF (v.present /\ r.contract) \/ v.read # 0 \/ v.cached <= 0
          THEN Handled(v, "", {}, {})
          ELSE Handled(w, "", {"compatibility"}, {})
  BY Zenon DEF CacheReadAlias
<1> HIDE DEF h, w
<1> SUFFICES AliasRight(v, lost, h)
  BY DEF h
<1>4. KeepsCounts(v, v) /\ (v.read = 0 => KeepsCounts(v, w))
  BY <1>1, <1>2 DEF KeepsCounts
<1>5. CASE "read" \in lost
  <2>1. PICK vs \in {{}, {"ambiguous"}} : h = Handled(v, "", {}, vs)
    BY <1>3, <1>5
  <2>2. h \in Handlings /\ h.authority = "" /\ h.tokens = v
    BY <2>1 DEF Handled, Handlings, Actions, Violations
  <2> QED BY <1>4, <1>5, <2>2, Zenon DEF AliasRight
<1>6. CASE "read" \notin lost /\ ((v.present /\ r.contract) \/ v.read # 0 \/ v.cached <= 0)
  <2>1. h = Handled(v, "", {}, {})
    BY <1>3, <1>6, Zenon
  <2>2. h \in Handlings /\ h.authority = "" /\ h.tokens = v /\ h.violations = {}
    BY <2>1 DEF Handled, Handlings, Actions, Violations
  <2> QED BY <1>4, <2>2 DEF AliasRight
<1>7. CASE "read" \notin lost /\ ~((v.present /\ r.contract) \/ v.read # 0 \/ v.cached <= 0)
  <2>1. h = Handled(w, "", {"compatibility"}, {})
    BY <1>3, <1>7, Zenon
  <2>2. h \in Handlings /\ h.authority = "" /\ h.tokens = w /\ h.violations = {}
    BY <1>2, <2>1 DEF Handled, Handlings, Actions, Violations
  <2> QED BY <1>2, <1>4, <1>7, <2>2, Zenon DEF AliasRight
<1> QED BY <1>5, <1>6, <1>7

\* What is stored are numbers that fit.
LEMMA StoredParts ==
    ASSUME NEW v \in Stored
    PROVE  /\ v.input \in 0 .. MaxTokens /\ v.output \in 0 .. MaxTokens
           /\ v.reasoning \in 0 .. MaxTokens /\ v.cached \in 0 .. MaxTokens
           /\ v.read \in 0 .. MaxTokens /\ v.creation \in 0 .. MaxTokens
           /\ v.total \in 0 .. MaxTokens /\ v.present \in BOOLEAN
           /\ v.input \in Nat /\ v.output \in Nat /\ v.reasoning \in Nat /\ v.cached \in Nat
           /\ v.read \in Nat /\ v.creation \in Nat /\ v.total \in Nat
           /\ v.input <= MaxTokens /\ v.output <= MaxTokens /\ v.total <= MaxTokens
<1>1. /\ v.input \in 0 .. MaxTokens /\ v.output \in 0 .. MaxTokens
      /\ v.reasoning \in 0 .. MaxTokens /\ v.cached \in 0 .. MaxTokens
      /\ v.read \in 0 .. MaxTokens /\ v.creation \in 0 .. MaxTokens
      /\ v.total \in 0 .. MaxTokens /\ v.present \in BOOLEAN
  BY DEF Stored, TokenCounts
<1> QED BY <1>1, LargestNumber

\* One count is replaced by another one that fits.
LEMMA StoredExcept ==
    ASSUME NEW v \in Stored, NEW n \in 0 .. MaxTokens, NEW m \in 0 .. MaxTokens
    PROVE  /\ [v EXCEPT !.input = n, !.cached = m] \in Stored
           /\ [v EXCEPT !.output = n] \in Stored
           /\ [v EXCEPT !.read = n] \in Stored
           /\ [v EXCEPT !.total = n] \in Stored
BY DEF Stored, TokenCounts

\* Folding the reasoning into the output changes nothing else, and an output
\* that is too large for its width is not stored.
LEMMA FoldKeeps ==
    ASSUME NEW h \in Handlings, NEW action \in Actions
    PROVE  LET f == Fold(h, action)
               output == h.tokens.output + h.tokens.reasoning
           IN /\ f \in Handlings /\ f.authority = h.authority
              /\ f.violations = h.violations \cup (IF Fits(output) THEN {} ELSE {"overflow"})
              /\ KeepsCounts(h.tokens, f.tokens)
              /\ f.tokens.input = h.tokens.input
<1> DEFINE t == h.tokens
           output == t.output + t.reasoning
           u == [t EXCEPT !.output = output]
           f == Fold(h, action)
<1>1. /\ h = [tokens |-> t, authority |-> h.authority, actions |-> h.actions,
              violations |-> h.violations]
      /\ t \in Stored /\ h.authority \in Authorities \cup {""}
      /\ h.actions \in SUBSET Actions /\ h.violations \in SUBSET Violations
  BY DEF Handlings
<1>t. t \in Stored
  BY <1>1
<1>2. /\ t.input \in Nat /\ t.output \in Nat /\ t.reasoning \in Nat /\ t.read \in Nat
  <2> HIDE DEF t
  <2> QED BY <1>t, StoredParts, Zenon
<1>3. CASE Fits(output)
  <2>1. f = Handled(u, h.authority, h.actions \cup {action}, h.violations)
    BY <1>1, <1>3 DEF Fold, Handled
  <2>2. u \in Stored /\ KeepsCounts(t, u) /\ u.input = t.input
    <3>1. output \in 0 .. MaxTokens /\ t.output <= output
      BY <1>2, <1>3, LargestNumber DEF Fits
    <3>2. u \in Stored
      <4> HIDE DEF t, output
      <4> QED BY <1>t, <3>1, StoredExcept, Zenon
    <3>3. /\ u.input = t.input /\ u.total = t.total /\ u.reasoning = t.reasoning
          /\ u.creation = t.creation /\ u.read = t.read /\ u.output = output
      <4> HIDE DEF t, output
      <4> QED BY <1>t DEF Stored, TokenCounts
    <3> QED BY <1>2, <3>1, <3>2, <3>3 DEF KeepsCounts
  <2>3. h.actions \cup {action} \in SUBSET Actions
    BY <1>1
  <2> HIDE DEF u, f, t
  <2>4. f \in Handlings /\ f.tokens = u /\ f.authority = h.authority /\ f.violations = h.violations
    <3> DEFINE ac == h.actions \cup {action}
    <3> HIDE DEF ac
    <3>1. /\ u \in Stored /\ h.authority \in Authorities \cup {""} /\ ac \in SUBSET Actions
          /\ h.violations \in SUBSET Violations /\ f = Handled(u, h.authority, ac, h.violations)
      BY <1>1, <2>1, <2>2, <2>3, Zenon DEF ac
    <3> QED BY <3>1 DEF Handled, Handlings
  <2>5. h.violations = h.violations \cup {}
    OBVIOUS
  <2>6. f.violations = h.violations \cup (IF Fits(output) THEN {} ELSE {"overflow"})
    BY <2>4, <2>5, <1>3, Zenon
  <2> QED BY <2>2, <2>4, <2>6, Zenon DEF f, t
<1>4. CASE ~Fits(output)
  <2>1. f = Handled(t, h.authority, h.actions, h.violations \cup {"overflow"})
    BY <1>1, <1>4 DEF Fold, Handled
  <2>2. KeepsCounts(t, t)
    BY <1>2 DEF KeepsCounts
  <2>3. h.violations \cup {"overflow"} \in SUBSET Violations
    BY <1>1 DEF Violations
  <2> HIDE DEF u, f, t
  <2>4. /\ f \in Handlings /\ f.tokens = t /\ f.authority = h.authority
        /\ f.violations = h.violations \cup {"overflow"}
    <3> DEFINE vs == h.violations \cup {"overflow"}
    <3> HIDE DEF vs
    <3>1. /\ t \in Stored /\ h.authority \in Authorities \cup {""} /\ h.actions \in SUBSET Actions
          /\ vs \in SUBSET Violations /\ f = Handled(t, h.authority, h.actions, vs)
      BY <1>t, <1>1, <2>1, <2>3, Zenon DEF vs
    <3> QED BY <3>1 DEF vs, Handled, Handlings
  <2>5. f.violations = h.violations \cup (IF Fits(output) THEN {} ELSE {"overflow"})
    BY <2>4, <1>4, Zenon
  <2> QED BY <2>2, <2>4, <2>5, Zenon DEF f, t
<1> QED BY <1>3, <1>4, Zenon

\* The input of Claude takes in the cache, if it fits.
LEMMA ClaudeRight ==
    ASSUME NEW v \in Stored, NEW lost, NEW r \in Resolutions, r.handler = "claude"
    PROVE  HandledRight(v, lost, r, Claude(v, lost, r))
<1> DEFINE input == v.input + v.read + v.creation
           guess == Lost(lost, {"input", "read", "creation"})
           fold == ~guess /\ Fits(input)
           conflict == r.contract /\ v.cached > 0 /\ v.read > 0 /\ v.cached # v.read
           t == [v EXCEPT !.input = IF fold THEN input ELSE v.input, !.cached = v.read]
           a == IF ~guess /\ ~fold THEN "preserve"
                ELSE IF fold /\ (r.contract \/ LegacyMissingCache(v, lost)) THEN "canonical"
                ELSE "zeroOnly"
           ac == IF (fold /\ input # v.input) \/ v.cached # v.read THEN {"normalized"} ELSE {}
           vs == (IF guess \/ conflict THEN {"ambiguous"} ELSE {})
                    \cup (IF ~guess /\ ~fold THEN {"overflow"} ELSE {})
           h == Claude(v, lost, r)
<1>1. /\ v.input \in Nat /\ v.output \in Nat /\ v.read \in Nat /\ v.creation \in Nat
      /\ v.total \in Nat /\ v.input \in 0 .. MaxTokens /\ v.read \in 0 .. MaxTokens
  BY StoredParts
<1>2. h = Handled(t, a, ac, vs)
  BY Zenon DEF Claude
<1>3. /\ t \in Stored /\ t.total = v.total /\ t.output = v.output /\ t.reasoning = v.reasoning
      /\ t.creation = v.creation /\ t.read = v.read
      /\ t.input = IF fold THEN input ELSE v.input
  <2> DEFINE n == IF fold THEN input ELSE v.input
  <2>1. n \in 0 .. MaxTokens
    BY <1>1, LargestNumber DEF Fits
  <2> HIDE DEF n
  <2>2. /\ t \in Stored /\ t.total = v.total /\ t.output = v.output
        /\ t.reasoning = v.reasoning /\ t.creation = v.creation /\ t.read = v.read
        /\ t.input = n
    <3>1. t = [v EXCEPT !.input = n, !.cached = v.read]
      BY Zenon DEF n
    <3>2. [v EXCEPT !.input = n, !.cached = v.read] \in Stored
      BY <1>1, <2>1, StoredExcept
    <3> HIDE DEF t
    <3> QED BY <3>1, <3>2 DEF Stored, TokenCounts
  <2> QED BY <2>2 DEF n
<1>4. a \in Authorities /\ ac \in SUBSET Actions /\ vs \in SUBSET Violations
  BY DEF Authorities, Actions, Violations
<1>5. a = "preserve" => vs # {}
  OBVIOUS
<1>6. a = "canonical" => fold /\ (r.contract \/ LegacyMissingCache(v, lost))
  OBVIOUS
<1>7. r.contract /\ vs = {} => a = "canonical"
  OBVIOUS
<1>8. KeepsCounts(v, t)
  BY <1>1, <1>3 DEF KeepsCounts
<1>9. fold /\ LegacyMissingCache(v, lost) => v.total < t.input + t.output
  BY <1>1, <1>3 DEF LegacyMissingCache
<1> HIDE DEF a, ac, vs, t, h, fold
<1>10. h \in Handlings /\ h.tokens = t /\ h.authority = a /\ h.violations = vs
  <2>1. a \in Authorities \cup {""}
    BY <1>4, Zenon
  <2>2. t \in Stored
    BY <1>3, Zenon
  <2> QED BY <1>2, <1>4, <2>1, <2>2 DEF Handled, Handlings
<1> SUFFICES HandledRight(v, lost, r, h)
  BY DEF h
<1>11. r.handler \in Contracted
  BY DEF Contracted
<1> QED BY <1>4, <1>5, <1>6, <1>7, <1>8, <1>9, <1>10, <1>11, Zenon DEF HandledRight

\* Whoever decides on the total decides on nothing else.
LEMMA AuthorityExcept ==
    ASSUME NEW h \in Handlings, NEW a \in Authorities \cup {""}
    PROVE  /\ [h EXCEPT !.authority = a] \in Handlings
           /\ [h EXCEPT !.authority = a].tokens = h.tokens
           /\ [h EXCEPT !.authority = a].authority = a
           /\ [h EXCEPT !.authority = a].violations = h.violations
BY DEF Handlings

\* Codex and its relatives: the sum of what an executor reports that is known.
LEMMA ResponsesRight ==
    ASSUME NEW v \in Stored, NEW lost, NEW r \in Resolutions, r.handler = "responses"
    PROVE  HandledRight(v, lost, r, Responses(v, lost, r))
<1> DEFINE alias == CacheReadAlias(v, lost, r)
           a == IF LegacyCachedOnly(v, lost, r) THEN "preserve"
                ELSE IF alias.violations = {} /\ r.contract /\ ~Lost(lost, Components)
                THEN "canonical" ELSE "zeroOnly"
           h == [alias EXCEPT !.authority = a]
<1>1. AliasRight(v, lost, alias)
  BY AliasKeeps
<1>2. Responses(v, lost, r) = h
  BY Zenon DEF Responses
<1>3. a \in Authorities /\ a \in Authorities \cup {""}
  BY DEF Authorities
<1>4. a = "preserve" => LegacyCachedOnly(v, lost, r)
  OBVIOUS
<1>5. a = "canonical" => r.contract
  OBVIOUS
<1>6. lost = {} => "read" \notin lost /\ ~Lost(lost, Components)
  BY DEF Lost
<1> HIDE DEF alias
<1>7. r.contract /\ lost = {} => a = "canonical" \/ LegacyCachedOnly(v, lost, r)
  BY <1>1, <1>6, Zenon DEF AliasRight
<1> HIDE DEF a
<1>8. /\ h \in Handlings /\ h.tokens = alias.tokens /\ h.authority = a
      /\ h.violations = alias.violations
  BY <1>1, <1>3, AuthorityExcept, Zenon DEF AliasRight
<1>9. r.handler \in Contracted
  BY DEF Contracted
<1> HIDE DEF h
<1>10. HandledRight(v, lost, r, h)
  BY <1>1, <1>3, <1>4, <1>5, <1>7, <1>8, <1>9, Zenon DEF HandledRight, AliasRight
<1> QED BY <1>2, <1>10

\* Of an executor that nobody knows everything is left as it is.
LEMMA StrictRight ==
    ASSUME NEW v \in Stored, NEW lost, NEW r \in Resolutions,
           r.contract => r.handler \notin Contracted
    PROVE  /\ HandledRight(v, lost, r, StrictPassThrough(v, lost, r))
           /\ StrictPassThrough(v, lost, r).authority = "zeroOnly"
           /\ StrictPassThrough(v, lost, r).tokens.input = v.input
           /\ StrictPassThrough(v, lost, r).tokens.output = v.output
<1> DEFINE alias == CacheReadAlias(v, lost, r)
           h == [alias EXCEPT !.authority = "zeroOnly"]
<1>1. AliasRight(v, lost, alias)
  BY AliasKeeps
<1>2. StrictPassThrough(v, lost, r) = h
  BY Zenon DEF StrictPassThrough
<1>3. "zeroOnly" \in Authorities \cup {""} /\ "zeroOnly" \in Authorities
  BY DEF Authorities
<1> HIDE DEF alias
<1>4. /\ h \in Handlings /\ h.tokens = alias.tokens /\ h.authority = "zeroOnly"
      /\ h.violations = alias.violations
  BY <1>1, <1>3, AuthorityExcept, Zenon DEF AliasRight
<1>5. "zeroOnly" # "preserve" /\ "zeroOnly" # "canonical"
  OBVIOUS
<1> HIDE DEF h
<1>6. h.authority # "preserve" /\ h.authority # "canonical"
  BY <1>4, <1>5
<1>7. HandledRight(v, lost, r, h)
  BY <1>1, <1>3, <1>4, <1>6, Zenon DEF HandledRight, AliasRight
<1> QED BY <1>1, <1>2, <1>4, <1>7 DEF AliasRight

(* a hint whose total adds up leaves the counts as they are *)
AddsUp(v, lost, r) == /\ ~r.contract /\ r.handler # "claude" /\ lost = {}
                      /\ v.total > 0 /\ v.input + v.output = v.total

\* What may not be touched is not, and what grows stays counted.
LEMMA FoldedRight ==
    ASSUME NEW v \in Stored, NEW lost, NEW r \in Resolutions, NEW h \in Handlings,
           NEW action \in Actions, KeepsCounts(v, h.tokens), h.authority \in Authorities,
           h.tokens.output = v.output, ~AddsUp(v, lost, r),
           HandledRight(v, lost, r, h) \/ (h.authority = "preserve"
                                             /\ ~Fits(h.tokens.output + h.tokens.reasoning))
    PROVE  HandledRight(v, lost, r, Fold(h, action))
<1> DEFINE f == Fold(h, action)
           x == IF Fits(h.tokens.output + h.tokens.reasoning) THEN {} ELSE {"overflow"}
<1>1. /\ f \in Handlings /\ f.authority = h.authority /\ f.violations = h.violations \cup x
      /\ KeepsCounts(h.tokens, f.tokens) /\ f.tokens.input = h.tokens.input
  BY FoldKeeps, Zenon
<1>2. h.tokens \in Stored /\ f.tokens \in Stored
  <2> HIDE DEF f
  <2> QED BY <1>1 DEF Handlings
<1>3. (~Fits(h.tokens.output + h.tokens.reasoning) => f.violations # {})
      /\ (f.violations = {} => h.violations = {})
  <2> HIDE DEF f
  <2> QED BY <1>1
<1> HIDE DEF f, x
<1> SUFFICES HandledRight(v, lost, r, f)
  BY DEF f
<1>4. KeepsCounts(v, f.tokens) /\ h.tokens.output <= f.tokens.output
  <2> DEFINE t == h.tokens
             u == f.tokens
  <2>1. t \in Stored /\ u \in Stored /\ KeepsCounts(v, t) /\ KeepsCounts(t, u)
    BY <1>1, <1>2, Zenon
  <2> HIDE DEF t, u
  <2>2. /\ v.input \in Nat /\ t.input \in Nat /\ u.input \in Nat /\ v.output \in Nat
        /\ t.output \in Nat /\ u.output \in Nat /\ v.read \in Nat /\ t.read \in Nat
        /\ u.read \in Nat
    BY <2>1, StoredParts, Zenon
  <2>3. KeepsCounts(v, u) /\ t.output <= u.output
    BY <2>1, <2>2 DEF KeepsCounts
  <2> QED BY <2>3, Zenon DEF t, u
<1>5. h.authority = "preserve" => f.violations # {} \/ LegacyCachedOnly(v, lost, r)
  BY <1>3, Zenon DEF HandledRight
<1>6. h.authority = "canonical" =>
         \/ r.contract /\ r.handler \in Contracted
         \/ r.handler = "claude" /\ v.total < f.tokens.input + f.tokens.output
  <2> SUFFICES ASSUME h.authority = "canonical"
               PROVE  \/ r.contract /\ r.handler \in Contracted
                      \/ r.handler = "claude" /\ v.total < f.tokens.input + f.tokens.output
    OBVIOUS
  <2>1. HandledRight(v, lost, r, h)
    OBVIOUS
  <2>2. \/ r.contract /\ r.handler \in Contracted
        \/ r.handler = "claude" /\ v.total < h.tokens.input + h.tokens.output
    BY <2>1, Zenon DEF HandledRight
  <2>3. /\ v.total \in Nat /\ h.tokens.input \in Nat /\ h.tokens.output \in Nat
        /\ f.tokens.output \in Nat
    BY <1>2, StoredParts, Zenon
  <2> QED BY <1>1, <1>4, <2>2, <2>3
<1>7. r.contract /\ r.handler \in Contracted /\ lost = {} /\ f.violations = {} =>
         h.authority = "canonical" \/ LegacyCachedOnly(v, lost, r)
  BY <1>3, Zenon DEF HandledRight
<1> QED BY <1>1, <1>4, <1>5, <1>6, <1>7, Zenon DEF HandledRight, AddsUp

\* More may be found wrong without harm.
LEMMA MoreViolations ==
    ASSUME NEW h \in Handlings, NEW x \in SUBSET Violations
    PROVE  LET g == [h EXCEPT !.violations = @ \cup x]
           IN /\ g \in Handlings /\ g.tokens = h.tokens /\ g.authority = h.authority
              /\ g.violations = h.violations \cup x
BY DEF Handlings

\* Providers that speak the language of OpenAI: the reasoning is added where
\* the total says so.
LEMMA OpenAIRight ==
    ASSUME NEW v \in Stored, NEW lost, NEW r \in Resolutions, r.handler = "openai"
    PROVE  HandledRight(v, lost, r, OpenAICompatibility(v, lost, r))
<1> DEFINE alias == StrictPassThrough(v, lost, r)
           asked == ~Undecided(lost) /\ v.reasoning > 0 /\ v.total > 0
           x == (IF Undecided(lost) THEN {"ambiguous"} ELSE {})
                   \cup (IF asked /\ SeparatedOverflows(v) THEN {"overflow"} ELSE {})
           g == [alias EXCEPT !.violations = @ \cup x]
           g0 == [alias EXCEPT !.violations = @
                       \cup (IF Undecided(lost) THEN {"ambiguous"} ELSE {})
                       \cup (IF asked /\ SeparatedOverflows(v) THEN {"overflow"} ELSE {})]
           folds == asked /\ ~SeparatedOverflows(v) /\ Separated(v)
           h == OpenAICompatibility(v, lost, r)
<1>1. r.handler \notin Contracted
  BY DEF Contracted
<1>2. /\ HandledRight(v, lost, r, alias) /\ alias.authority = "zeroOnly"
      /\ alias.tokens.input = v.input /\ alias.tokens.output = v.output
  BY <1>1, StrictRight, Zenon
<1>3. x \in SUBSET Violations
  BY DEF Violations
<1>4. h = IF folds THEN Fold(g0, "compatibility") ELSE g0
  BY Zenon DEF OpenAICompatibility
<1>5. g0 = g
  <2> HIDE DEF alias, asked
  <2> QED OBVIOUS
<1>6. folds => ~AddsUp(v, lost, r)
  BY DEF Separated, AddsUp
<1> HIDE DEF alias, x, folds, h, g0
<1>7. alias \in Handlings /\ KeepsCounts(v, alias.tokens)
  BY <1>2, Zenon DEF HandledRight
<1>8. g \in Handlings /\ g.tokens = alias.tokens /\ g.authority = "zeroOnly"
  BY <1>2, <1>3, <1>7, MoreViolations, Zenon
<1> HIDE DEF g
<1>9. g.tokens.output = v.output /\ g.tokens.input = v.input /\ KeepsCounts(v, g.tokens)
      /\ g.authority \in Authorities /\ g.authority # "preserve" /\ g.authority # "canonical"
  BY <1>2, <1>7, <1>8 DEF Authorities
<1>10. HandledRight(v, lost, r, g)
  BY <1>1, <1>8, <1>9, Zenon DEF HandledRight
<1> SUFFICES HandledRight(v, lost, r, h)
  BY DEF h
<1>11. CASE folds
  <2>1. "compatibility" \in Actions
    BY DEF Actions
  <2> QED BY <1>4, <1>5, <1>6, <1>8, <1>9, <1>10, <1>11, <2>1, FoldedRight, Zenon
<1>12. CASE ~folds
  BY <1>4, <1>5, <1>10, <1>12, Zenon
<1> QED BY <1>11, <1>12

\* Gemini: the reasoning belongs to the output of an executor that is known,
\* and where the total says so or there is none.
LEMMA GeminiRight ==
    ASSUME NEW v \in Stored, NEW lost, NEW r \in Resolutions, r.handler = "gemini"
    PROVE  HandledRight(v, lost, r, Gemini(v, lost, r))
<1> DEFINE alias == CacheReadAlias(v, lost, r)
           guess == Lost(lost, {"output", "reasoning"})
           folds == ~guess /\ v.reasoning > 0 /\ (r.contract \/ GeminiHintFolds(v, lost))
           asked == ~r.contract /\ ~Undecided(lost) /\ v.reasoning > 0 /\ v.total # 0
           large == ~Fits(v.output + v.reasoning)
           a == IF folds /\ large THEN "preserve"
                ELSE IF r.contract /\ alias.violations = {} /\ ~Lost(lost, Components)
                THEN "canonical" ELSE "zeroOnly"
           vs == alias.violations
                   \cup (IF guess \/ (~r.contract /\ Undecided(lost)) THEN {"ambiguous"} ELSE {})
                   \cup (IF asked /\ SeparatedOverflows(v) THEN {"overflow"} ELSE {})
           g == Handled(alias.tokens, a, alias.actions, vs)
           h == Gemini(v, lost, r)
<1>1. AliasRight(v, lost, alias)
  BY AliasKeeps
<1>2. h = IF folds THEN Fold(g, "normalized") ELSE g
  BY Zenon DEF Gemini
<1>3. a \in Authorities
  BY DEF Authorities
<1>4. vs \in SUBSET Violations /\ (vs = {} => alias.violations = {})
  <2> HIDE DEF alias
  <2>1. alias.violations \in SUBSET Violations
    BY <1>1 DEF AliasRight, Handlings
  <2> HIDE DEF guess, asked
  <2> QED BY <2>1 DEF Violations
<1>5. lost = {} => "read" \notin lost /\ ~Lost(lost, Components)
  BY DEF Lost
<1>6. a = "preserve" => folds /\ large
  OBVIOUS
<1>7. a = "canonical" => r.contract
  OBVIOUS
<1>8. r.contract /\ lost = {} => a = "canonical" \/ (folds /\ large)
  <2> HIDE DEF alias, folds, large
  <2> QED BY <1>1, <1>5, Zenon DEF AliasRight
<1>9. folds => ~AddsUp(v, lost, r)
  <2>1. v.total \in Nat
    BY StoredParts, Zenon
  <2> QED BY <2>1 DEF GeminiHintFolds, Separated, AddsUp
<1>10. r.handler \in Contracted
  BY DEF Contracted
<1> HIDE DEF alias, a, vs, folds, large, h
<1>11. /\ g \in Handlings /\ g.tokens = alias.tokens /\ g.authority = a /\ g.violations = vs
  <2>1. /\ alias.tokens \in Stored /\ alias.actions \in SUBSET Actions
        /\ a \in Authorities \cup {""}
    BY <1>1, <1>3 DEF AliasRight, Handlings
  <2> QED BY <1>4, <2>1 DEF Handled, Handlings
<1>12. /\ KeepsCounts(v, g.tokens) /\ g.tokens.input = v.input /\ g.tokens.output = v.output
       /\ g.tokens.reasoning = v.reasoning
  BY <1>1, <1>11, Zenon DEF AliasRight, KeepsCounts
<1> HIDE DEF g
<1> SUFFICES HandledRight(v, lost, r, h)
  BY DEF h
<1>13. CASE ~(folds /\ large)
  <2>1. HandledRight(v, lost, r, g)
    BY <1>3, <1>6, <1>7, <1>8, <1>10, <1>11, <1>12, <1>13, Zenon DEF HandledRight
  <2>2. "normalized" \in Actions
    BY DEF Actions
  <2>3. CASE folds
    BY <1>2, <1>3, <1>9, <1>11, <1>12, <2>1, <2>2, <2>3, FoldedRight, Zenon
  <2>4. CASE ~folds
    BY <1>2, <2>1, <2>4, Zenon
  <2> QED BY <2>3, <2>4
<1>14. CASE folds /\ large
  <2>1. g.authority = "preserve" /\ ~Fits(g.tokens.output + g.tokens.reasoning)
    BY <1>11, <1>12, <1>14, Zenon DEF a, large
  <2>2. "normalized" \in Actions
    BY DEF Actions
  <2> QED BY <1>2, <1>3, <1>9, <1>11, <1>12, <1>14, <2>1, <2>2, FoldedRight, Zenon
<1> QED BY <1>13, <1>14

\* Whichever handler an event has, its counts are handled right.
LEMMA EveryHandlerRight ==
    ASSUME NEW v \in Stored, NEW lost, NEW r \in Resolutions
    PROVE  HandledRight(v, lost, r, Normalize(v, lost, r))
<1>1. r.handler \in Contracted \cup {"strict", "openai"}
  BY DEF Resolutions
<1>2. CASE r.handler = "claude"
  <2>1. Normalize(v, lost, r) = Claude(v, lost, r)
    BY <1>2 DEF Normalize
  <2> QED BY <1>2, <2>1, ClaudeRight
<1>3. CASE r.handler = "gemini"
  <2>1. Normalize(v, lost, r) = Gemini(v, lost, r)
    BY <1>3 DEF Normalize
  <2> QED BY <1>3, <2>1, GeminiRight
<1>4. CASE r.handler = "responses"
  <2>1. Normalize(v, lost, r) = Responses(v, lost, r)
    BY <1>4 DEF Normalize
  <2> QED BY <1>4, <2>1, ResponsesRight
<1>5. CASE r.handler = "openai"
  <2>1. Normalize(v, lost, r) = OpenAICompatibility(v, lost, r)
    BY <1>5 DEF Normalize
  <2> QED BY <1>5, <2>1, OpenAIRight
<1>6. CASE r.handler = "strict"
  <2>1. Normalize(v, lost, r) = StrictPassThrough(v, lost, r)
    BY <1>6 DEF Normalize
  <2>2. r.handler \notin Contracted
    BY <1>6 DEF Contracted
  <2> QED BY <2>1, <2>2, StrictRight
<1> QED BY <1>1, <1>2, <1>3, <1>4, <1>5, <1>6 DEF Contracted

-----------------------------------------------------------------------------
(* The total                                                                 *)

Sum(h) == h.tokens.input + h.tokens.output

(* what the reconciliation makes of the total, if it finds nothing wrong      *)
Settled(h, r, n) ==
    \/ n = Sum(h)
    \/ r.handler = "strict" /\ n = h.tokens.total /\ n # 0
    \/ h.tokens.input = 0 /\ h.tokens.output = 0 /\ n = h.tokens.read

Adds(h) == /\ h.tokens.read + h.tokens.creation <= h.tokens.input
           /\ h.tokens.reasoning <= h.tokens.output

(* f is h with another total, or with more that is found wrong               *)
Retotalled(h, f) ==
    /\ f.tokens.total \in 0 .. MaxTokens
    /\ f.tokens = [h.tokens EXCEPT !.total = f.tokens.total]
    /\ f.violations = {} => h.violations = {}

\* A total that is set is the only count that changes.
LEMMA TotalSet ==
    ASSUME NEW h \in Handlings, NEW n \in 0 .. MaxTokens, NEW action
    PROVE  LET f == WithTotal(h, n, action)
           IN Retotalled(h, f) /\ f.tokens.total = n /\ f.violations = h.violations
<1> DEFINE t == [h.tokens EXCEPT !.total = n]
           f == WithTotal(h, n, action)
<1>1. /\ h = [tokens |-> h.tokens, authority |-> h.authority, actions |-> h.actions,
              violations |-> h.violations]
      /\ h.tokens \in Stored
  BY DEF Handlings
<1>2. f.tokens = t /\ f.violations = h.violations
  BY <1>1 DEF WithTotal
<1>3. t.total = n
  BY <1>1 DEF Stored, TokenCounts
<1> HIDE DEF f, t
<1>4. f.tokens.total = n
  BY <1>2, <1>3
<1>5. Retotalled(h, f)
  BY <1>2, <1>4 DEF Retotalled, t
<1> QED BY <1>2, <1>4, <1>5 DEF f

\* What is found wrong changes no count.
LEMMA Blamed ==
    ASSUME NEW h \in Handlings, NEW x \in SUBSET Violations, x # {}
    PROVE  LET f == WithViolations(h, x)
           IN /\ f \in Handlings /\ f.tokens = h.tokens /\ f.violations # {}
              /\ f.authority = h.authority
BY DEF WithViolations, Handlings

\* Nothing at all is a change, too.
LEMMA Untouched ==
    ASSUME NEW h \in Handlings, NEW f, f.tokens = h.tokens,
           f.violations = {} => h.violations = {}
    PROVE  Retotalled(h, f)
<1>1. h.tokens \in Stored
  BY DEF Handlings
<1>2. h.tokens = [h.tokens EXCEPT !.total = h.tokens.total]
  BY <1>1 DEF Stored, TokenCounts
<1>3. h.tokens.total \in 0 .. MaxTokens
  BY <1>1, StoredParts
<1> QED BY <1>2, <1>3 DEF Retotalled

\* A total of zero is filled in, any other one stays.
LEMMA ZeroOnlyRight ==
    ASSUME NEW h \in Handlings, NEW lost, NEW r \in Resolutions
    PROVE  LET f == ZeroOnlyTotal(h, lost, r)
           IN /\ Retotalled(h, f)
              /\ h.tokens.total # 0 => f.tokens.total = h.tokens.total
              /\ f.violations = {} => Settled(h, r, f.tokens.total)
<1> DEFINE t == h.tokens
           sum == t.input + t.output
           f == ZeroOnlyTotal(h, lost, r)
           x == {IF Fits(sum) THEN "ambiguous" ELSE "overflow"}
<1>1. t \in Stored
  BY DEF Handlings
<1>2. f = IF t.total # 0
          THEN IF r.handler = "strict" \/ sum = t.total THEN h
               ELSE WithViolations(h, x)
          ELSE IF Lost(lost, {"input", "output", "total"}) THEN WithViolations(h, {"ambiguous"})
          ELSE IF ~Fits(sum) THEN WithViolations(h, {"overflow"})
          ELSE IF sum > 0 THEN WithTotal(h, sum, "compatibility")
          ELSE IF t.read > 0 THEN WithTotal(h, t.read, "compatibility")
          ELSE h
  BY Zenon DEF ZeroOnlyTotal
<1>3. /\ t.input \in Nat /\ t.output \in Nat /\ t.read \in 0 .. MaxTokens /\ t.total \in Nat
      /\ t.read \in Nat
  <2> HIDE DEF t
  <2> QED BY <1>1, StoredParts, Zenon
<1>4. x \in SUBSET Violations /\ x # {} /\ {"ambiguous"} \in SUBSET Violations
      /\ {"overflow"} \in SUBSET Violations /\ {"ambiguous"} # {} /\ {"overflow"} # {}
  BY DEF Violations
<1>5. sum = Sum(h)
  BY DEF Sum
<1> DEFINE lostTotal == Lost(lost, {"input", "output", "total"})
<1> HIDE DEF f, x, lostTotal
<1> SUFFICES /\ Retotalled(h, f)
             /\ t.total # 0 => f.tokens.total = t.total
             /\ f.violations = {} => Settled(h, r, f.tokens.total)
  BY DEF f
<1>6. CASE \/ t.total # 0 /\ ~(r.handler = "strict" \/ sum = t.total)
           \/ t.total = 0 /\ lostTotal
           \/ t.total = 0 /\ ~lostTotal /\ ~Fits(sum)
  <2>1. PICK y \in {x, {"ambiguous"}, {"overflow"}} : f = WithViolations(h, y)
    BY <1>2, <1>6, Zenon DEF lostTotal
  <2>2. y \in SUBSET Violations /\ y # {}
    BY <1>4, <2>1, Zenon
  <2>3. f.tokens = t /\ f.violations # {}
    BY <2>1, <2>2, Blamed, Zenon
  <2> QED BY <2>3, Untouched
<1>7. CASE t.total # 0 /\ (r.handler = "strict" \/ sum = t.total)
  <2>1. f = h
    BY <1>2, <1>7, Zenon
  <2>2. Retotalled(h, h)
    BY Untouched
  <2> QED BY <1>5, <1>7, <2>1, <2>2 DEF Settled
<1>8. CASE t.total = 0 /\ ~lostTotal /\ Fits(sum) /\ sum > 0
  <2>1. f = WithTotal(h, sum, "compatibility")
    BY <1>2, <1>8, Zenon DEF lostTotal
  <2>2. sum \in 0 .. MaxTokens
    BY <1>3, <1>8, LargestNumber DEF Fits
  <2>3. Retotalled(h, f) /\ f.tokens.total = sum
    <3> HIDE DEF sum
    <3> QED BY <2>1, <2>2, TotalSet, Zenon
  <2> QED BY <1>5, <1>8, <2>3 DEF Settled
<1>9. CASE t.total = 0 /\ ~lostTotal /\ Fits(sum) /\ ~(sum > 0)
  <2>1. t.input = 0 /\ t.output = 0
    BY <1>3, <1>9
  <2>2. CASE t.read > 0
    <3>1. f = WithTotal(h, t.read, "compatibility")
      BY <1>2, <1>9, <2>2, Zenon DEF lostTotal
    <3>2. Retotalled(h, f) /\ f.tokens.total = t.read
      BY <1>3, <3>1, TotalSet, Zenon
    <3> QED BY <1>9, <2>1, <3>2 DEF Settled
  <2>3. CASE ~(t.read > 0)
    <3>1. f = h
      BY <1>2, <1>9, <2>3, Zenon DEF lostTotal
    <3>2. Retotalled(h, h)
      BY Untouched
    <3>3. Sum(h) = 0
      BY <2>1, <1>5
    <3> QED BY <1>9, <3>1, <3>2, <3>3 DEF Settled
  <2> QED BY <2>2, <2>3
<1> QED BY <1>6, <1>7, <1>8, <1>9, Zenon

\* The sum replaces a total only where the parts add up.
LEMMA CanonicalRight ==
    ASSUME NEW h \in Handlings, NEW lost, NEW r \in Resolutions
    PROVE  LET f == CanonicalTotal(h, lost, r)
           IN /\ Retotalled(h, f)
              /\ h.tokens.total # 0 => f.tokens.total \in {h.tokens.total, Sum(h)}
              /\ f.violations = {} => f.tokens.total = Sum(h) /\ Adds(h)
<1> DEFINE t == h.tokens
           sum == t.input + t.output
           wrong == IF ~Fits(t.read + t.creation) THEN {"overflow"}
                    ELSE IF t.input < t.read + t.creation \/ t.output < t.reasoning
                    THEN {"inconsistent"} ELSE {}
           lostAny == Lost(lost, Components \cup {"total"})
           g == WithViolations(h, wrong)
           action == IF t.total = 0 THEN "compatibility" ELSE "corrected"
           f == CanonicalTotal(h, lost, r)
<1>1. t \in Stored
  BY DEF Handlings
<1>2. f = IF lostAny THEN WithViolations(h, {"ambiguous"})
          ELSE IF wrong # {}
          THEN IF t.total # 0 THEN g ELSE ZeroOnlyTotal(g, lost, r)
          ELSE IF ~Fits(sum) THEN WithViolations(h, {"overflow"})
          ELSE IF t.total = sum THEN h
          ELSE WithTotal(h, sum, action)
  BY Zenon DEF CanonicalTotal
<1>3. /\ t.input \in Nat /\ t.output \in Nat /\ t.read \in Nat /\ t.creation \in Nat
      /\ t.reasoning \in Nat
  <2> HIDE DEF t
  <2> QED BY <1>1, StoredParts, Zenon
<1>4. /\ wrong \in SUBSET Violations /\ {"ambiguous"} \in SUBSET Violations
      /\ {"overflow"} \in SUBSET Violations /\ {"ambiguous"} # {} /\ {"overflow"} # {}
  BY DEF Violations
<1>5. sum = Sum(h)
  BY DEF Sum
<1>6. wrong = {} => Adds(h)
  BY <1>3 DEF Adds
<1>7. wrong # {} => /\ g \in Handlings /\ g.tokens = t /\ g.violations # {}
  <2> HIDE DEF wrong
  <2> QED BY <1>4, Blamed, Zenon
<1> HIDE DEF f, g, wrong, lostAny, action
<1> SUFFICES /\ Retotalled(h, f)
             /\ t.total # 0 => f.tokens.total \in {t.total, Sum(h)}
             /\ f.violations = {} => f.tokens.total = Sum(h) /\ Adds(h)
  BY DEF f
<1>8. CASE \/ lostAny
           \/ ~lostAny /\ wrong # {} /\ t.total # 0
           \/ ~lostAny /\ wrong = {} /\ ~Fits(sum)
  <2>1. f.tokens = t /\ f.violations # {}
    <3>1. CASE ~lostAny /\ wrong # {} /\ t.total # 0
      BY <1>2, <1>7, <3>1, Zenon
    <3>2. CASE lostAny \/ (~lostAny /\ wrong = {} /\ ~Fits(sum))
      <4>1. PICK y \in {{"ambiguous"}, {"overflow"}} : f = WithViolations(h, y)
        BY <1>2, <3>2, Zenon
      <4> QED BY <1>4, <4>1, Blamed, Zenon
    <3> QED BY <1>8, <3>1, <3>2
  <2> QED BY <2>1, Untouched
<1>9. CASE ~lostAny /\ wrong # {} /\ t.total = 0
  <2>1. f = ZeroOnlyTotal(g, lost, r)
    BY <1>2, <1>9, Zenon
  <2>2. Retotalled(g, f)
    BY <1>7, <1>9, <2>1, ZeroOnlyRight, Zenon
  <2>3. f.violations # {} /\ Retotalled(h, f)
    BY <1>7, <1>9, <2>2 DEF Retotalled
  <2> QED BY <1>9, <2>3
<1>10. CASE ~lostAny /\ wrong = {} /\ Fits(sum) /\ t.total = sum
  <2>1. f = h
    BY <1>2, <1>10, Zenon
  <2>2. Retotalled(h, h)
    BY Untouched
  <2> QED BY <1>5, <1>6, <1>10, <2>1, <2>2
<1>11. CASE ~lostAny /\ wrong = {} /\ Fits(sum) /\ t.total # sum
  <2>1. f = WithTotal(h, sum, action)
    BY <1>2, <1>11, Zenon
  <2>2. sum \in 0 .. MaxTokens
    BY <1>3, <1>11, LargestNumber DEF Fits
  <2>3. Retotalled(h, f) /\ f.tokens.total = sum
    <3> HIDE DEF sum
    <3> QED BY <2>1, <2>2, TotalSet, Zenon
  <2> QED BY <1>5, <1>6, <1>11, <2>3
<1> QED BY <1>8, <1>9, <1>10, <1>11, Zenon

(* what the properties of an event rely on                                   *)
TotalRight(h, f, r) ==
    /\ Retotalled(h, f)
    /\ h.tokens.total # 0 /\ f.tokens.total # h.tokens.total =>
         h.authority = "canonical" /\ f.tokens.total = Sum(h)
    /\ f.violations = {} =>
         CASE h.authority = "canonical" -> f.tokens.total = Sum(h) /\ Adds(h)
           [] h.authority = "zeroOnly" -> Settled(h, r, f.tokens.total)
           [] OTHER -> f.tokens.total = h.tokens.total

\* The total follows the one who may decide on it.
LEMMA EveryTotalRight ==
    ASSUME NEW h \in Handlings, NEW lost, NEW r \in Resolutions, h.authority \in Authorities
    PROVE  TotalRight(h, FinalTotal(h, lost, r), r)
<1> DEFINE f == FinalTotal(h, lost, r)
<1>1. CASE h.authority = "canonical"
  <2>1. f = CanonicalTotal(h, lost, r)
    BY <1>1 DEF FinalTotal
  <2> HIDE DEF f
  <2>2. /\ Retotalled(h, f)
        /\ h.tokens.total # 0 => f.tokens.total \in {h.tokens.total, Sum(h)}
        /\ f.violations = {} => f.tokens.total = Sum(h) /\ Adds(h)
    BY <2>1, CanonicalRight, Zenon
  <2>3. TotalRight(h, f, r)
    BY <1>1, <2>2 DEF TotalRight
  <2> QED BY <2>3 DEF f
<1>2. CASE h.authority = "zeroOnly"
  <2>1. f = ZeroOnlyTotal(h, lost, r)
    BY <1>2 DEF FinalTotal
  <2> HIDE DEF f
  <2>2. /\ Retotalled(h, f)
        /\ h.tokens.total # 0 => f.tokens.total = h.tokens.total
        /\ f.violations = {} => Settled(h, r, f.tokens.total)
    BY <2>1, ZeroOnlyRight, Zenon
  <2>3. TotalRight(h, f, r)
    BY <1>2, <2>2 DEF TotalRight
  <2> QED BY <2>3 DEF f
<1>3. CASE h.authority = "preserve"
  <2>1. f = h
    BY <1>3 DEF FinalTotal
  <2>2. Retotalled(h, h)
    BY Untouched
  <2>3. TotalRight(h, h, r)
    BY <1>3, <2>2 DEF TotalRight
  <2> QED BY <2>1, <2>3
<1> QED BY <1>1, <1>2, <1>3 DEF Authorities

-----------------------------------------------------------------------------
(* Every event                                                               *)

(* an event on its way: v are its counts, h what its handler made of them, f  *)
(* the same with its total                                                    *)
OnItsWay(raw, r, v, lost, h, f) ==
    /\ v \in Stored /\ HandledRight(v, lost, r, h) /\ TotalRight(h, f, r)
    /\ IF raw.total > 0 THEN v.total = raw.total ELSE v.total = 0
    /\ lost = {} => v = raw

\* Every event comes along this way.
LEMMA WayOfAnEvent ==
    ASSUME NEW raw \in Reported, NEW r \in Resolutions
    PROVE  LET v == NonNegative(raw)
               lost == Negatives(raw)
               h == Normalize(v, lost, r)
           IN OnItsWay(raw, r, v, lost, h, FinalTotal(h, lost, r))
<1> DEFINE v == NonNegative(raw)
           lost == Negatives(raw)
           h == Normalize(v, lost, r)
           f == FinalTotal(h, lost, r)
<1>1. /\ v \in Stored /\ (lost = {} => v = raw)
      /\ IF raw.total > 0 THEN v.total = raw.total ELSE v.total = 0
  BY NonNegativeCounts, Zenon
<1> HIDE DEF v, lost
<1>2. HandledRight(v, lost, r, h)
  BY <1>1, EveryHandlerRight, Zenon
<1> HIDE DEF h
<1>3. TotalRight(h, f, r)
  BY <1>2, EveryTotalRight, Zenon DEF HandledRight
<1> HIDE DEF f
<1>4. OnItsWay(raw, r, v, lost, h, f)
  BY <1>1, <1>2, <1>3, Zenon DEF OnItsWay
<1> QED BY <1>4, Zenon DEF v, lost, h, f

\* On this way counts stay numbers that fit, and their relation to what was
\* reported is known.
LEMMA WayOfTheCounts ==
    ASSUME NEW raw, NEW r, NEW v, NEW lost, NEW h, NEW f,
           OnItsWay(raw, r, v, lost, h, f)
    PROVE  LET t == f.tokens
           IN /\ t \in Stored /\ h.tokens \in Stored /\ h.tokens.total = v.total
              /\ v.input <= t.input /\ v.output <= t.output /\ v.reasoning = t.reasoning
              /\ v.read <= t.read /\ v.creation = t.creation
              /\ t.input = h.tokens.input /\ t.output = h.tokens.output
              /\ t.read = h.tokens.read /\ t.reasoning = h.tokens.reasoning
              /\ t.creation = h.tokens.creation
<1> DEFINE u == h.tokens
           n == f.tokens.total
           t == f.tokens
<1>1. h \in Handlings /\ KeepsCounts(v, u) /\ Retotalled(h, f)
  BY Zenon DEF OnItsWay, HandledRight, TotalRight
<1>2. n \in 0 .. MaxTokens /\ t = [u EXCEPT !.total = n]
  BY <1>1, Zenon DEF Retotalled
<1>3. u \in Stored
  BY <1>1 DEF Handlings
<1> HIDE DEF u, n, t
<1>4. /\ t \in Stored /\ t.input = u.input /\ t.output = u.output /\ t.read = u.read
      /\ t.reasoning = u.reasoning /\ t.creation = u.creation
  <2>1. [u EXCEPT !.total = n] \in Stored
    BY <1>2, <1>3, StoredExcept, Zenon
  <2> QED BY <1>2, <1>3, <2>1 DEF Stored, TokenCounts
<1>5. /\ t \in Stored /\ u \in Stored /\ u.total = v.total
      /\ v.input <= t.input /\ v.output <= t.output /\ v.reasoning = t.reasoning
      /\ v.read <= t.read /\ v.creation = t.creation
  BY <1>1, <1>3, <1>4 DEF KeepsCounts
<1> QED BY <1>4, <1>5, Zenon DEF u, t

\* Nothing was found wrong with an event that nobody looks at.
LEMMA NothingWrong ==
    ASSUME NEW h, NEW lost, NEW result, result.outcome = Outcome(h, lost), Unremarkable(result)
    PROVE  h.violations = {}
<1>1. CASE "overflow" \in h.violations
  BY <1>1 DEF Outcome, Unremarkable
<1>2. CASE "overflow" \notin h.violations /\ h.violations # {}
  BY <1>2 DEF Outcome, Unremarkable
<1> QED BY <1>1, <1>2

\* Where nothing is found wrong the total is what it should be.
LEMMA WayOfTheTotal ==
    ASSUME NEW raw \in Reported, NEW r \in Resolutions, NEW v, NEW lost, NEW h, NEW f,
           OnItsWay(raw, r, v, lost, h, f), f.violations = {}
    PROVE  LET t == f.tokens
           IN /\ \/ t.total = t.input + t.output
                 \/ r.handler = "strict" /\ t.total = raw.total
                 \/ t.input = 0 /\ t.output = 0 /\ t.total = t.read
                 \/ LegacyCachedOnly(v, lost, r) /\ t.total = raw.total
              /\ r.contract /\ r.handler \in Contracted /\ lost = {}
                 /\ ~LegacyCachedOnly(v, lost, r) =>
                   t.read + t.creation <= t.input /\ t.reasoning <= t.output
<1> DEFINE t == f.tokens
           u == h.tokens
<1>1. /\ h \in Handlings /\ h.authority \in Authorities /\ h.violations = {}
      /\ HandledRight(v, lost, r, h) /\ TotalRight(h, f, r)
  BY Zenon DEF OnItsWay, HandledRight, TotalRight, Retotalled
<1>2. /\ u.total = v.total /\ t.input = u.input /\ t.output = u.output /\ t.read = u.read
      /\ t.reasoning = u.reasoning /\ t.creation = u.creation
  BY WayOfTheCounts
<1>3. v.total # 0 => v.total = raw.total
  BY Zenon DEF OnItsWay
<1>4. h.authority = "preserve" => LegacyCachedOnly(v, lost, r)
  BY <1>1, Zenon DEF HandledRight
<1>5. r.contract /\ r.handler \in Contracted /\ lost = {} /\ ~LegacyCachedOnly(v, lost, r) =>
         h.authority = "canonical"
  BY <1>1, Zenon DEF HandledRight
<1>6. LegacyCachedOnly(v, lost, r) => v = raw
  BY Zenon DEF OnItsWay, LegacyCachedOnly
<1>7. CASE h.authority = "canonical"
  <2>1. t.total = Sum(h) /\ Adds(h)
    BY <1>1, <1>7 DEF TotalRight
  <2> QED BY <1>2, <2>1 DEF Sum, Adds
<1>8. CASE h.authority = "zeroOnly"
  <2>1. Settled(h, r, t.total)
    BY <1>1, <1>8 DEF TotalRight
  <2>2. ~(r.contract /\ r.handler \in Contracted /\ lost = {} /\ ~LegacyCachedOnly(v, lost, r))
    BY <1>5, <1>8
  <2> QED BY <1>2, <1>3, <2>1, <2>2 DEF Settled, Sum
<1>9. CASE h.authority = "preserve"
  <2>1. t.total = u.total
    BY <1>1, <1>9 DEF TotalRight
  <2> QED BY <1>2, <1>4, <1>6, <1>9, <2>1
<1> QED BY <1>1, <1>7, <1>8, <1>9 DEF Authorities

\* A total that was reported gives way to the sum alone.
LEMMA WayOfAReport ==
    ASSUME NEW raw \in Reported, NEW r \in Resolutions, NEW v, NEW lost, NEW h, NEW f,
           OnItsWay(raw, r, v, lost, h, f)
    PROVE  LET t == f.tokens
           IN /\ raw.total > 0 /\ t.total # raw.total =>
                   /\ t.total = t.input + t.output
                   /\ \/ r.contract /\ r.handler \in Contracted
                      \/ r.handler = "claude" /\ raw.total < t.total
              /\ ~r.contract /\ r.handler # "claude" /\ lost = {}
                 /\ raw.total > 0 /\ raw.input + raw.output = raw.total =>
                   t.input = raw.input /\ t.output = raw.output /\ t.total = raw.total
<1> DEFINE t == f.tokens
           u == h.tokens
<1>1. /\ HandledRight(v, lost, r, h) /\ TotalRight(h, f, r) /\ (lost = {} => v = raw)
      /\ (raw.total > 0 => v.total = raw.total)
  BY Zenon DEF OnItsWay
<1>2. u.total = v.total /\ t.input = u.input /\ t.output = u.output
  BY WayOfTheCounts
<1>3. u.total # 0 /\ t.total # u.total =>
         h.authority = "canonical" /\ t.total = t.input + t.output
  BY <1>1, <1>2 DEF TotalRight, Sum
<1>4. h.authority = "canonical" =>
         \/ r.contract /\ r.handler \in Contracted
         \/ r.handler = "claude" /\ v.total < t.input + t.output
  BY <1>1, <1>2, Zenon DEF HandledRight
<1>5. AddsUp(v, lost, r) => u.input = v.input /\ u.output = v.output
  BY <1>1, Zenon DEF HandledRight, AddsUp
<1>6. ASSUME raw.total > 0, t.total # raw.total
      PROVE  /\ t.total = t.input + t.output
             /\ \/ r.contract /\ r.handler \in Contracted
                \/ r.handler = "claude" /\ raw.total < t.total
  <2>1. u.total = raw.total /\ u.total # 0 /\ v.total = raw.total
    BY <1>1, <1>2, <1>6
  <2>2. h.authority = "canonical" /\ t.total = t.input + t.output
    BY <1>3, <1>6, <2>1
  <2> QED BY <1>4, <2>1, <2>2
<1>7. ASSUME ~r.contract, r.handler # "claude", lost = {}, raw.total > 0,
             raw.input + raw.output = raw.total
      PROVE  t.input = raw.input /\ t.output = raw.output /\ t.total = raw.total
  <2>1. v = raw /\ u.total = raw.total /\ u.total # 0
    BY <1>1, <1>2, <1>7
  <2>2. AddsUp(v, lost, r)
    BY <1>7, <2>1 DEF AddsUp
  <2>3. h.authority # "canonical"
    BY <1>4, <1>7
  <2> QED BY <1>2, <1>3, <1>5, <2>1, <2>2, <2>3
<1> QED BY <1>6, <1>7

\* What is stored of an event adds up.
LEMMA EventAddsUp ==
    ASSUME NEW raw \in Reported, NEW r \in Resolutions
    PROVE  /\ Countable(raw, Process(raw, r)) /\ TotalIsSum(raw, r, Process(raw, r))
           /\ KnownIsCanonical(raw, r, Process(raw, r)) /\ ReportedIsKept(raw, r, Process(raw, r))
<1> DEFINE v == NonNegative(raw)
           lost == Negatives(raw)
           h == Normalize(v, lost, r)
           f == FinalTotal(h, lost, r)
           result == Process(raw, r)
<1>1. OnItsWay(raw, r, v, lost, h, f)
  BY WayOfAnEvent, Zenon
<1>2. result = [tokens |-> f.tokens, outcome |-> Outcome(f, lost)]
  BY Zenon DEF Process
<1>3. result.tokens = f.tokens /\ result.outcome = Outcome(f, lost)
  <2> HIDE DEF result, f, lost
  <2> QED BY <1>2
<1> HIDE DEF h, f, result
<1>4. Unremarkable(result) => f.violations = {}
  BY <1>3, NothingWrong, Zenon
<1>5. Countable(raw, result)
  <2>1. /\ f.tokens \in Stored
        /\ v.input <= f.tokens.input /\ v.output <= f.tokens.output
        /\ v.reasoning = f.tokens.reasoning
        /\ v.read <= f.tokens.read /\ v.creation = f.tokens.creation
    BY <1>1, WayOfTheCounts
  <2> HIDE DEF v
  <2> QED BY <1>3, <2>1, Zenon DEF Countable, Stored, v
<1>6. TotalIsSum(raw, r, result)
  BY <1>1, <1>3, <1>4, WayOfTheTotal DEF TotalIsSum
<1>7. KnownIsCanonical(raw, r, result)
  <2> SUFFICES ASSUME Unremarkable(result), r.contract, r.handler \in Contracted, lost = {},
                      ~LegacyCachedOnly(raw, {}, r)
               PROVE  /\ result.tokens.read + result.tokens.creation <= result.tokens.input
                      /\ result.tokens.reasoning <= result.tokens.output
    BY Zenon DEF KnownIsCanonical, Contracted
  <2>1. v = raw
    BY <1>1, Zenon DEF OnItsWay
  <2>2. ~LegacyCachedOnly(v, lost, r)
    BY <2>1, Zenon
  <2> QED BY <1>1, <1>3, <1>4, <2>2, WayOfTheTotal
<1>8. ReportedIsKept(raw, r, result)
  BY <1>1, <1>3, WayOfAReport DEF ReportedIsKept, Contracted
<1> QED BY <1>5, <1>6, <1>7, <1>8, Zenon DEF result

\* What is stored of an event can be counted, its total is the sum of its parts
\* unless nothing is known of them, and what was reported and adds up is kept
\* (Process of the token processor), however many bits a count has.
THEOREM EveryEventAddsUp == ProcessorSpec => []TokensAddUp
<1>1. ProcessorInit => TokensAddUp
  BY DEF ProcessorInit, TokensAddUp
<1>2. TokensAddUp /\ [ProcessEvent]_processorVars => TokensAddUp'
  <2>1. ASSUME ProcessEvent PROVE TokensAddUp'
    <3>1. PICK raw \in RawCounts, executor \in DOMAIN Handlers \cup {"unknown"},
               identity \in DOMAIN Handlers \cup {"unknown"} :
            /\ tokenEvent' = <<[raw |-> raw, resolution |-> Resolve(executor, identity)]>>
            /\ tokenResult' = <<Process(raw, Resolve(executor, identity))>>
      BY <2>1, Zenon DEF ProcessEvent
    <3> DEFINE r == Resolve(executor, identity)
               result == Process(raw, r)
    <3>2. raw \in Reported
      BY TokenAssumption, Zenon DEF TokenAssumption, Reported
    <3>3. r \in Resolutions
      BY ResolutionType, Zenon
    <3> HIDE DEF r
    <3>4. /\ Countable(raw, result) /\ TotalIsSum(raw, r, result)
          /\ KnownIsCanonical(raw, r, result) /\ ReportedIsKept(raw, r, result)
      BY <3>2, <3>3, EventAddsUp, Zenon
    <3> HIDE DEF result
    <3>5. tokenEvent' = <<[raw |-> raw, resolution |-> r]>> /\ tokenResult' = <<result>>
      BY <3>1, Zenon DEF r, result
    <3>6. /\ tokenEvent'[1].raw = raw /\ tokenEvent'[1].resolution = r
          /\ tokenResult'[1] = result
      BY <3>5
    <3> QED BY <3>4, <3>6, Zenon DEF TokensAddUp
  <2>2. ASSUME TokensAddUp, UNCHANGED processorVars PROVE TokensAddUp'
    BY <2>2 DEF processorVars, TokensAddUp
  <2> QED BY <2>1, <2>2
<1> QED BY <1>1, <1>2, PTL DEF ProcessorSpec

-----------------------------------------------------------------------------
(* The community ranking. What the keeper believes to have been received is   *)
(* covered by every report that the center may still accept, because numbers  *)
(* grow with what was known when they were given.                             *)

ParticipationStatuses == {"disabled", "joining", "active", "paused", "deleted"}
Participations == [status : ParticipationStatuses, profile : Profiles \cup {NoProfile}, sequence : Nat,
                   started : Int, completeDay : Int, completeEvent : Nat]
OperationPlaces == {"idle", "register", "reconcile", "sync", "today", "aggregate", "allocate",
                    "sent", "reported", "end"}
Operations == [pc : OperationPlaces, goal : {"none", "sync", "delete"}, last : BOOLEAN,
               complete : BOOLEAN, today : Int, day : Int, event : Nat, events : SUBSET Nat,
               sequence : Nat]
SentRequests == [kind : {"report", "delete"}, sequence : Nat, day : Int, complete : BOOLEAN,
                 events : SUBSET Nat]
Centers == [status : {"unknown", "active", "deleted"}, profile : Profiles \cup {NoProfile},
            sequence : Nat, reports : SUBSET [day : Int, events : SUBSET Nat]]

RankingTyped ==
    /\ rankStore \in Participations /\ rankBackup \in Participations
    /\ reconciled \in BOOLEAN /\ dynamicDay \in Int /\ dynamicEvent \in Nat
    /\ operation \in Operations /\ inFlight \subseteq SentRequests /\ center \in Centers
    /\ eventDay \in Seq(Int) /\ rankingDay \in Int

\* How far the keeper, the operation and the center have come with each other.
StagesFit ==
    /\ rankStore.status \in {"disabled", "joining"} =>
          inFlight = {} /\ center.sequence = 0 /\ rankBackup = Disabled
    /\ rankStore.status \notin {"disabled", "joining"} => center.status # "unknown"
    /\ rankBackup = Disabled \/ rankBackup.status = "active"
    /\ operation.pc = "register" => rankStore.status = "joining" /\ ~operation.complete
    /\ operation.pc \notin {"idle", "register"} => rankStore.status \in {"active", "paused"}
    /\ operation.pc \notin {"idle", "register", "reconcile"} => reconciled
    /\ operation.pc \in {"sync", "today", "aggregate", "reported"} => operation.goal = "sync"
    /\ operation.pc # "idle" => operation.goal \in {"sync", "delete"}

\* The request an operation waits for once it was sent.
AwaitedRequest(op) ==
    [kind |-> IF op.goal = "delete" THEN "delete" ELSE "report", sequence |-> op.sequence,
     day |-> op.day, complete |-> op.complete, events |-> op.events]

\* No number is given twice, and the newest is the one that is waited for.
NumbersFit ==
    /\ \A r \in inFlight : r.sequence <= rankStore.sequence
    /\ reconciled => center.sequence <= rankStore.sequence
    /\ operation.pc = "sent" =>
          /\ operation.sequence = rankStore.sequence /\ center.sequence < operation.sequence
          /\ \A r \in inFlight : r.sequence = operation.sequence => r = AwaitedRequest(operation)

\* What the keeper, its memory and the copy of its settings take as received.
Beliefs == {[day |-> rankStore.completeDay, event |-> rankStore.completeEvent],
            [day |-> dynamicDay, event |-> dynamicEvent],
            [day |-> rankBackup.completeDay, event |-> rankBackup.completeEvent]}

EarlyEvents(day, event) == {e \in Events(day) : e <= event}

Covers(events, day) ==
    \A b \in Beliefs : b.day = day /\ b.event # 0 => EarlyEvents(day, b.event) \subseteq events

BeliefsTrue ==
    \A b \in Beliefs : /\ b.event \in 0 .. Len(eventDay)
                       /\ b.event # 0 => HasReport(b.day, b.event)

\* A report that may still be accepted takes nothing away.
RequestsCover ==
    \A r \in inFlight : r.kind = "report" /\ r.sequence > center.sequence => Covers(r.events, r.day)

OperationCovers ==
    /\ operation.event \in 0 .. Len(eventDay)
    /\ operation.pc \in {"allocate", "sent"} /\ operation.goal = "sync" =>
          /\ Covers(operation.events, operation.day)
          /\ EarlyEvents(operation.day, operation.event) \subseteq operation.events

BeliefsFit == BeliefsTrue /\ RequestsCover /\ OperationCovers

RankingInv == RankingTyped /\ StagesFit /\ NumbersFit /\ BeliefsFit /\ DeletedTogether

LEMMA RankingInvAgrees == RankingInv => RankingAgrees
<1> SUFFICES ASSUME RankingInv PROVE RankingAgrees
    OBVIOUS
<1>1. ReportedMeansReceived
  BY DEF RankingInv, BeliefsFit, BeliefsTrue, Beliefs, ReportedMeansReceived
<1>2. NumbersAreFresh
  BY DEF RankingInv, NumbersFit, NumbersAreFresh, Waits, RankingTyped
<1> QED BY <1>1, <1>2 DEF RankingAgrees, RankingInv

\* The largest of some numbers up to a limit.
LEMMA NaturalsHaveLeast == ASSUME NEW S, S \subseteq Nat, S # {} PROVE \E x \in S : \A y \in S : x <= y
<1> DEFINE Less == {ss \in Nat \X Nat : ss[1] < ss[2]}
<1>1. IsWellFoundedOn(Less, Nat)
  BY NatLessThanWellFounded DEF OpToRel
<1>2. PICK x \in S : \A y \in S : ~(<<y, x>> \in Less)
  BY <1>1, WFMin
<1>3. \A y \in S : x <= y
  <2> TAKE y \in S
  <2>1. x \in Nat /\ y \in Nat
    OBVIOUS
  <2>2. ~(y < x)
    BY <1>2, <2>1
  <2> QED BY <2>1, <2>2
<1> QED BY <1>3

LEMMA LargestIsThere ==
    ASSUME NEW n \in Nat, NEW S \in SUBSET (0 .. n), S # {}
    PROVE  Max(S) \in S /\ \A x \in S : x <= Max(S)
<1> DEFINE D == {d \in Nat : n - d \in S}
<1>1. D # {}
  <2>1. PICK x \in S : TRUE
    OBVIOUS
  <2>2. n - x \in Nat /\ n - (n - x) = x
    BY <2>1
  <2> QED BY <2>1, <2>2
<1>2. PICK d \in D : \A y \in D : d <= y
  BY <1>1, NaturalsHaveLeast
<1>3. \A x \in S : x <= n - d
  <2> TAKE x \in S
  <2>1. n - x \in D /\ x \in 0 .. n
    OBVIOUS
  <2>2. d <= n - x
    BY <1>2, <2>1
  <2> QED BY <1>2, <2>1, <2>2
<1>4. n - d \in S
  BY <1>2
<1>5. \E x \in S : \A y \in S : x >= y
  <2>1. \A y \in S : n - d >= y
    BY <1>2, <1>3
  <2> QED BY <1>4, <2>1
<1>6. Max(S) \in S /\ \A y \in S : Max(S) >= y
  BY <1>5 DEF Max
<1> QED BY <1>6

LEMMA LatestIsThere ==
    ASSUME eventDay \in Seq(Int), NEW day
    PROVE  LatestEvent(day) \in 0 .. Len(eventDay)
<1>1. {0} \cup Events(day) \in SUBSET (0 .. Len(eventDay))
  BY DEF Events
<1>2. Len(eventDay) \in Nat
  OBVIOUS
<1>3. LatestEvent(day) \in {0} \cup Events(day)
  <2> DEFINE n == Len(eventDay) S == {0} \cup Events(day)
  <2>1. n \in Nat /\ S \in SUBSET (0 .. n) /\ S # {}
    BY <1>1, <1>2
  <2> HIDE DEF n, S
  <2>2. Max(S) \in S
    BY <2>1, LargestIsThere
  <2> QED BY <2>2 DEF LatestEvent, S
<1> QED BY <1>1, <1>3

LEMMA LaterOfTwo == ASSUME NEW x \in Nat, NEW y \in Nat PROVE /\ Max({x, y}) \in {x, y} 
                         /\ Max({x, y}) >= x /\ Max({x, y}) >= y
<1>1. \E u \in {x, y} : \A v \in {x, y} : u >= v
  OBVIOUS
<1> QED BY <1>1 DEF Max

\* Who believes no more than before, of the same events, is covered as before.
LEMMA CoversKept ==
    ASSUME UNCHANGED eventDay, \A b \in Beliefs' : b \in Beliefs \/ b.event = 0,
           NEW events, NEW day, Covers(events, day)
    PROVE  Covers(events, day)'
<1>1. \A event : EarlyEvents(day, event)' = EarlyEvents(day, event)
  BY DEF EarlyEvents, Events
<1> QED BY <1>1 DEF Covers

LEMMA BelievingKeeps ==
    ASSUME BeliefsFit, eventDay \in Seq(Int), UNCHANGED eventDay,
           center'.reports = center.reports, center'.sequence \in Nat,
           center.sequence \in Nat, center.sequence <= center'.sequence,
           inFlight \subseteq SentRequests, inFlight' \subseteq inFlight,
           \A b \in Beliefs' : b \in Beliefs \/ b.event = 0
    PROVE  BeliefsTrue' /\ RequestsCover'
<1>1. \A day, event : EarlyEvents(day, event)' = EarlyEvents(day, event)
  BY DEF EarlyEvents, Events
<1>2. \A day, event : HasReport(day, event)' <=> HasReport(day, event)
  BY DEF HasReport, Events
<1>3. BeliefsTrue'
  <2> SUFFICES ASSUME NEW b \in Beliefs'
               PROVE  /\ b.event \in 0 .. Len(eventDay)'
                      /\ b.event # 0 => HasReport(b.day, b.event)'
      BY DEF BeliefsTrue
  <2>1. CASE b \in Beliefs
    BY <1>2, <2>1 DEF BeliefsFit, BeliefsTrue
  <2>2. CASE b.event = 0
    <3>1. Len(eventDay) \in Nat
      OBVIOUS
    <3> QED BY <2>2, <3>1
  <2> QED BY <2>1, <2>2
<1>4. RequestsCover'
  <2> SUFFICES ASSUME NEW r \in inFlight', r.kind = "report", r.sequence > center'.sequence
               PROVE  Covers(r.events, r.day)'
      BY DEF RequestsCover
  <2>0. r.sequence > center.sequence
    BY DEF SentRequests
  <2>1. Covers(r.events, r.day)
    BY <2>0 DEF BeliefsFit, RequestsCover
  <2> QED BY <2>1, CoversKept
<1> QED BY <1>3, <1>4

LEMMA QuietKeeps ==
    ASSUME BeliefsFit, eventDay \in Seq(Int), UNCHANGED eventDay,
           center'.reports = center.reports, center'.sequence \in Nat,
           center.sequence \in Nat, center.sequence <= center'.sequence,
           inFlight \subseteq SentRequests, inFlight' \subseteq inFlight,
           \A b \in Beliefs' : b \in Beliefs \/ b.event = 0,
           \/ UNCHANGED operation
           \/ /\ operation'.event \in 0 .. Len(eventDay)
              /\ operation'.pc \in {"allocate", "sent"} => operation'.goal # "sync"
    PROVE  BeliefsFit'
<1>1. \A day, event : EarlyEvents(day, event)' = EarlyEvents(day, event)
  BY DEF EarlyEvents, Events
<1>3. BeliefsTrue' /\ RequestsCover'
  BY BelievingKeeps
<1>5. OperationCovers'
  <2>1. CASE UNCHANGED operation
    <3>1. operation'.event \in 0 .. Len(eventDay)'
      BY <2>1 DEF BeliefsFit, OperationCovers
    <3>2. ASSUME operation'.pc \in {"allocate", "sent"}, operation'.goal = "sync"
          PROVE  /\ Covers(operation.events, operation.day)'
                 /\ EarlyEvents(operation.day, operation.event)' \subseteq operation'.events
      <4> DEFINE events == operation.events day == operation.day
      <4>0. PICK ev, d, e : ev = operation.events /\ d = operation.day /\ e = operation.event
        OBVIOUS
      <4>1. Covers(ev, d) /\ EarlyEvents(d, e) \subseteq ev
        BY <2>1, <3>2, <4>0 DEF BeliefsFit, OperationCovers
      <4>2. Covers(ev, d)'
        BY <4>1, CoversKept
      <4>3. EarlyEvents(d, e)' \subseteq ev
        BY <4>1, <1>1
      <4>4. ev = operation'.events /\ d = operation'.day /\ e = operation'.event
        BY <2>1, <4>0
      <4> QED BY <4>2, <4>3, <4>4
    <3> QED BY <3>1, <3>2 DEF OperationCovers
  <2>2. CASE /\ operation'.event \in 0 .. Len(eventDay)
             /\ operation'.pc \in {"allocate", "sent"} => operation'.goal # "sync"
    BY <2>2 DEF OperationCovers
  <2> QED BY <2>1, <2>2
<1> QED BY <1>3, <1>5 DEF BeliefsFit

-----------------------------------------------------------------------------
\* Each step keeps the types, the stages and the numbers.

LEMMA NothingDone == NoOperation \in Operations
BY DEF NoOperation, Operations, OperationPlaces

LEMMA RankingInitHolds == RankingInit => RankingInv
<1> SUFFICES ASSUME RankingInit PROVE RankingInv
    OBVIOUS
<1>1. RankingTyped
  <2>1. Disabled \in Participations
    BY DEF Disabled, Participations, ParticipationStatuses
  <2>2. NoOperation \in Operations
    BY NothingDone
  <2>3. center \in Centers
    BY DEF RankingInit, Centers
  <2>4. eventDay \in Seq(Int) /\ dynamicEvent \in Nat /\ dynamicDay \in Int /\ rankingDay \in Int
    BY DEF RankingInit
  <2>5. reconciled \in BOOLEAN /\ inFlight \subseteq SentRequests
    BY DEF RankingInit
  <2>6. rankStore = Disabled /\ rankBackup = Disabled /\ operation = NoOperation
    BY DEF RankingInit
  <2>7. rankStore \in Participations /\ rankBackup \in Participations /\ operation \in Operations
    BY <2>1, <2>2, <2>6
  <2> QED BY <2>3, <2>4, <2>5, <2>7, Zenon DEF RankingTyped
<1>2. StagesFit /\ DeletedTogether
  BY DEF RankingInit, StagesFit, DeletedTogether, Disabled, NoOperation
<1>3. NumbersFit
  BY DEF RankingInit, NumbersFit, Disabled, NoOperation
<1>4. BeliefsFit
  BY DEF RankingInit, BeliefsFit, BeliefsTrue, RequestsCover, OperationCovers, Beliefs, Disabled,
         NoOperation
<1> QED BY <1>1, <1>2, <1>3, <1>4 DEF RankingInv

\* Starting an operation.
LEMMA StartingKeeps ==
    ASSUME RankingInv, Join \/ RunOnce \/ Pause \/ Resume \/ Exit PROVE RankingInv'
<1>0. /\ UNCHANGED <<rankingMemory, inFlight, center, rankingWorld>>
      /\ rankStore'.completeDay = rankStore.completeDay
      /\ rankStore'.completeEvent = rankStore.completeEvent
      /\ rankStore'.sequence = rankStore.sequence
  BY DEF Join, RunOnce, Pause, Resume, Exit, RankingInv, RankingTyped, Participations
<1>1. RankingTyped'
  <2>1. rankStore' \in Participations
    BY DEF Join, RunOnce, Pause, Resume, Exit, RankingInv, RankingTyped, Participations, ParticipationStatuses
  <2>2. operation' \in Operations
    <3>1. operation \in Operations
      BY DEF RankingInv, RankingTyped
    <3>2. ASSUME NEW pc \in OperationPlaces, NEW goal \in {"sync", "delete"}, NEW last \in BOOLEAN
          PROVE  [NoOperation EXCEPT !.pc = pc, !.goal = goal, !.last = last] \in Operations
      BY NothingDone DEF Operations
    <3>3. CASE Join
      BY <3>3, <3>2 DEF Join, OperationPlaces
    <3>4. CASE RunOnce
      <4>1. operation' = [NoOperation EXCEPT !.pc = IF reconciled THEN "sync" ELSE "reconcile",
                                        !.goal = "sync", !.last = ~reconciled]
        BY <3>4 DEF RunOnce
      <4> QED BY <4>1, <3>2 DEF OperationPlaces
    <3>5. CASE Exit
      BY <3>5, NothingDone DEF Exit, Operations, OperationPlaces
    <3> QED BY <3>1, <3>3, <3>4, <3>5 DEF Pause, Resume
  <2> QED BY <1>0, <2>1, <2>2 DEF RankingInv, RankingTyped, rankingMemory, rankingWorld
<1>2. StagesFit' /\ DeletedTogether'
  <2>0. /\ StagesFit /\ DeletedTogether /\ rankStore \in Participations
        /\ UNCHANGED <<reconciled, inFlight, center, rankBackup>>
    BY <1>0 DEF RankingInv, RankingTyped, rankingMemory, rankingWorld
  <2>1. CASE Join
    <3>1. /\ rankStore.status \in {"disabled", "joining"} /\ rankStore'.status = "joining"
          /\ operation'.pc = "register" /\ ~operation'.complete /\ operation'.goal = "sync"
      BY <2>0, <2>1 DEF Join, NoOperation, Participations
    <3> QED BY <2>0, <3>1 DEF StagesFit, DeletedTogether
  <2>2. CASE RunOnce
    <3>1. /\ rankStore.status = "active" /\ rankStore' = rankStore
          /\ operation'.pc = (IF reconciled THEN "sync" ELSE "reconcile")
          /\ operation'.goal = "sync"
      BY <2>2 DEF RunOnce, NoOperation
    <3> QED BY <2>0, <3>1 DEF StagesFit, DeletedTogether
  <2>3. CASE Pause \/ Resume
    <3>1. /\ rankStore.status \in {"active", "paused"} /\ rankStore'.status \in {"active", "paused"}
          /\ operation' = operation
      BY <2>0, <2>3 DEF Pause, Resume, Participations
    <3> QED BY <2>0, <3>1 DEF StagesFit, DeletedTogether
  <2>4. CASE Exit
    <3>1. /\ rankStore.status \in {"joining", "active", "paused"} /\ rankStore' = rankStore
          /\ operation'.pc = (IF rankStore.status = "joining" THEN "register"
                              ELSE IF reconciled THEN "allocate" ELSE "reconcile")
          /\ ~operation'.complete /\ operation'.goal = "delete"
      BY <2>4 DEF Exit, NoOperation
    <3> QED BY <2>0, <3>1 DEF StagesFit, DeletedTogether
  <2> QED BY <2>1, <2>2, <2>3, <2>4
<1>3. NumbersFit'
  BY <1>0 DEF Join, RunOnce, Pause, Resume, Exit, RankingInv, NumbersFit, NoOperation,
              rankingMemory
<1>4. BeliefsFit'
  <2>1. Beliefs' = Beliefs
    BY <1>0 DEF Beliefs, rankingMemory, rankingWorld
  <2>2. \/ UNCHANGED operation
        \/ /\ operation'.event = 0
           /\ operation'.pc \in {"allocate", "sent"} => operation'.goal # "sync"
    BY DEF Join, RunOnce, Pause, Resume, Exit, NoOperation
  <2>3. 0 \in 0 .. Len(eventDay)
    BY DEF RankingInv, RankingTyped
  <2>4. /\ BeliefsFit /\ eventDay \in Seq(Int) /\ inFlight \subseteq SentRequests
        /\ center.sequence \in Nat
    BY DEF RankingInv, RankingTyped, Centers
  <2>5. UNCHANGED eventDay /\ center' = center /\ inFlight' = inFlight
    BY <1>0 DEF rankingWorld
  <2>6. center.sequence <= center'.sequence
    BY <2>4, <2>5
  <2>7. \/ UNCHANGED operation
        \/ /\ operation'.event \in 0 .. Len(eventDay)
           /\ operation'.pc \in {"allocate", "sent"} => operation'.goal # "sync"
    BY <2>2, <2>3
  <2>8. \A b \in Beliefs' : b \in Beliefs \/ b.event = 0
    BY <2>1
  <2> QED BY <2>4, <2>5, <2>6, <2>7, <2>8, QuietKeeps
<1> QED BY <1>1, <1>2, <1>3, <1>4 DEF RankingInv

\* Registration and reconciliation. The center and the keeper meet at the larger
\* of their numbers.
LEMMA MarkDeletedStays ==
    ASSUME RankingInv, MarkDeleted, center'.status = "deleted",
           center'.sequence \in Nat, center.sequence <= center'.sequence,
           reconciled => center'.sequence <= rankStore.sequence,
           center'.reports = center.reports, inFlight' \subseteq inFlight,
           UNCHANGED <<reconciled, dynamicDay, dynamicEvent, rankBackup, eventDay>>
    PROVE  /\ rankStore' \in Participations /\ operation' \in Operations
           /\ StagesFit' /\ DeletedTogether' /\ NumbersFit' /\ BeliefsFit'
<1>1. /\ operation' = NoOperation /\ rankStore \in Participations
      /\ rankStore' = [rankStore EXCEPT !.status = "deleted"]
  BY DEF MarkDeleted, RankingInv, RankingTyped
<1>2. /\ rankStore' \in Participations /\ rankStore'.status = "deleted"
      /\ rankStore'.sequence = rankStore.sequence
      /\ rankStore'.completeDay = rankStore.completeDay
      /\ rankStore'.completeEvent = rankStore.completeEvent
  BY <1>1 DEF Participations, ParticipationStatuses
<1>3. /\ operation'.pc = "idle" /\ operation'.event = 0 /\ operation'.goal = "none"
      /\ operation' \in Operations
  BY <1>1, NothingDone DEF NoOperation
<1>4. StagesFit' /\ DeletedTogether'
  BY <1>2, <1>3 DEF RankingInv, StagesFit, DeletedTogether
<1>5. NumbersFit'
  BY <1>2, <1>3 DEF RankingInv, NumbersFit, RankingTyped, Participations, Centers
<1>6. BeliefsFit'
  <2>1. Beliefs' = Beliefs
    BY <1>2 DEF Beliefs
  <2>2. eventDay \in Seq(Int) /\ center.sequence \in Nat /\ inFlight \subseteq SentRequests
    BY DEF RankingInv, RankingTyped, Centers
  <2>3. 0 \in 0 .. Len(eventDay)
    BY <2>2
  <2> QED BY <1>3, <2>1, <2>2, <2>3, QuietKeeps DEF RankingInv
<1> QED BY <1>2, <1>3, <1>4, <1>5, <1>6

LEMMA RegisterKeeps == RankingInv /\ (Register \/ RegisterUnanswered) => RankingInv'
<1> SUFFICES ASSUME RankingInv, Register \/ RegisterUnanswered PROVE RankingInv'
    OBVIOUS
<1>0. /\ RankingTyped /\ StagesFit /\ NumbersFit /\ BeliefsFit /\ DeletedTogether
      /\ rankStore \in Participations /\ center \in Centers /\ operation \in Operations
      /\ operation.pc = "register" /\ rankStore.status = "joining" /\ ~operation.complete
      /\ inFlight = {} /\ center.sequence = 0 /\ rankBackup = Disabled
      /\ UNCHANGED <<dynamicDay, dynamicEvent, inFlight, rankingWorld>>
  BY DEF Register, RegisterUnanswered, RankingInv, RankingTyped, StagesFit, rankingMemory
<1>1. CASE center.status = "deleted"
  <2>1. MarkDeleted /\ UNCHANGED <<reconciled, center>>
    BY <1>0, <1>1 DEF Register, RegisterUnanswered
  <2>2. 0 <= rankStore.sequence
    BY <1>0 DEF Participations
  <2>3. /\ rankStore' \in Participations /\ operation' \in Operations
        /\ StagesFit' /\ DeletedTogether' /\ NumbersFit' /\ BeliefsFit'
    BY <1>0, <1>1, <2>1, <2>2, MarkDeletedStays DEF rankingWorld
  <2>4. RankingTyped'
    BY <1>0, <2>1, <2>3 DEF RankingTyped, rankingWorld
  <2> QED BY <2>3, <2>4 DEF RankingInv
<1>2. CASE center.status # "deleted"
  <2>1. /\ center' = [center EXCEPT !.status = "active", !.profile = rankStore.profile]
        /\ \/ /\ rankStore' = [rankStore EXCEPT !.status = "active", !.started = rankingDay]
              /\ reconciled' = TRUE
              /\ operation' = [operation EXCEPT !.pc =
                                  IF operation.goal = "sync" THEN "sync" ELSE "allocate"]
           \/ /\ operation' = NoOperation /\ UNCHANGED <<rankStore, reconciled>>
    BY <1>0, <1>2 DEF Register, RegisterUnanswered, rankingMemory
  <2>2. /\ center' \in Centers /\ center'.status = "active"
        /\ center'.sequence = 0 /\ center'.reports = center.reports
    BY <1>0, <2>1 DEF Centers, Participations
  <2> DEFINE done == operation' = NoOperation /\ UNCHANGED <<rankStore, reconciled>>
             next == IF operation.goal = "sync" THEN "sync" ELSE "allocate"
             goes == /\ rankStore' = [rankStore EXCEPT !.status = "active", !.started = rankingDay]
                     /\ reconciled' = TRUE
                     /\ operation' = [operation EXCEPT !.pc = next]
  <2>a. done \/ goes
    BY <2>1
  <2>b. rankingDay \in Int /\ operation.goal \in {"sync", "delete"}
    BY <1>0 DEF RankingTyped, StagesFit
  <2>3. /\ rankStore' \in Participations /\ rankStore'.status \in {"active", "joining"}
        /\ rankStore'.completeDay = rankStore.completeDay
        /\ rankStore'.completeEvent = rankStore.completeEvent
    <3>1. CASE done
      BY <1>0, <3>1
    <3>2. CASE goes
      <4>1. rankStore' = [rankStore EXCEPT !.status = "active", !.started = rankingDay]
        BY <3>2
      <4> QED BY <1>0, <2>b, <4>1 DEF Participations, ParticipationStatuses
    <3> QED BY <2>a, <3>1, <3>2
  <2>c. operation'.pc # "idle" => rankStore'.status = "active" /\ reconciled' = TRUE
    <3>1. CASE done
      BY <3>1 DEF NoOperation
    <3>2. CASE goes
      BY <1>0, <3>2 DEF Participations
    <3> QED BY <2>a, <3>1, <3>2
  <2>4. /\ operation' \in Operations /\ operation'.pc \in {"idle", "sync", "allocate"}
        /\ operation'.pc = "sync" => operation'.goal = "sync"
        /\ operation'.pc = "allocate" => operation'.goal # "sync"
        /\ operation'.event \in {0, operation.event}
        /\ operation'.pc # "idle" => operation'.goal \in {"sync", "delete"}
    <3>1. CASE done
      BY <3>1, NothingDone DEF NoOperation
    <3>2. CASE goes
      <4>1. operation' = [operation EXCEPT !.pc = next]
        BY <3>2
      <4> QED BY <1>0, <2>b, <4>1 DEF Operations, OperationPlaces
    <3> QED BY <2>a, <3>1, <3>2
  <2>5. RankingTyped'
    <3>1. reconciled' \in BOOLEAN
      BY <1>0, <2>a, Zenon DEF RankingTyped
    <3> HIDE DEF done, goes
    <3> QED BY <1>0, <2>2, <2>3, <2>4, <3>1 DEF RankingTyped, rankingWorld
  <2>6. StagesFit' /\ DeletedTogether'
    BY <1>0, <2>2, <2>3, <2>c, <2>4 DEF StagesFit, DeletedTogether, rankingWorld
  <2>7. NumbersFit'
    BY <1>0, <2>2, <2>3, <2>4 DEF NumbersFit, Participations
  <2>8. BeliefsFit'
    <3>1. Beliefs' = Beliefs
      BY <1>0, <2>3 DEF Beliefs, rankingWorld
    <3>2. eventDay \in Seq(Int) /\ inFlight \subseteq SentRequests
      BY <1>0 DEF RankingTyped
    <3>3. operation'.event \in 0 .. Len(eventDay)
      BY <1>0, <2>4, <3>2 DEF BeliefsFit, OperationCovers
    <3>4. operation'.pc \in {"allocate", "sent"} => operation'.goal # "sync"
      BY <2>4
    <3> QED BY <1>0, <2>2, <3>1, <3>2, <3>3, <3>4, QuietKeeps DEF rankingWorld
  <2> QED BY <2>5, <2>6, <2>7, <2>8 DEF RankingInv
<1> QED BY <1>1, <1>2

LEMMA ReconcileKeeps == RankingInv /\ Reconcile => RankingInv'
<1> SUFFICES ASSUME RankingInv, Reconcile PROVE RankingInv'
    OBVIOUS
<1>0. /\ RankingTyped /\ StagesFit /\ NumbersFit /\ BeliefsFit /\ DeletedTogether
      /\ rankStore \in Participations /\ center \in Centers /\ operation \in Operations
      /\ operation.pc = "reconcile" /\ rankStore.status \in {"active", "paused"}
      /\ UNCHANGED <<dynamicDay, dynamicEvent, inFlight, center, rankingWorld>>
  BY DEF Reconcile, RankingInv, RankingTyped, StagesFit
<1>1. CASE center.status = "deleted"
  <2>1. MarkDeleted /\ UNCHANGED reconciled
    BY <1>1 DEF Reconcile
  <2>2. center.sequence \in Nat /\ (reconciled => center.sequence <= rankStore.sequence)
    BY <1>0 DEF Centers, NumbersFit
  <2>3. /\ rankStore' \in Participations /\ operation' \in Operations
        /\ StagesFit' /\ DeletedTogether' /\ NumbersFit' /\ BeliefsFit'
    BY <1>0, <1>1, <2>1, <2>2, MarkDeletedStays DEF rankingWorld
  <2>4. RankingTyped'
    BY <1>0, <2>1, <2>3 DEF RankingTyped, rankingWorld
  <2> QED BY <2>3, <2>4 DEF RankingInv
<1>2. CASE center.status # "deleted"
  <2> DEFINE larger == Max({rankStore.sequence, center.sequence})
  <2>1. /\ rankStore' = [rankStore EXCEPT !.sequence = larger] /\ reconciled' = TRUE
        /\ operation' = [operation EXCEPT !.pc =
                             IF operation.goal = "delete" THEN "allocate"
                             ELSE IF operation.last THEN "sync" ELSE "end"]
    BY <1>2 DEF Reconcile
  <2>2. larger \in Nat /\ larger >= rankStore.sequence /\ larger >= center.sequence
    <3>1. rankStore.sequence \in Nat /\ center.sequence \in Nat
      BY <1>0 DEF Participations, Centers
    <3> QED BY <3>1, LaterOfTwo
  <2> HIDE DEF larger
  <2>3. /\ rankStore' \in Participations /\ rankStore'.status = rankStore.status
        /\ rankStore'.completeDay = rankStore.completeDay /\ rankStore'.sequence = larger
        /\ rankStore'.completeEvent = rankStore.completeEvent
    BY <1>0, <2>1, <2>2 DEF Participations
  <2>4. /\ operation' \in Operations /\ operation'.pc \in {"allocate", "sync", "end"}
        /\ operation'.event = operation.event /\ operation'.goal = operation.goal
        /\ operation'.pc = "allocate" => operation'.goal # "sync"
    BY <1>0, <2>1 DEF Operations, OperationPlaces
  <2>5. operation'.pc = "sync" => operation'.goal = "sync"
    BY <1>0, <2>1 DEF Operations, StagesFit
  <2>6. RankingTyped'
    BY <1>0, <2>1, <2>3, <2>4 DEF RankingTyped, rankingWorld
  <2>7. StagesFit' /\ DeletedTogether'
    BY <1>0, <2>1, <2>3, <2>4, <2>5 DEF StagesFit, DeletedTogether, rankingWorld
  <2>8. NumbersFit'
    <3>1. \A r \in inFlight : r.sequence \in Nat
      BY <1>0 DEF RankingTyped, SentRequests
    <3> QED BY <1>0, <2>2, <2>3, <2>4, <3>1 DEF NumbersFit, Participations
  <2>9. BeliefsFit'
    <3>1. Beliefs' = Beliefs
      BY <1>0, <2>3 DEF Beliefs, rankingWorld
    <3>2. eventDay \in Seq(Int) /\ inFlight \subseteq SentRequests /\ center.sequence \in Nat
      BY <1>0 DEF RankingTyped, Centers
    <3>3. operation'.event \in 0 .. Len(eventDay)
      BY <1>0, <2>4, <3>2 DEF BeliefsFit, OperationCovers
    <3>4. operation'.pc \in {"allocate", "sent"} => operation'.goal # "sync"
      BY <2>4
    <3> QED BY <1>0, <3>1, <3>2, <3>3, <3>4, QuietKeeps DEF rankingWorld
  <2> QED BY <2>6, <2>7, <2>8, <2>9 DEF RankingInv
<1> QED BY <1>1, <1>2

\* A step that gives no number, sends nothing and believes no more.
LEMMA QuietStepKeeps ==
    ASSUME RankingInv, UNCHANGED <<center, eventDay>>, RankingTyped', StagesFit', DeletedTogether',
           inFlight' \subseteq inFlight, rankStore'.sequence = rankStore.sequence,
           reconciled' => reconciled, \A b \in Beliefs' : b \in Beliefs \/ b.event = 0,
           \/ UNCHANGED operation
           \/ /\ operation'.event \in 0 .. Len(eventDay) /\ operation'.pc # "sent"
              /\ operation'.pc = "allocate" => operation'.goal # "sync"
    PROVE  RankingInv'
<1>1. NumbersFit'
  BY DEF RankingInv, NumbersFit
<1>2. BeliefsFit'
  <2>1. /\ eventDay \in Seq(Int) /\ inFlight \subseteq SentRequests /\ center.sequence \in Nat
        /\ BeliefsFit
    BY DEF RankingInv, RankingTyped, Centers
  <2>2. \/ UNCHANGED operation
        \/ /\ operation'.event \in 0 .. Len(eventDay)
           /\ operation'.pc \in {"allocate", "sent"} => operation'.goal # "sync"
    OBVIOUS
  <2> QED BY <2>1, <2>2, QuietKeeps
<1> QED BY <1>1, <1>2 DEF RankingInv

\* What is looked at before a day is aggregated.
LEMMA LookingKeeps == RankingInv /\ (LookAtYesterday \/ LookAtToday) => RankingInv'
<1> SUFFICES ASSUME RankingInv, LookAtYesterday \/ LookAtToday PROVE RankingInv'
    OBVIOUS
<1>0. /\ RankingTyped /\ StagesFit /\ DeletedTogether /\ rankStore \in Participations
      /\ operation \in Operations /\ eventDay \in Seq(Int)
      /\ operation.pc \in {"sync", "today"} /\ operation.goal = "sync"
      /\ rankStore.status \in {"active", "paused"} /\ reconciled
      /\ UNCHANGED <<reconciled, inFlight, center, rankingWorld>>
  BY DEF LookAtYesterday, LookAtToday, RankingInv, RankingTyped, StagesFit, rankingMemory
<1>1. \E day \in Int, today \in Int, complete \in BOOLEAN, pc \in {"aggregate", "today", "reported"} :
          operation' = [operation EXCEPT !.today = today, !.day = day, !.event = LatestEvent(day),
                                         !.complete = complete, !.pc = pc]
  <2>1. CASE LookAtYesterday
    <3>1. PICK pc \in {"aggregate", "today"} :
             operation' = [operation EXCEPT !.today = rankingDay, !.day = rankingDay - 1,
                              !.event = LatestEvent(rankingDay - 1), !.complete = TRUE, !.pc = pc]
      BY <2>1 DEF LookAtYesterday
    <3>2. rankingDay \in Int /\ rankingDay - 1 \in Int
      BY <1>0 DEF RankingTyped
    <3> QED BY <3>1, <3>2
  <2>2. CASE LookAtToday
    <3>1. PICK pc \in {"aggregate", "reported"} :
             operation' = [operation EXCEPT !.day = operation.today,
                              !.event = LatestEvent(operation.today), !.complete = FALSE, !.pc = pc]
      BY <2>2 DEF LookAtToday
    <3>2. operation.today \in Int
      BY <1>0 DEF Operations
    <3>3. operation' = [operation EXCEPT !.today = operation.today, !.day = operation.today,
                           !.event = LatestEvent(operation.today), !.complete = FALSE, !.pc = pc]
      BY <1>0, <3>1 DEF Operations
    <3> QED BY <3>2, <3>3
  <2> QED BY <2>1, <2>2
<1>2. /\ operation' \in Operations /\ operation'.pc \in {"aggregate", "today", "reported"}
      /\ operation'.goal = "sync" /\ operation'.event \in 0 .. Len(eventDay)
  <2>1. PICK day \in Int, today \in Int, complete \in BOOLEAN,
             pc \in {"aggregate", "today", "reported"} :
          operation' = [operation EXCEPT !.today = today, !.day = day, !.event = LatestEvent(day),
                                         !.complete = complete, !.pc = pc]
    BY <1>1
  <2>2. LatestEvent(day) \in 0 .. Len(eventDay)
    BY <1>0, LatestIsThere
  <2>3. LatestEvent(day) \in Nat
    BY <1>0, <2>2
  <2> QED BY <1>0, <2>1, <2>2, <2>3 DEF Operations, OperationPlaces
<1>3. /\ rankStore' \in Participations /\ rankStore'.status = rankStore.status
      /\ rankStore'.sequence = rankStore.sequence
      /\ \/ rankStore'.completeEvent = 0
         \/ /\ rankStore'.completeDay = rankStore.completeDay
            /\ rankStore'.completeEvent = rankStore.completeEvent
  <2>1. CASE LookAtYesterday
    <3>1. \/ rankStore' = [rankStore EXCEPT !.completeDay = rankingDay - 1, !.completeEvent = 0]
          \/ rankStore' = rankStore
      BY <2>1 DEF LookAtYesterday
    <3>2. rankingDay - 1 \in Int
      BY <1>0 DEF RankingTyped
    <3>3. CASE rankStore' = rankStore
      BY <1>0, <3>3
    <3>4. ASSUME NEW day \in Int,
                 rankStore' = [rankStore EXCEPT !.completeDay = day, !.completeEvent = 0]
          PROVE  /\ rankStore' \in Participations /\ rankStore'.status = rankStore.status
                 /\ rankStore'.sequence = rankStore.sequence /\ rankStore'.completeEvent = 0
      BY <1>0, <3>4 DEF Participations
    <3> QED BY <3>1, <3>2, <3>3, <3>4
  <2>2. CASE LookAtToday
    BY <1>0, <2>2 DEF LookAtToday
  <2> QED BY <2>1, <2>2
<1>4. /\ dynamicDay' \in Int /\ dynamicEvent' \in Nat
      /\ dynamicEvent' = 0 \/ (dynamicEvent' = dynamicEvent /\ dynamicDay' = dynamicDay)
  <2>1. CASE LookAtYesterday
    BY <1>0, <2>1 DEF LookAtYesterday, RankingTyped, rankingMemory
  <2>2. CASE LookAtToday
    <3>1. /\ dynamicDay' \in {operation.today, dynamicDay}
          /\ dynamicEvent' = 0 \/ (dynamicEvent' = dynamicEvent /\ dynamicDay' = dynamicDay)
      BY <2>2 DEF LookAtToday
    <3> QED BY <1>0, <3>1 DEF RankingTyped, Operations
  <2> QED BY <2>1, <2>2
<1>5. RankingTyped'
  BY <1>0, <1>2, <1>3, <1>4 DEF RankingTyped, rankingWorld
<1>6. StagesFit' /\ DeletedTogether'
  BY <1>0, <1>2, <1>3 DEF StagesFit, DeletedTogether, rankingWorld
<1>7. \A b \in Beliefs' : b \in Beliefs \/ b.event = 0
  BY <1>0, <1>3, <1>4 DEF Beliefs, rankingWorld
<1> QED BY <1>0, <1>2, <1>3, <1>5, <1>6, <1>7, QuietStepKeeps DEF rankingWorld

\* The end of a synchronisation, with or without its answers.
LEMMA EndingKeeps == RankingInv /\ (EndSync \/ GiveUp) => RankingInv'
<1> SUFFICES ASSUME RankingInv, EndSync \/ GiveUp PROVE RankingInv'
    OBVIOUS
<1>0. /\ RankingTyped /\ StagesFit /\ DeletedTogether /\ BeliefsFit
      /\ operation \in Operations /\ eventDay \in Seq(Int) /\ operation.pc # "idle"
      /\ UNCHANGED <<rankStore, rankingMemory, inFlight, center, rankingWorld>>
  BY DEF EndSync, GiveUp, RankingInv, RankingTyped
<1>1. \/ operation' = NoOperation
      \/ /\ operation.pc = "reported" /\ operation' = [operation EXCEPT !.pc = "reconcile"]
      \/ /\ operation.goal = "sync" /\ operation.complete /\ operation.pc # "reconcile"
         /\ operation' = [operation EXCEPT !.pc = "today"]
  BY DEF EndSync, GiveUp
<1>2. /\ operation' \in Operations /\ operation'.event \in {0, operation.event}
      /\ operation'.pc \in {"idle", "reconcile", "today"}
      /\ operation'.pc = "reconcile" => operation.pc = "reported"
      /\ operation'.pc = "today" => /\ operation.pc # "reconcile" /\ operation.complete
                                    /\ operation'.goal = "sync"
      /\ operation'.pc # "idle" => operation'.goal = operation.goal
  <2>1. CASE operation' = NoOperation
    BY <2>1, NothingDone DEF NoOperation
  <2>2. CASE /\ operation.pc = "reported" /\ operation' = [operation EXCEPT !.pc = "reconcile"]
    BY <1>0, <2>2 DEF Operations, OperationPlaces
  <2>3. CASE /\ operation.goal = "sync" /\ operation.complete /\ operation.pc # "reconcile"
             /\ operation' = [operation EXCEPT !.pc = "today"]
    BY <1>0, <2>3 DEF Operations, OperationPlaces
  <2> QED BY <1>1, <2>1, <2>2, <2>3
<1>3. RankingTyped'
  BY <1>0, <1>2 DEF RankingTyped, rankingWorld, rankingMemory
<1>4. StagesFit' /\ DeletedTogether'
  <2>1. UNCHANGED <<rankStore, rankBackup, center, inFlight, reconciled>>
    BY <1>0 DEF rankingWorld, rankingMemory
  <2>2. operation'.pc = "today" => operation.pc # "register"
    BY <1>0, <1>2 DEF StagesFit
  <2> QED BY <1>0, <1>2, <2>1, <2>2 DEF StagesFit, DeletedTogether
<1>5. operation'.event \in 0 .. Len(eventDay)
  <2>1. operation.event \in 0 .. Len(eventDay) /\ 0 \in 0 .. Len(eventDay)
    BY <1>0 DEF BeliefsFit, OperationCovers
  <2> QED BY <1>2, <2>1
<1>6. Beliefs' = Beliefs /\ UNCHANGED <<reconciled, eventDay>>
  BY <1>0 DEF Beliefs, rankingWorld, rankingMemory
<1> QED BY <1>0, <1>2, <1>3, <1>4, <1>5, <1>6, QuietStepKeeps

\* A day is aggregated with all the events it has, whatever was believed of it.
LEMMA AggregateKeeps == RankingInv /\ AggregateDay => RankingInv'
<1> SUFFICES ASSUME RankingInv, AggregateDay PROVE RankingInv'
    OBVIOUS
<1> DEFINE day == operation.day event == operation.event
<1>0. /\ RankingTyped /\ StagesFit /\ DeletedTogether /\ BeliefsFit /\ NumbersFit
      /\ operation \in Operations /\ eventDay \in Seq(Int) /\ center \in Centers
      /\ operation.pc = "aggregate" /\ operation.goal = "sync"
      /\ operation' = [operation EXCEPT !.pc = "allocate", !.events = Events(day)]
      /\ UNCHANGED <<rankStore, rankingMemory, inFlight, center, rankingWorld>>
  BY DEF AggregateDay, RankingInv, RankingTyped, StagesFit
<1>1. Events(day) \in SUBSET Nat
  BY <1>0 DEF Events
<1>2. /\ operation' \in Operations /\ operation'.pc = "allocate" /\ operation'.goal = "sync"
      /\ operation'.day = day /\ operation'.event = event /\ operation'.events = Events(day)
  BY <1>0, <1>1 DEF Operations, OperationPlaces
<1>3. RankingTyped'
  BY <1>0, <1>2 DEF RankingTyped, rankingWorld, rankingMemory
<1>4. StagesFit' /\ DeletedTogether' /\ NumbersFit'
  BY <1>0, <1>2 DEF StagesFit, DeletedTogether, NumbersFit, rankingWorld, rankingMemory
<1>5. UNCHANGED eventDay /\ Beliefs' = Beliefs
  BY <1>0 DEF Beliefs, rankingWorld, rankingMemory
<1>6. BeliefsTrue' /\ RequestsCover'
  BY <1>0, <1>5, BelievingKeeps DEF RankingTyped, Centers
<1>7. \A d, e : EarlyEvents(d, e)' \subseteq Events(d)
  BY <1>5 DEF EarlyEvents, Events
<1>8. PICK d, e, seen : d = operation.day /\ e = operation.event /\ seen = Events(d)
  OBVIOUS
<1>9. Covers(seen, d)' /\ EarlyEvents(d, e)' \subseteq seen
  BY <1>7, <1>8 DEF Covers
<1>10. OperationCovers'
  <2>1. operation'.event \in 0 .. Len(eventDay)'
    BY <1>0, <1>2, <1>5 DEF BeliefsFit, OperationCovers
  <2>2. operation'.day = d /\ operation'.event = e /\ operation'.events = seen
    BY <1>2, <1>8
  <2> QED BY <1>9, <2>1, <2>2 DEF OperationCovers
<1> QED BY <1>3, <1>4, <1>6, <1>10 DEF RankingInv, BeliefsFit

\* The next number is larger than all that were given and than the center's.
LEMMA AllocateKeeps == RankingInv /\ Allocate => RankingInv'
<1> SUFFICES ASSUME RankingInv, Allocate PROVE RankingInv'
    OBVIOUS
<1>0. /\ RankingTyped /\ StagesFit /\ DeletedTogether /\ BeliefsFit /\ NumbersFit
      /\ operation \in Operations /\ eventDay \in Seq(Int) /\ center \in Centers
      /\ rankStore \in Participations /\ inFlight \subseteq SentRequests
      /\ operation.pc = "allocate" /\ reconciled /\ rankStore.status \in {"active", "paused"}
      /\ operation.goal \in {"sync", "delete"}
      /\ UNCHANGED <<rankingMemory, center, rankingWorld>>
  BY DEF Allocate, RankingInv, RankingTyped, StagesFit
<1> DEFINE next == rankStore.sequence + 1
<1>1. /\ rankStore' = [rankStore EXCEPT !.sequence = @ + 1] /\ inFlight' = inFlight \cup {Request}
      /\ operation' = [operation EXCEPT !.pc = "sent", !.sequence = next]
  BY DEF Allocate
<1>a. next \in Nat
  BY <1>0 DEF Participations
<1>b. /\ rankStore' = [rankStore EXCEPT !.sequence = next]
      /\ operation' = [operation EXCEPT !.pc = "sent", !.sequence = next]
  BY <1>1
<1>c. next = rankStore.sequence + 1
  OBVIOUS
<1> HIDE DEF next
<1>2. /\ rankStore' \in Participations /\ rankStore'.sequence = next /\ next \in Nat
      /\ rankStore'.status = rankStore.status
      /\ rankStore'.completeDay = rankStore.completeDay
      /\ rankStore'.completeEvent = rankStore.completeEvent
  BY <1>0, <1>a, <1>b DEF Participations
<1>3. /\ operation' \in Operations /\ operation'.pc = "sent" /\ operation'.sequence = next
      /\ operation'.goal = operation.goal /\ operation'.day = operation.day
      /\ operation'.event = operation.event /\ operation'.events = operation.events
      /\ operation'.complete = operation.complete
  BY <1>0, <1>a, <1>b DEF Operations, OperationPlaces
<1>4. Request = AwaitedRequest(operation')
  BY <1>3, <1>c DEF Request, AwaitedRequest
<1>5. Request \in SentRequests /\ Request.sequence = next
  <2>1. /\ operation.day \in Int /\ operation.complete \in BOOLEAN
        /\ operation.events \in SUBSET Nat
    BY <1>0 DEF Operations
  <2> QED BY <1>a, <1>c, <2>1 DEF Request, SentRequests
<1>6. RankingTyped'
  <2>1. inFlight' \subseteq SentRequests
    BY <1>0, <1>1, <1>5
  <2> QED BY <1>0, <1>2, <1>3, <2>1 DEF RankingTyped, rankingWorld, rankingMemory
<1>7. StagesFit' /\ DeletedTogether'
  BY <1>0, <1>2, <1>3 DEF StagesFit, DeletedTogether, rankingWorld, rankingMemory
<1>8. NumbersFit'
  <2>1. center.sequence \in Nat /\ center.sequence <= rankStore.sequence /\ rankStore.sequence \in Nat
    BY <1>0 DEF NumbersFit, Centers, Participations
  <2>2. \A r \in inFlight : r.sequence \in Nat /\ r.sequence <= rankStore.sequence
    BY <1>0 DEF NumbersFit, SentRequests
  <2>3. \A r \in inFlight' : /\ r.sequence <= next
                             /\ r.sequence = next => r = AwaitedRequest(operation')
    BY <1>1, <1>4, <1>5, <1>c, <2>1, <2>2
  <2>4. center'.sequence <= next /\ center'.sequence < next
    BY <1>0, <1>c, <2>1
  <2> QED BY <1>2, <1>3, <2>3, <2>4 DEF NumbersFit
<1>9. UNCHANGED eventDay /\ Beliefs' = Beliefs
  BY <1>0, <1>2 DEF Beliefs, rankingWorld, rankingMemory
<1>10. \A d, e : EarlyEvents(d, e)' = EarlyEvents(d, e)
  BY <1>9 DEF EarlyEvents, Events
<1>11. OperationCovers'
  <2>1. PICK d, e, seen : d = operation.day /\ e = operation.event /\ seen = operation.events
    OBVIOUS
  <2>2. e \in 0 .. Len(eventDay)
        /\ (operation.goal = "sync" => Covers(seen, d) /\ EarlyEvents(d, e) \subseteq seen)
    BY <1>0, <2>1 DEF BeliefsFit, OperationCovers
  <2>3. operation.goal = "sync" => Covers(seen, d)' /\ EarlyEvents(d, e)' \subseteq seen
    BY <1>9, <1>10, <2>2, CoversKept
  <2>4. /\ operation'.day = d /\ operation'.event = e /\ operation'.events = seen
        /\ operation'.goal = operation.goal
    BY <1>3, <2>1
  <2> QED BY <1>9, <2>2, <2>3, <2>4 DEF OperationCovers
<1>12. BeliefsTrue'
  <2>1. \A d, e : HasReport(d, e)' <=> HasReport(d, e)
    BY <1>0, <1>9 DEF HasReport, Events
  <2> QED BY <1>0, <1>9, <2>1 DEF BeliefsFit, BeliefsTrue
<1>13. RequestsCover'
  <2> SUFFICES ASSUME NEW r \in inFlight', r.kind = "report", r.sequence > center'.sequence
               PROVE  Covers(r.events, r.day)'
      BY DEF RequestsCover
  <2>1. CASE r \in inFlight
    <3>1. Covers(r.events, r.day)
      BY <1>0, <2>1 DEF BeliefsFit, RequestsCover
    <3> QED BY <1>9, <3>1, CoversKept
  <2>2. CASE r = Request
    <3>1. operation.goal = "sync" /\ r.events = operation.events /\ r.day = operation.day
      BY <1>0, <2>2 DEF Request
    <3>2. Covers(r.events, r.day)
      BY <1>0, <3>1 DEF BeliefsFit, OperationCovers
    <3> QED BY <1>9, <3>2, CoversKept
  <2> QED BY <1>1, <2>1, <2>2
<1> QED BY <1>6, <1>7, <1>8, <1>11, <1>12, <1>13 DEF RankingInv, BeliefsFit

\* A report that is accepted takes nothing away that is believed.
LEMMA AcceptedReportCovers ==
    ASSUME RankingInv, UNCHANGED eventDay, NEW r \in inFlight, r.kind = "report",
           r.sequence > center.sequence,
           center'.reports = {q \in center.reports : q.day # r.day}
                                \cup {[day |-> r.day, events |-> r.events]},
           NEW b \in Beliefs, b.event # 0
    PROVE  HasReport(b.day, b.event)'
<1>1. HasReport(b.day, b.event)
  BY DEF RankingInv, BeliefsFit, BeliefsTrue
<1>2. PICK q \in center.reports : q.day = b.day /\ EarlyEvents(b.day, b.event) \subseteq q.events
  BY <1>1 DEF HasReport, EarlyEvents
<1>3. EarlyEvents(b.day, b.event)' = EarlyEvents(b.day, b.event)
  BY DEF EarlyEvents, Events
<1>4. CASE b.day = r.day
  <2>1. Covers(r.events, r.day)
    BY DEF RankingInv, BeliefsFit, RequestsCover
  <2>2. EarlyEvents(b.day, b.event) \subseteq r.events
    BY <1>4, <2>1 DEF Covers
  <2>3. \E p \in center'.reports : p.day = b.day /\ EarlyEvents(b.day, b.event) \subseteq p.events
    <3>1. [day |-> r.day, events |-> r.events] \in center'.reports
      OBVIOUS
    <3> QED BY <1>4, <2>2, <3>1
  <2> QED BY <1>3, <2>3 DEF HasReport, EarlyEvents
<1>5. CASE b.day # r.day
  <2>1. q \in center'.reports
    BY <1>2, <1>5
  <2> QED BY <1>2, <1>3, <2>1 DEF HasReport, EarlyEvents
<1> QED BY <1>4, <1>5

\* What arrives late, after its operation has ended.
LEMMA LateAcceptedKeeps ==
    ASSUME RankingInv, NEW r \in inFlight, Deliver(r), Accepted(r), ~Waits(r) PROVE RankingInv'
<1>0. /\ RankingTyped /\ StagesFit /\ DeletedTogether /\ BeliefsFit /\ NumbersFit
      /\ operation \in Operations /\ eventDay \in Seq(Int) /\ center \in Centers
      /\ rankStore \in Participations /\ inFlight \subseteq SentRequests /\ r \in SentRequests
      /\ inFlight' = inFlight \ {r} /\ center.status = "active" /\ r.sequence > center.sequence
      /\ UNCHANGED <<rankStore, operation, rankingMemory, rankingWorld>>
  BY DEF Deliver, Accepted, RankingInv, RankingTyped, rankingMemory
<1>1. center' = [center EXCEPT !.sequence = r.sequence,
                    !.status = IF r.kind = "delete" THEN "deleted" ELSE @,
                    !.reports = IF r.kind = "delete" THEN @ ELSE
                        {q \in @ : q.day # r.day} \cup {[day |-> r.day, events |-> r.events]}]
  BY DEF Accepted
<1>2. /\ r.sequence \in Nat /\ center.sequence \in Nat /\ rankStore.sequence \in Nat
      /\ r.kind \in {"report", "delete"} /\ r.day \in Int /\ r.events \in SUBSET Nat
  BY <1>0 DEF SentRequests, Centers, Participations
<1>3. /\ center' \in Centers /\ center'.sequence = r.sequence
      /\ center'.status \in {"active", "deleted"}
      /\ r.kind = "delete" => center'.reports = center.reports
      /\ r.kind = "report" => center'.reports = {q \in center.reports : q.day # r.day}
                                                \cup {[day |-> r.day, events |-> r.events]}
  <2> DEFINE reports == {q \in center.reports : q.day # r.day}
                            \cup {[day |-> r.day, events |-> r.events]}
             status == IF r.kind = "delete" THEN "deleted" ELSE center.status
             kept == IF r.kind = "delete" THEN center.reports ELSE reports
  <2>1. reports \in SUBSET [day : Int, events : SUBSET Nat]
    BY <1>0, <1>2 DEF Centers
  <2>2. kept \in SUBSET [day : Int, events : SUBSET Nat]
    BY <1>0, <2>1 DEF Centers
  <2>3. status \in {"active", "deleted"}
    BY <1>0
  <2>4. center' = [center EXCEPT !.sequence = r.sequence, !.status = status, !.reports = kept]
    BY <1>0, <1>1 DEF Centers
  <2>5. (r.kind = "delete" => kept = center.reports) /\ (r.kind = "report" => kept = reports)
    OBVIOUS
  <2> HIDE DEF status, kept
  <2> QED BY <1>0, <1>2, <2>2, <2>3, <2>4, <2>5 DEF Centers
<1>4. RankingTyped'
  BY <1>0, <1>3 DEF RankingTyped, rankingMemory, rankingWorld
<1>5. StagesFit' /\ DeletedTogether'
  BY <1>0, <1>3 DEF StagesFit, DeletedTogether, rankingMemory, rankingWorld
<1>6. NumbersFit'
  <2>1. r.sequence <= rankStore.sequence
    BY <1>0 DEF NumbersFit
  <2>2. operation.pc = "sent" => r.sequence # operation.sequence
    BY DEF Waits
  <2>3. operation.pc = "sent" => r.sequence < operation.sequence
    BY <1>0, <1>2, <2>1, <2>2 DEF NumbersFit
  <2> QED BY <1>0, <1>3, <2>1, <2>3 DEF NumbersFit, rankingMemory
<1>7. Beliefs' = Beliefs /\ UNCHANGED eventDay
  BY <1>0 DEF Beliefs, rankingMemory, rankingWorld
<1>8. BeliefsTrue'
  <2> SUFFICES ASSUME NEW b \in Beliefs
               PROVE  /\ b.event \in 0 .. Len(eventDay)'
                      /\ b.event # 0 => HasReport(b.day, b.event)'
      BY <1>7 DEF BeliefsTrue
  <2>1. b.event \in 0 .. Len(eventDay) /\ (b.event # 0 => HasReport(b.day, b.event))
    BY <1>0 DEF BeliefsFit, BeliefsTrue
  <2>2. CASE r.kind = "delete"
    <3>1. HasReport(b.day, b.event)' <=> HasReport(b.day, b.event)
      BY <1>3, <1>7, <2>2 DEF HasReport, Events
    <3> QED BY <1>7, <2>1, <3>1
  <2>3. CASE r.kind = "report"
    <3>1. b.event # 0 => HasReport(b.day, b.event)'
      BY <1>0, <1>3, <1>7, <2>3, AcceptedReportCovers
    <3> QED BY <1>7, <2>1, <3>1
  <2> QED BY <1>2, <2>2, <2>3
<1>9. RequestsCover'
  <2> SUFFICES ASSUME NEW q \in inFlight', q.kind = "report", q.sequence > center'.sequence
               PROVE  Covers(q.events, q.day)'
      BY DEF RequestsCover
  <2>1. q \in inFlight /\ q.sequence \in Nat
    BY <1>0 DEF SentRequests
  <2>2. q.sequence > center.sequence
    BY <1>0, <1>2, <1>3, <2>1
  <2>3. Covers(q.events, q.day)
    BY <1>0, <2>1, <2>2 DEF BeliefsFit, RequestsCover
  <2> QED BY <1>7, <2>3, CoversKept
<1>10. OperationCovers'
  <2>1. \A d, e : EarlyEvents(d, e)' = EarlyEvents(d, e)
    BY <1>7 DEF EarlyEvents, Events
  <2>2. PICK op : op = operation
    OBVIOUS
  <2>3. /\ op.event \in 0 .. Len(eventDay)
        /\ op.pc \in {"allocate", "sent"} /\ op.goal = "sync" =>
              Covers(op.events, op.day) /\ EarlyEvents(op.day, op.event) \subseteq op.events
    BY <1>0, <2>2 DEF BeliefsFit, OperationCovers
  <2>4. op.pc \in {"allocate", "sent"} /\ op.goal = "sync" =>
              Covers(op.events, op.day)' /\ EarlyEvents(op.day, op.event)' \subseteq op.events
    BY <1>7, <2>1, <2>3, CoversKept
  <2> QED BY <1>0, <1>7, <2>2, <2>3, <2>4 DEF OperationCovers
<1> QED BY <1>4, <1>5, <1>6, <1>8, <1>9, <1>10 DEF RankingInv, BeliefsFit

\* The answer to the one who waits: all other requests are older.
LEMMA AwaitedReportKeeps ==
    ASSUME RankingInv, NEW r \in inFlight, Deliver(r), Accepted(r), Waits(r), r.kind = "report"
    PROVE  RankingInv'
<1>0. /\ RankingTyped /\ StagesFit /\ DeletedTogether /\ BeliefsFit /\ NumbersFit
      /\ operation \in Operations /\ eventDay \in Seq(Int) /\ center \in Centers
      /\ rankStore \in Participations /\ inFlight \subseteq SentRequests /\ r \in SentRequests
      /\ inFlight' = inFlight \ {r} /\ center.status = "active" /\ r.sequence > center.sequence
      /\ operation.pc = "sent" /\ operation.sequence = r.sequence
      /\ reconciled /\ rankStore.status \in {"active", "paused"}
      /\ UNCHANGED <<reconciled, rankingWorld>>
  BY DEF Deliver, Accepted, RankingInv, RankingTyped, StagesFit, Waits
<1>1. /\ r = AwaitedRequest(operation) /\ operation.sequence = rankStore.sequence
      /\ operation.goal = "sync"
  BY <1>0 DEF NumbersFit, AwaitedRequest, StagesFit
<1>2. r.day = operation.day /\ r.events = operation.events /\ r.complete = operation.complete
  BY <1>1 DEF AwaitedRequest
<1> DEFINE reports == {q \in center.reports : q.day # r.day}
                          \cup {[day |-> r.day, events |-> r.events]}
<1>3. /\ center' = [center EXCEPT !.sequence = r.sequence, !.reports = reports]
      /\ rankStore' = IF r.complete
                      THEN [rankStore EXCEPT !.completeDay = operation.day,
                                             !.completeEvent = operation.event]
                      ELSE rankStore
      /\ operation' = [operation EXCEPT !.pc = IF operation.complete THEN "today" ELSE "reported"]
      /\ dynamicDay' = IF r.complete THEN dynamicDay ELSE operation.day
      /\ dynamicEvent' = IF r.complete THEN dynamicEvent ELSE operation.event
  <2>1. r.kind # "delete"
    OBVIOUS
  <2>2. center' = [center EXCEPT !.sequence = r.sequence, !.status = @, !.reports = reports]
    BY <2>1 DEF Accepted
  <2>3. center' = [center EXCEPT !.sequence = r.sequence, !.reports = reports]
    BY <1>0, <2>2 DEF Centers
  <2> QED BY <2>1, <2>3 DEF Accepted, AfterReport
<1>4. /\ r.sequence \in Nat /\ center.sequence \in Nat /\ rankStore.sequence \in Nat
      /\ r.day \in Int /\ r.events \in SUBSET Nat /\ operation.event \in Nat
      /\ operation.complete \in BOOLEAN
  BY <1>0 DEF SentRequests, Centers, Participations, Operations
<1>5. reports \in SUBSET [day : Int, events : SUBSET Nat]
  BY <1>0, <1>4 DEF Centers
<1> HIDE DEF reports
<1>6. /\ center' \in Centers /\ center'.sequence = r.sequence /\ center'.status = "active"
      /\ center'.reports = reports
  BY <1>0, <1>3, <1>4, <1>5 DEF Centers
<1>7. /\ rankStore' \in Participations /\ rankStore'.status = rankStore.status
      /\ rankStore'.sequence = rankStore.sequence
      /\ \/ /\ rankStore'.completeDay = r.day /\ rankStore'.completeEvent = operation.event
         \/ /\ rankStore'.completeDay = rankStore.completeDay
            /\ rankStore'.completeEvent = rankStore.completeEvent
  <2>1. CASE r.complete
    BY <1>0, <1>2, <1>3, <1>4, <2>1 DEF Participations
  <2>2. CASE ~r.complete
    BY <1>0, <1>3, <2>2
  <2> QED BY <2>1, <2>2
<1>8. /\ operation' \in Operations /\ operation'.pc \in {"today", "reported"}
      /\ operation'.goal = "sync" /\ operation'.event = operation.event
  BY <1>0, <1>1, <1>3, <1>4 DEF Operations, OperationPlaces
<1>9. /\ dynamicDay' \in Int /\ dynamicEvent' \in Nat
      /\ \/ dynamicDay' = r.day /\ dynamicEvent' = operation.event
         \/ dynamicDay' = dynamicDay /\ dynamicEvent' = dynamicEvent
  <2>1. CASE r.complete
    BY <1>0, <1>3, <2>1 DEF RankingTyped
  <2>2. CASE ~r.complete
    BY <1>2, <1>3, <1>4, <2>2
  <2> QED BY <2>1, <2>2
<1>10. RankingTyped'
  BY <1>0, <1>6, <1>7, <1>8, <1>9 DEF RankingTyped, rankingWorld
<1>11. StagesFit' /\ DeletedTogether'
  BY <1>0, <1>6, <1>7, <1>8 DEF StagesFit, DeletedTogether, rankingWorld
<1>12. NumbersFit'
  BY <1>0, <1>1, <1>6, <1>7, <1>8 DEF NumbersFit
<1>13. UNCHANGED eventDay
  BY <1>0 DEF rankingWorld
<1>14. BeliefsTrue'
  <2> SUFFICES ASSUME NEW b \in Beliefs'
               PROVE  /\ b.event \in 0 .. Len(eventDay)
                      /\ b.event # 0 => HasReport(b.day, b.event)'
      BY <1>13 DEF BeliefsTrue
  <2>1. CASE b \in Beliefs
    <3>1. b.event \in 0 .. Len(eventDay)
      BY <1>0, <2>1 DEF BeliefsFit, BeliefsTrue
    <3>2. b.event # 0 => HasReport(b.day, b.event)'
      BY <1>0, <1>6, <1>13, <2>1, AcceptedReportCovers DEF reports
    <3> QED BY <3>1, <3>2
  <2>2. CASE b.day = r.day /\ b.event = operation.event
    <3>1. /\ operation.event \in 0 .. Len(eventDay)
          /\ EarlyEvents(r.day, operation.event) \subseteq r.events
      BY <1>0, <1>1, <1>2 DEF BeliefsFit, OperationCovers
    <3>2. PICK e : e = operation.event
      OBVIOUS
    <3>3. EarlyEvents(r.day, e)' = EarlyEvents(r.day, e)
      BY <1>13 DEF EarlyEvents, Events
    <3>4. \E q \in center'.reports : q.day = r.day /\ EarlyEvents(r.day, e)' \subseteq q.events
      <4>1. [day |-> r.day, events |-> r.events] \in center'.reports
        BY <1>6 DEF reports
      <4>2. EarlyEvents(r.day, e)' \subseteq r.events
        BY <3>1, <3>2, <3>3
      <4> QED BY <4>1, <4>2
    <3> QED BY <2>2, <3>1, <3>2, <3>4 DEF HasReport, EarlyEvents
  <2>3. CASE b = [day |-> rankStore.completeDay, event |-> rankStore.completeEvent]'
    <3>1. CASE rankStore'.completeDay = r.day /\ rankStore'.completeEvent = operation.event
      BY <2>2, <2>3, <3>1
    <3>2. CASE /\ rankStore'.completeDay = rankStore.completeDay
               /\ rankStore'.completeEvent = rankStore.completeEvent
      BY <2>1, <2>3, <3>2 DEF Beliefs
    <3> QED BY <1>7, <3>1, <3>2
  <2>4. CASE b = [day |-> dynamicDay, event |-> dynamicEvent]'
    <3>1. CASE dynamicDay' = r.day /\ dynamicEvent' = operation.event
      BY <2>2, <2>4, <3>1
    <3>2. CASE dynamicDay' = dynamicDay /\ dynamicEvent' = dynamicEvent
      BY <2>1, <2>4, <3>2 DEF Beliefs
    <3> QED BY <1>9, <3>1, <3>2
  <2>5. CASE b = [day |-> rankBackup.completeDay, event |-> rankBackup.completeEvent]'
    <3>1. rankBackup' = rankBackup
      BY <1>0 DEF rankingWorld
    <3> QED BY <2>1, <2>5, <3>1 DEF Beliefs
  <2> QED BY <2>3, <2>4, <2>5 DEF Beliefs
<1>15. RequestsCover'
  <2>1. \A q \in inFlight' : q.sequence \in Nat /\ q.sequence <= r.sequence
    BY <1>0, <1>1 DEF NumbersFit, SentRequests
  <2> QED BY <1>4, <1>6, <2>1 DEF RequestsCover
<1>16. OperationCovers'
  BY <1>0, <1>8, <1>13 DEF BeliefsFit, OperationCovers
<1> QED BY <1>10, <1>11, <1>12, <1>14, <1>15, <1>16 DEF RankingInv, BeliefsFit

\* A request that arrives, whatever the center makes of it.
LEMMA DeliverKeeps == ASSUME RankingInv, NEW r \in inFlight, Deliver(r) PROVE RankingInv'
<1>0. /\ RankingTyped /\ StagesFit /\ DeletedTogether /\ BeliefsFit /\ NumbersFit
      /\ operation \in Operations /\ eventDay \in Seq(Int) /\ center \in Centers
      /\ rankStore \in Participations /\ r \in SentRequests
      /\ inFlight' \subseteq inFlight /\ UNCHANGED rankingWorld
      /\ rankStore.status \notin {"disabled", "joining"} /\ center.status \in {"active", "deleted"}
      /\ r.sequence \in Nat /\ center.sequence \in Nat /\ r.sequence <= rankStore.sequence
      /\ r.kind \in {"report", "delete"} /\ center.sequence <= center.sequence
  BY DEF Deliver, RankingInv, RankingTyped, StagesFit, NumbersFit, SentRequests, Centers
<1>1. CASE Accepted(r) /\ ~Waits(r)
  BY <1>1, LateAcceptedKeeps
<1>2. CASE Accepted(r) /\ Waits(r) /\ r.kind = "report"
  BY <1>2, AwaitedReportKeeps
<1>3. CASE Accepted(r) /\ Waits(r) /\ r.kind = "delete"
  <2>1. /\ MarkDeleted /\ UNCHANGED <<reconciled, dynamicDay, dynamicEvent>>
        /\ r.sequence > center.sequence
        /\ center' = [center EXCEPT !.sequence = r.sequence, !.status = "deleted", !.reports = @]
    BY <1>3 DEF Accepted
  <2>2. /\ center' \in Centers /\ center'.sequence = r.sequence /\ center'.status = "deleted"
        /\ center'.reports = center.reports
    BY <1>0, <2>1 DEF Centers
  <2>3. /\ rankStore' \in Participations /\ operation' \in Operations
        /\ StagesFit' /\ DeletedTogether' /\ NumbersFit' /\ BeliefsFit'
    <3>1. center'.sequence \in Nat /\ center.sequence <= center'.sequence
      BY <1>0, <2>1, <2>2
    <3>2. center'.sequence <= rankStore.sequence
      BY <1>0, <2>2
    <3>3. UNCHANGED <<reconciled, dynamicDay, dynamicEvent, rankBackup, eventDay>>
      BY <1>0, <2>1 DEF rankingWorld
    <3> QED BY <1>0, <2>1, <2>2, <3>1, <3>2, <3>3, MarkDeletedStays
  <2>4. RankingTyped'
    BY <1>0, <2>1, <2>2, <2>3 DEF RankingTyped, rankingWorld
  <2> QED BY <2>3, <2>4 DEF RankingInv
<1>4. CASE Replayed(r)
  <2>1. /\ UNCHANGED <<rankStore, center, dynamicDay, dynamicEvent>>
        /\ reconciled' = (IF Waits(r) THEN FALSE ELSE reconciled)
        /\ \/ ~Waits(r) /\ operation' = operation
           \/ operation' = NoOperation
           \/ /\ Waits(r) /\ r.kind = "delete"
              /\ operation' = [operation EXCEPT !.pc = "reconcile", !.last = TRUE]
    BY <1>4 DEF Replayed
  <2>2. Waits(r) => operation.pc = "sent"
    BY DEF Waits
  <2>3. /\ operation' \in Operations
        /\ \/ operation' = operation /\ ~Waits(r)
           \/ operation'.pc = "idle" /\ operation'.event = 0
           \/ /\ operation'.pc = "reconcile" /\ operation'.event = operation.event
              /\ operation'.goal = operation.goal /\ operation.pc = "sent"
    <3>1. CASE operation' = operation /\ ~Waits(r)
      BY <1>0, <3>1
    <3>2. CASE operation' = NoOperation
      BY <3>2, NothingDone DEF NoOperation
    <3>3. CASE /\ Waits(r) /\ r.kind = "delete"
               /\ operation' = [operation EXCEPT !.pc = "reconcile", !.last = TRUE]
      BY <1>0, <2>2, <3>3 DEF Operations, OperationPlaces
    <3> QED BY <2>1, <3>1, <3>2, <3>3
  <2>4. reconciled' \in BOOLEAN /\ (reconciled' => reconciled) /\ (~Waits(r) => reconciled' = reconciled)
    BY <1>0, <2>1, Zenon DEF RankingTyped
  <2>5. RankingTyped'
    BY <1>0, <2>1, <2>3, <2>4 DEF RankingTyped, rankingWorld
  <2>6. StagesFit' /\ DeletedTogether'
    BY <1>0, <2>1, <2>3, <2>4 DEF StagesFit, DeletedTogether, rankingWorld
  <2>7. Beliefs' = Beliefs /\ UNCHANGED eventDay
    BY <1>0, <2>1 DEF Beliefs, rankingWorld
  <2>8. 0 \in 0 .. Len(eventDay) /\ operation.event \in 0 .. Len(eventDay)
    BY <1>0 DEF BeliefsFit, OperationCovers
  <2> QED BY <1>0, <2>1, <2>3, <2>4, <2>5, <2>6, <2>7, <2>8, QuietStepKeeps
<1>5. CASE Gone(r)
  <2>1. center.status = "deleted" /\ UNCHANGED <<rankingMemory, center>>
    BY <1>0, <1>5 DEF Gone
  <2>2. UNCHANGED <<reconciled, dynamicDay, dynamicEvent, rankBackup, eventDay>>
    BY <1>0, <2>1 DEF rankingMemory, rankingWorld
  <2>3. CASE MarkDeleted
    <3>1. reconciled => center.sequence <= rankStore.sequence
      BY <1>0 DEF NumbersFit
    <3>2. /\ rankStore' \in Participations /\ operation' \in Operations
          /\ StagesFit' /\ DeletedTogether' /\ NumbersFit' /\ BeliefsFit'
      BY <1>0, <2>1, <2>2, <2>3, <3>1, MarkDeletedStays
    <3>3. RankingTyped'
      BY <1>0, <2>1, <2>2, <3>2 DEF RankingTyped, rankingWorld
    <3> QED BY <3>2, <3>3 DEF RankingInv
  <2>4. CASE UNCHANGED <<rankStore, operation>>
    <3>1. RankingTyped'
      BY <1>0, <2>1, <2>2, <2>4 DEF RankingTyped, rankingWorld
    <3>2. StagesFit' /\ DeletedTogether'
      BY <1>0, <2>1, <2>2, <2>4 DEF StagesFit, DeletedTogether
    <3>3. Beliefs' = Beliefs
      BY <2>2, <2>4 DEF Beliefs
    <3> QED BY <1>0, <2>1, <2>2, <2>4, <3>1, <3>2, <3>3, QuietStepKeeps
  <2> QED BY <1>5, <2>3, <2>4 DEF Gone
<1> QED BY <1>0, <1>1, <1>2, <1>3, <1>4, <1>5 DEF Deliver

\* Losses, crashes, the copy of the settings, and the passing of time.
LEMMA MishapsKeep ==
    ASSUME RankingInv,
           \/ \E r \in inFlight : LoseRequest(r)
           \/ CrashKeeper \/ BackupStore \/ RankingTick
    PROVE  RankingInv'
<1>0. /\ RankingTyped /\ StagesFit /\ DeletedTogether /\ BeliefsFit
      /\ operation \in Operations /\ eventDay \in Seq(Int) /\ rankStore \in Participations
      /\ inFlight' \subseteq inFlight
      /\ UNCHANGED <<rankStore, center, eventDay>>
  BY DEF LoseRequest, CrashKeeper, BackupStore, RankingTick, RankingInv, RankingTyped, rankingWorld
<1>1. /\ operation' \in Operations
      /\ operation' = operation \/ (operation'.pc = "idle" /\ operation'.event = 0)
  <2>1. operation' = operation \/ operation' = NoOperation
    BY DEF LoseRequest, CrashKeeper, BackupStore, RankingTick, Forget
  <2>2. NoOperation.pc = "idle" /\ NoOperation.event = 0
    BY DEF NoOperation
  <2> QED BY <1>0, <2>1, <2>2, NothingDone, Zenon
<1>2. /\ reconciled' \in BOOLEAN /\ (reconciled' => reconciled)
      /\ operation'.pc # "idle" => (reconciled' = reconciled)
  <2>1. \/ reconciled' = reconciled
        \/ reconciled' = FALSE /\ operation' = NoOperation
    BY DEF LoseRequest, CrashKeeper, BackupStore, RankingTick, Forget, rankingMemory
  <2>2. NoOperation.pc = "idle"
    BY DEF NoOperation
  <2>3. reconciled \in BOOLEAN
    BY <1>0 DEF RankingTyped
  <2>4. CASE reconciled' = reconciled
    BY <2>3, <2>4, Zenon
  <2>5. CASE reconciled' = FALSE /\ operation' = NoOperation
    BY <2>2, <2>5, Zenon
  <2> QED BY <2>1, <2>4, <2>5
<1>3. \/ dynamicDay' = dynamicDay /\ dynamicEvent' = dynamicEvent
      \/ dynamicDay' = 0 /\ dynamicEvent' = 0
  BY DEF LoseRequest, CrashKeeper, BackupStore, RankingTick, Forget, rankingMemory
<1>4. \/ rankBackup' = rankBackup
      \/ rankBackup' = rankStore /\ rankStore.status = "active"
  BY DEF LoseRequest, CrashKeeper, BackupStore, RankingTick, rankingWorld
<1>5. rankingDay' \in Int
  <2>1. rankingDay \in Int
    BY <1>0, Zenon DEF RankingTyped
  <2>2. rankingDay' = rankingDay \/ rankingDay' = rankingDay + 1
    BY DEF LoseRequest, CrashKeeper, BackupStore, RankingTick, rankingWorld
  <2> QED BY <2>1, <2>2
<1>6. RankingTyped'
  BY <1>0, <1>1, <1>2, <1>3, <1>4, <1>5 DEF RankingTyped
<1>7. StagesFit' /\ DeletedTogether'
  BY <1>0, <1>1, <1>2, <1>4 DEF StagesFit, DeletedTogether
<1>8. \A b \in Beliefs' : b \in Beliefs \/ b.event = 0
  BY <1>0, <1>3, <1>4 DEF Beliefs
<1>9. 0 \in 0 .. Len(eventDay)
  BY <1>0
<1> QED BY <1>0, <1>1, <1>2, <1>6, <1>7, <1>8, <1>9, QuietStepKeeps

\* The copy that is put back believes less, and has a smaller number; but nothing
\* that was sent before is under way, and no number is given before the center's
\* is known.
LEMMA RestoreKeeps == RankingInv /\ RestoreStore => RankingInv'
<1> SUFFICES ASSUME RankingInv, RestoreStore PROVE RankingInv'
    OBVIOUS
<1>0. /\ RankingTyped /\ StagesFit /\ DeletedTogether /\ BeliefsFit
      /\ eventDay \in Seq(Int) /\ center \in Centers /\ inFlight \subseteq SentRequests
      /\ rankBackup # Disabled /\ rankBackup.status = "active" /\ rankBackup \in Participations
      /\ rankStore' = rankBackup /\ inFlight' = {} /\ operation' = NoOperation /\ reconciled' = FALSE
      /\ dynamicDay' = 0 /\ dynamicEvent' = 0
      /\ UNCHANGED <<center, eventDay, rankingDay, rankBackup>>
  BY DEF RestoreStore, Forget, RankingInv, RankingTyped, StagesFit
<1>1. operation' \in Operations /\ operation'.pc = "idle" /\ operation'.event = 0
  BY <1>0, NothingDone DEF NoOperation
<1>2. RankingTyped'
  <2>1. reconciled' \in BOOLEAN
    BY <1>0
  <2>2. /\ rankStore' \in Participations /\ rankBackup' \in Participations
        /\ dynamicDay' \in Int /\ dynamicEvent' \in Nat
    BY <1>0
  <2>3. /\ inFlight' \subseteq SentRequests /\ center' \in Centers
        /\ eventDay' \in Seq(Int)
    BY <1>0
  <2>4. rankingDay' \in Int
    BY <1>0 DEF RankingTyped
  <2> QED BY <1>1, <2>1, <2>2, <2>3, <2>4 DEF RankingTyped
<1>3. StagesFit' /\ DeletedTogether'
  BY <1>0, <1>1 DEF StagesFit, DeletedTogether
<1>4. NumbersFit'
  BY <1>0, <1>1 DEF NumbersFit
<1>5. BeliefsFit'
  <2>1. \A b \in Beliefs' : b \in Beliefs \/ b.event = 0
    BY <1>0 DEF Beliefs
  <2>2. 0 \in 0 .. Len(eventDay) /\ center.sequence \in Nat
    BY <1>0 DEF Centers
  <2> QED BY <1>0, <1>1, <2>1, <2>2, QuietKeeps
<1> QED BY <1>2, <1>3, <1>4, <1>5 DEF RankingInv

\* An event that is committed later has a larger id than all that was looked at.
LEMMA CommitKeeps == RankingInv /\ CommitEvent => RankingInv'
<1> SUFFICES ASSUME RankingInv, CommitEvent PROVE RankingInv'
    OBVIOUS
<1>0. /\ RankingTyped /\ StagesFit /\ DeletedTogether /\ BeliefsFit /\ NumbersFit
      /\ eventDay \in Seq(Int)
      /\ UNCHANGED <<rankStore, rankingMemory, operation, inFlight, center, rankingDay, rankBackup>>
  BY DEF CommitEvent, RankingInv, RankingTyped
<1>1. PICK d \in Int : eventDay' = Append(eventDay, d)
  BY DEF CommitEvent, RankingInv, RankingTyped
<1>2. /\ eventDay' \in Seq(Int) /\ Len(eventDay') = Len(eventDay) + 1 /\ Len(eventDay) \in Nat
      /\ \A e \in 1 .. Len(eventDay) : eventDay'[e] = eventDay[e]
  BY <1>0, <1>1
<1>3. \A day, event : event \in 0 .. Len(eventDay) =>
          EarlyEvents(day, event)' = EarlyEvents(day, event)
  <2> SUFFICES ASSUME NEW day, NEW event \in 0 .. Len(eventDay)
               PROVE  EarlyEvents(day, event)' = EarlyEvents(day, event)
      OBVIOUS
  <2> DEFINE n == Len(eventDay)
  <2>1. DOMAIN eventDay = 1 .. n /\ DOMAIN eventDay' = 1 .. n + 1 /\ n \in Nat
    BY <1>0, <1>2
  <2>2. EarlyEvents(day, event) = {e \in 1 .. n : eventDay[e] = day /\ e <= event}
    BY <2>1 DEF EarlyEvents, Events
  <2>3. EarlyEvents(day, event)' = {e \in 1 .. n + 1 : eventDay'[e] = day /\ e <= event}
    BY <2>1 DEF EarlyEvents, Events
  <2>4. \A e \in Int : e \in 1 .. n + 1 /\ e <= event <=> e \in 1 .. n /\ e <= event
    BY <2>1
  <2> QED BY <1>2, <2>1, <2>2, <2>3, <2>4
<1>4. Beliefs' = Beliefs
  BY <1>0 DEF Beliefs, rankingMemory
<1>5. RankingTyped' /\ StagesFit' /\ DeletedTogether' /\ NumbersFit'
  BY <1>0, <1>2 DEF RankingTyped, StagesFit, DeletedTogether, NumbersFit, rankingMemory
<1>6. \A b \in Beliefs : b.event \in 0 .. Len(eventDay) /\ (b.event # 0 => HasReport(b.day, b.event))
  BY <1>0 DEF BeliefsFit, BeliefsTrue
<1>7. \A event \in 0 .. Len(eventDay) : event \in 0 .. Len(eventDay')
  BY <1>2
<1>8. BeliefsTrue'
  <2> SUFFICES ASSUME NEW b \in Beliefs
               PROVE  /\ b.event \in 0 .. Len(eventDay')
                      /\ b.event # 0 => HasReport(b.day, b.event)'
      BY <1>4 DEF BeliefsTrue
  <2>1. EarlyEvents(b.day, b.event)' = EarlyEvents(b.day, b.event)
    BY <1>3, <1>6
  <2>2. HasReport(b.day, b.event)' <=> HasReport(b.day, b.event)
    BY <1>0, <2>1 DEF HasReport, EarlyEvents
  <2> QED BY <1>6, <1>7, <2>2
<1>9. ASSUME NEW events, NEW day, Covers(events, day) PROVE Covers(events, day)'
  <2> SUFFICES ASSUME NEW b \in Beliefs, b.day = day, b.event # 0
               PROVE  EarlyEvents(day, b.event)' \subseteq events
      BY <1>4 DEF Covers
  <2>1. EarlyEvents(day, b.event) \subseteq events
    BY <1>9 DEF Covers
  <2> QED BY <1>3, <1>6, <2>1
<1>10. RequestsCover'
  BY <1>0, <1>9 DEF BeliefsFit, RequestsCover
<1>11. OperationCovers'
  <2>1. PICK op : op = operation
    OBVIOUS
  <2>2. /\ op.event \in 0 .. Len(eventDay)
        /\ op.pc \in {"allocate", "sent"} /\ op.goal = "sync" =>
              Covers(op.events, op.day) /\ EarlyEvents(op.day, op.event) \subseteq op.events
    BY <1>0, <2>1 DEF BeliefsFit, OperationCovers
  <2>3. op.pc \in {"allocate", "sent"} /\ op.goal = "sync" =>
              Covers(op.events, op.day)' /\ EarlyEvents(op.day, op.event)' \subseteq op.events
    BY <1>3, <1>9, <2>2
  <2>4. op.event \in 0 .. Len(eventDay)'
    BY <1>7, <2>2
  <2> QED BY <1>0, <2>1, <2>3, <2>4 DEF OperationCovers
<1> QED BY <1>5, <1>8, <1>10, <1>11 DEF RankingInv, BeliefsFit

LEMMA RankingInvNext == RankingInv /\ [RankingNext]_rankingVars => RankingInv'
<1> SUFFICES ASSUME RankingInv, [RankingNext]_rankingVars PROVE RankingInv'
    OBVIOUS
<1>1. CASE UNCHANGED rankingVars
  <2>1. UNCHANGED <<rankStore, rankBackup, reconciled, dynamicDay, dynamicEvent, operation,
                    inFlight, center, eventDay, rankingDay>>
    BY <1>1 DEF rankingVars
  <2>2. RankingTyped' /\ StagesFit' /\ DeletedTogether' /\ Beliefs' = Beliefs
    BY <2>1 DEF RankingInv, RankingTyped, StagesFit, DeletedTogether, Beliefs
  <2> QED BY <2>1, <2>2, QuietStepKeeps
<1>2. CASE RankingNext
  BY <1>2, StartingKeeps, RegisterKeeps, ReconcileKeeps, LookingKeeps, AggregateKeeps, AllocateKeeps,
     EndingKeeps, MishapsKeep, RestoreKeeps, CommitKeeps, DeliverKeeps DEF RankingNext
<1> QED BY <1>1, <1>2

(* What the keeper believes to have been received was received, also after    *)
(* answers were lost, older reports arrived late, or an older copy of the     *)
(* settings was put back; a request that is waited for has a number new to    *)
(* the center; and only what the center has deleted counts as deleted         *)
(* (ranking/service.go).                                                      *)
THEOREM RankingStaysInAgreement == RankingSpec => []RankingAgrees
<1> QED BY RankingInitHolds, RankingInvNext, RankingInvAgrees, PTL DEF RankingSpec

-----------------------------------------------------------------------------
(* The error events. A listing exists because a finite set of events can be   *)
(* put in order; and whoever reads on after the last event of a page finds    *)
(* what the pages before did not show.                                        *)

ErrorShapes == [id : Nat \ {0}, at : Nat, owner : ErrorOwners]

ErrorCursors == [at : Int, id : Int]

\* Every event can be told from every other by its id.
ErrorsFit ==
    /\ errorEvents \in SUBSET ErrorShapes /\ IsFiniteSet(errorEvents)
    /\ \A e \in errorEvents : e.id <= Cardinality(errorEvents)
    /\ \A e, f \in errorEvents : e.id = f.id => e = f

\* The index of the delay counts the failures since the last subscription.
RunnerFits ==
    /\ retryIndex \in 0 .. MaxRetryDelays /\ failedInRow \in Nat
    /\ errorPc # "stopped" => failedInRow = retryIndex
    /\ GivesUpOnlyWhenExhausted

WalkTyped == walk \in [pc : ErrorOwners \cup {"idle", "finished"}, cursor : ErrorCursors,
                       pages : Seq(ErrorShapes), begun : SUBSET errorEvents]

Shown(pages) == {pages[i] : i \in DOMAIN pages}

InOrder(pages) == \A i, j \in DOMAIN pages : i < j => NewerEvent(pages[i], pages[j])

\* What lies beyond the cursor is older than all that was shown, and what was there
\* when the walk began was shown or lies beyond the cursor.
WalkFits ==
    /\ InOrder(walk.pages)
    /\ \A e \in ErrorShapes : walk.pc \in ErrorOwners /\ Beyond(e, walk.cursor) =>
           \A i \in DOMAIN walk.pages : NewerEvent(walk.pages[i], e)
    /\ walk.pc \in ErrorOwners => \A e \in walk.begun :
           e.owner = walk.pc /\ (e \in Shown(walk.pages) \/ Beyond(e, walk.cursor))
    /\ walk.pc = "finished" => walk.begun \subseteq Shown(walk.pages)

ErrorsInv == ErrorsFit /\ RunnerFits /\ NoConnectionLeaks /\ WalkTyped /\ WalkFits

LEMMA ErrorsInvShown == ErrorsInv => ErrorsAreShown
BY DEF ErrorsInv, RunnerFits, WalkFits, ErrorsAreShown, PagesAreComplete, InOrder, Shown

LEMMA ErrorsInitHolds == ErrorsInit => ErrorsInv
<1> SUFFICES ASSUME ErrorsInit PROVE ErrorsInv
    OBVIOUS
<1>1. ErrorsFit
  BY FS_EmptySet DEF ErrorsInit, ErrorsFit
<1>2. RunnerFits
  BY ErrorsAssumption DEF ErrorsInit, RunnerFits, GivesUpOnlyWhenExhausted
<1>5. NoConnectionLeaks
  BY DEF ErrorsInit, NoConnectionLeaks
<1>3. WalkTyped
  BY DEF ErrorsInit, WalkTyped, Idle, NoCursor, ErrorCursors
<1>4. WalkFits
  BY ErrorsAssumption DEF ErrorsInit, WalkFits, Idle, InOrder, Shown
<1> QED BY <1>1, <1>2, <1>3, <1>4, <1>5 DEF ErrorsInv

-----------------------------------------------------------------------------
\* Sorting.

Told(S) == \A e, f \in S : e.id = f.id => e = f

InOrderOfTime(s, S) ==
    /\ s \in [1 .. Cardinality(S) -> S]
    /\ \A i, j \in DOMAIN s : i < j => NewerEvent(s[i], s[j])

LEMMA OldestEvent ==
    ASSUME NEW S \in SUBSET ErrorShapes, Told(S), S # {}
    PROVE  \E m \in S : \A e \in S : e # m => NewerEvent(e, m)
<1> DEFINE times == {e.at : e \in S}
<1>1. times \subseteq Nat /\ times # {}
  BY DEF ErrorShapes
<1>2. PICK t \in times : \A u \in times : t <= u
  BY <1>1, NaturalsHaveLeast
<1> DEFINE ids == {e.id : e \in {f \in S : f.at = t}}
<1>3. ids \subseteq Nat /\ ids # {}
  BY <1>2 DEF ErrorShapes
<1>4. PICK k \in ids : \A j \in ids : k <= j
  BY <1>3, NaturalsHaveLeast
<1>5. PICK m \in S : m.at = t /\ m.id = k
  BY <1>4
<1>6. ASSUME NEW e \in S, e # m PROVE NewerEvent(e, m)
  <2>1. e.at \in Nat /\ m.at \in Nat /\ e.id \in Nat /\ m.id \in Nat /\ e.at >= m.at
    BY <1>2, <1>5 DEF ErrorShapes
  <2>2. e.id # m.id
    BY <1>6 DEF Told
  <2>3. CASE e.at = m.at
    <3>1. e.id \in ids
      BY <1>5, <2>3
    <3> QED BY <1>4, <1>5, <2>1, <2>2, <2>3, <3>1 DEF NewerEvent
  <2>4. CASE e.at # m.at
    BY <2>1, <2>4 DEF NewerEvent
  <2> QED BY <2>3, <2>4
<1> QED BY <1>6

LEMMA OneMoreSorted ==
    ASSUME NEW S \in SUBSET ErrorShapes, IsFiniteSet(S), NEW m \in S,
           \A e \in S : e # m => NewerEvent(e, m), NEW s, InOrderOfTime(s, S \ {m})
    PROVE  \E z : InOrderOfTime(z, S)
<1> DEFINE n == Cardinality(S)
<1>1. n \in Nat /\ n > 0 /\ Cardinality(S \ {m}) = n - 1
  <2>1. Cardinality(S \ {m}) = n - 1 /\ IsFiniteSet(S \ {m})
    BY FS_RemoveElement
  <2>2. n \in Nat /\ Cardinality(S \ {m}) \in Nat
    BY <2>1, FS_CardinalityType
  <2> QED BY <2>1, <2>2
<1> HIDE DEF n
<1>2. s \in [1 .. n - 1 -> S \ {m}] /\ \A i, j \in 1 .. n - 1 : i < j => NewerEvent(s[i], s[j])
  BY <1>1 DEF InOrderOfTime
<1> DEFINE z == [i \in 1 .. n |-> IF i = n THEN m ELSE s[i]]
<1>3. z \in [1 .. n -> S]
  BY <1>1, <1>2
<1>4. ASSUME NEW i \in 1 .. n, NEW j \in 1 .. n, i < j PROVE NewerEvent(z[i], z[j])
  <2>1. i \in 1 .. n - 1 /\ z[i] = s[i] /\ s[i] \in S /\ s[i] # m
    BY <1>1, <1>2, <1>4
  <2>2. CASE j = n
    BY <2>1, <2>2
  <2>3. CASE j # n
    <3>1. j \in 1 .. n - 1 /\ z[j] = s[j]
      BY <1>1, <2>3
    <3> QED BY <1>2, <1>4, <2>1, <3>1
  <2> QED BY <2>2, <2>3
<1>5. InOrderOfTime(z, S)
  BY <1>3, <1>4 DEF InOrderOfTime, n
<1> QED BY <1>5

\* A smallest set that could not be sorted would have an oldest event to take away.
LEMMA EventsCanBeSorted ==
    ASSUME NEW E \in SUBSET ErrorShapes, IsFiniteSet(E), Told(E)
    PROVE  \E s : InOrderOfTime(s, E)
<1> DEFINE Unsorted == {S \in SUBSET E : \A s : ~InOrderOfTime(s, S)}
           sizes == {Cardinality(S) : S \in Unsorted}
<1> SUFFICES ASSUME E \in Unsorted PROVE FALSE
    OBVIOUS
<1>1. \A S \in SUBSET E : IsFiniteSet(S) /\ Cardinality(S) \in Nat
  BY FS_Subset, FS_CardinalityType
<1>2. sizes \subseteq Nat /\ sizes # {}
  BY <1>1
<1>3. PICK n \in sizes : \A k \in sizes : n <= k
  BY <1>2, NaturalsHaveLeast
<1>4. PICK S \in Unsorted : Cardinality(S) = n
  BY <1>3
<1>5. S # {}
  <2> SUFFICES ASSUME S = {} PROVE FALSE
      OBVIOUS
  <2>1. Cardinality(S) = 0
    BY FS_EmptySet
  <2> DEFINE none == [i \in 1 .. 0 |-> 0]
  <2>2. none \in [1 .. 0 -> S] /\ DOMAIN none = {}
    OBVIOUS
  <2>3. InOrderOfTime(none, S)
    BY <2>1, <2>2 DEF InOrderOfTime
  <2> QED BY <1>4, <2>3
<1>6. PICK m \in S : \A e \in S : e # m => NewerEvent(e, m)
  BY <1>4, <1>5, OldestEvent DEF Told
<1>7. S \ {m} \in SUBSET E /\ Cardinality(S \ {m}) = n - 1 /\ n \in Nat
  BY <1>1, <1>2, <1>4, FS_RemoveElement
<1>8. S \ {m} \notin Unsorted
  <2>1. ~(n <= n - 1)
    BY <1>7
  <2> QED BY <1>3, <1>7, <2>1
<1>9. PICK s : InOrderOfTime(s, S \ {m})
  BY <1>7, <1>8
<1> QED BY <1>1, <1>4, <1>6, <1>9, OneMoreSorted

\* A sorted listing has every event.
LEMMA SortedShowsAll ==
    ASSUME NEW S \in SUBSET ErrorShapes, IsFiniteSet(S), NEW s, InOrderOfTime(s, S)
    PROVE  \A e \in S : \E i \in 1 .. Cardinality(S) : s[i] = e
<1> DEFINE n == Cardinality(S)
<1>1. n \in Nat
  BY FS_CardinalityType
<1>2. IsFiniteSet(1 .. n) /\ Cardinality(1 .. n) = n
  <2>1. IsFiniteSet(1 .. n) /\ Cardinality(1 .. n) = IF 1 > n THEN 0 ELSE n - 1 + 1
    BY <1>1, FS_Interval
  <2> QED BY <1>1, <2>1
<1>3. s \in Injection(1 .. n, S)
  <2>1. ASSUME NEW i \in 1 .. n, NEW j \in 1 .. n, i < j PROVE s[i] # s[j]
    <3>1. NewerEvent(s[i], s[j])
      BY <2>1 DEF InOrderOfTime
    <3>2. s[j] \in S
      BY DEF InOrderOfTime
    <3>3. s[j].at \in Nat /\ s[j].id \in Nat
      BY <3>2 DEF ErrorShapes
    <3> QED BY <3>1, <3>3 DEF NewerEvent
  <2>2. \A i, j \in 1 .. n : s[i] = s[j] => i = j
    <3> SUFFICES ASSUME NEW i \in 1 .. n, NEW j \in 1 .. n, i # j PROVE s[i] # s[j]
        OBVIOUS
    <3>1. i < j \/ j < i
      BY <1>1
    <3> QED BY <2>1, <3>1
  <2> QED BY <2>2 DEF Injection, IsInjective, InOrderOfTime
<1>4. s \in Surjection(1 .. n, S)
  BY <1>2, <1>3, FS_Injection
<1> QED BY <1>4 DEF Surjection

-----------------------------------------------------------------------------
\* The runner.

LEMMA FailFits ==
    ASSUME RunnerFits, NEW permanent, Fail(permanent), errorPc # "stopped"
    PROVE  RunnerFits'
<1>1. CASE Stop("exhausted") /\ retryIndex >= MaxRetryDelays /\ failedInRow' = failedInRow + 1
  BY <1>1, ErrorsAssumption DEF RunnerFits, Stop, GivesUpOnlyWhenExhausted
<1>2. CASE (Stop("cancelled") \/ Stop("permanent")) /\ failedInRow' = failedInRow + 1
  BY <1>2 DEF RunnerFits, Stop, GivesUpOnlyWhenExhausted
<1>3. CASE /\ errorPc' = "sleeping" /\ retryIndex' = retryIndex + 1 /\ ~(retryIndex >= MaxRetryDelays)
           /\ failedInRow' = failedInRow + 1
  BY <1>3, ErrorsAssumption DEF RunnerFits, GivesUpOnlyWhenExhausted
<1> QED BY <1>1, <1>2, <1>3, Zenon DEF Fail

LEMMA RunnerKeeps == ErrorsInv /\ RunnerStep => ErrorsInv'
<1> SUFFICES ASSUME ErrorsInv, RunnerStep PROVE ErrorsInv'
    OBVIOUS
<1>1. UNCHANGED <<errorEvents, walk>>
  BY DEF RunnerStep
<1>2. ErrorsFit' /\ WalkTyped' /\ WalkFits'
  BY <1>1 DEF ErrorsInv, ErrorsFit, WalkTyped, WalkFits
<1>3. RunnerFits /\ NoConnectionLeaks
  BY DEF ErrorsInv
<1>4. ASSUME NEW permanent, Fail(permanent), errorPc # "stopped" PROVE RunnerFits' /\ NoConnectionLeaks'
  <2>1. RunnerFits'
    BY <1>3, <1>4, FailFits, Zenon
  <2>2. NoConnectionLeaks'
    BY <1>4, Zenon DEF Fail, NoConnectionLeaks
  <2> QED BY <2>1, <2>2, Zenon
<1>5. ASSUME NEW pc \in {"authenticating", "subscribing"}, Advance(pc), errorPc # "stopped"
      PROVE  RunnerFits' /\ NoConnectionLeaks'
  <2>1. errorPc' = pc /\ UNCHANGED <<retryIndex, stopReason, failedInRow>>
    BY <1>5 DEF Advance
  <2>2. RunnerFits'
    BY <1>3, <1>5, <2>1 DEF RunnerFits, GivesUpOnlyWhenExhausted
  <2>3. NoConnectionLeaks'
    BY <2>1 DEF NoConnectionLeaks
  <2> QED BY <2>2, <2>3, Zenon
<1>6. ASSUME errorPc = "subscribing", errorPc' = "receiving", failedInRow' = 0, retryIndex' = 0,
             UNCHANGED <<connection, stopReason>>
      PROVE  RunnerFits' /\ NoConnectionLeaks'
  <2>1. RunnerFits'
    BY <1>3, <1>6, ErrorsAssumption DEF RunnerFits, GivesUpOnlyWhenExhausted
  <2>2. NoConnectionLeaks'
    BY <1>6 DEF NoConnectionLeaks
  <2> QED BY <2>1, <2>2, Zenon
<1>7. ASSUME Wake PROVE RunnerFits' /\ NoConnectionLeaks'
  <2>1. /\ errorPc = "sleeping" /\ UNCHANGED <<connection, failedInRow, retryIndex>>
        /\ \/ errorPc' = "stopped" /\ stopReason' = "cancelled"
           \/ errorPc' = "dialing" /\ UNCHANGED stopReason
    BY <1>7, Zenon DEF Wake, Stop
  <2>2. RunnerFits'
    BY <1>3, <2>1 DEF RunnerFits, GivesUpOnlyWhenExhausted
  <2>3. ~connection
    BY <1>3, <2>1 DEF NoConnectionLeaks
  <2>4. NoConnectionLeaks'
    BY <2>1, <2>3, Zenon DEF NoConnectionLeaks
  <2> QED BY <2>2, <2>4, Zenon
<1>8. \/ Wake
      \/ errorPc # "stopped" /\ \E permanent \in BOOLEAN : Fail(permanent)
      \/ errorPc # "stopped" /\ \E pc \in {"authenticating", "subscribing"} : Advance(pc)
      \/ /\ errorPc = "subscribing" /\ errorPc' = "receiving" /\ failedInRow' = 0 /\ retryIndex' = 0
         /\ UNCHANGED <<connection, stopReason>>
  <2>1. CASE Dial
    BY <2>1, Zenon DEF Dial
  <2>2. CASE Authenticate
    BY <2>2, Zenon DEF Authenticate
  <2>3. CASE SubscribeErrors
    BY <2>3, Zenon DEF SubscribeErrors
  <2>4. CASE EndSubscription
    BY <2>4, Zenon DEF EndSubscription
  <2>5. CASE Wake
    BY <2>5
  <2> QED BY <2>1, <2>2, <2>3, <2>4, <2>5 DEF RunnerStep
<1>9. RunnerFits' /\ NoConnectionLeaks'
  BY <1>4, <1>5, <1>6, <1>7, <1>8, Zenon
<1> QED BY <1>2, <1>9 DEF ErrorsInv

\* The table.
LEMMA StoreKeeps == ErrorsInv /\ StoreErrorEvent => ErrorsInv'
<1> SUFFICES ASSUME ErrorsInv, StoreErrorEvent PROVE ErrorsInv'
    OBVIOUS
<1>1. /\ ErrorsFit /\ RunnerFits /\ WalkTyped /\ WalkFits
      /\ UNCHANGED <<errorPc, connection, retryIndex, stopReason, failedInRow, walk>>
  BY DEF ErrorsInv, StoreErrorEvent, runnerVars
<1>2. PICK at \in ErrorTimes : \E owner \in ErrorOwners :
        errorEvents' = errorEvents \cup
            {[id |-> Cardinality(errorEvents) + 1, at |-> at, owner |-> owner]}
  BY DEF StoreErrorEvent
<1>3. PICK owner \in ErrorOwners :
        errorEvents' = errorEvents \cup
            {[id |-> Cardinality(errorEvents) + 1, at |-> at, owner |-> owner]}
  BY <1>2
<1> DEFINE e == [id |-> Cardinality(errorEvents) + 1, at |-> at, owner |-> owner]
           n == Cardinality(errorEvents)
<1>4. n \in Nat
  BY <1>1, FS_CardinalityType DEF ErrorsFit
<1>5. e \in ErrorShapes /\ e.id = n + 1
  BY <1>4, ErrorsAssumption DEF ErrorShapes
<1>6. errorEvents' = errorEvents \cup {e}
  BY <1>3
<1> HIDE DEF e
<1>7. e \notin errorEvents
  BY <1>1, <1>4, <1>5 DEF ErrorsFit
<1>8. IsFiniteSet(errorEvents') /\ Cardinality(errorEvents') = n + 1
  BY <1>1, <1>6, <1>7, FS_AddElement DEF ErrorsFit
<1>9. errorEvents' \in SUBSET ErrorShapes
  BY <1>1, <1>5, <1>6 DEF ErrorsFit
<1>10. \A f \in errorEvents : f.id \in Nat /\ f.id <= n
  BY <1>1 DEF ErrorsFit, ErrorShapes
<1>11. \A f \in errorEvents' : f.id <= Cardinality(errorEvents')
  BY <1>4, <1>5, <1>6, <1>8, <1>10
<1>12. \A f, g \in errorEvents' : f.id = g.id => f = g
  <2>1. \A f \in errorEvents : f.id # e.id
    BY <1>4, <1>5, <1>10
  <2> QED BY <1>1, <1>6, <2>1 DEF ErrorsFit
<1>13. ErrorsFit'
  BY <1>8, <1>9, <1>11, <1>12 DEF ErrorsFit
<1>14. RunnerFits'
  BY <1>1 DEF RunnerFits, GivesUpOnlyWhenExhausted
<1>17. NoConnectionLeaks'
  BY <1>1, Zenon DEF NoConnectionLeaks, ErrorsInv
<1>15. WalkTyped'
  <2>1. SUBSET errorEvents \subseteq SUBSET errorEvents'
    BY <1>6
  <2> QED BY <1>1, <2>1 DEF WalkTyped
<1>16. WalkFits'
  BY <1>1 DEF WalkFits
<1> QED BY <1>13, <1>14, <1>15, <1>16, <1>17 DEF ErrorsInv

-----------------------------------------------------------------------------
\* The reader.

LEMMA Chained ==
    ASSUME NEW e \in ErrorShapes, NEW f \in ErrorShapes, NEW g \in ErrorShapes,
           NewerEvent(e, f), NewerEvent(f, g)
    PROVE  NewerEvent(e, g)
BY DEF ErrorShapes, NewerEvent

Matching(owner, cursor) == {e \in errorEvents : e.owner = owner /\ Beyond(e, cursor)}

LEMMA ListingIsSorted ==
    ASSUME ErrorsFit, NEW owner, NEW cursor
    PROVE  /\ Matching(owner, cursor) \in SUBSET ErrorShapes
           /\ IsFiniteSet(Matching(owner, cursor))
           /\ InOrderOfTime(Listing(owner, cursor), Matching(owner, cursor))
<1> DEFINE F == Matching(owner, cursor)
<1>1. F \in SUBSET ErrorShapes /\ F \in SUBSET errorEvents /\ Told(F)
  BY DEF ErrorsFit, Matching, Told
<1>2. IsFiniteSet(F)
  BY <1>1, FS_Subset DEF ErrorsFit
<1>3. \E s : InOrderOfTime(s, F)
  BY <1>1, <1>2, EventsCanBeSorted
<1>4. \E s \in [1 .. Cardinality(F) -> F] : \A i, j \in DOMAIN s : i < j => NewerEvent(s[i], s[j])
  BY <1>3 DEF InOrderOfTime
<1>5. Listing(owner, cursor) = CHOOSE s \in [1 .. Cardinality(F) -> F] :
           \A i, j \in DOMAIN s : i < j => NewerEvent(s[i], s[j])
  BY DEF Listing, Matching
<1>6. InOrderOfTime(Listing(owner, cursor), F)
  BY <1>4, <1>5 DEF InOrderOfTime
<1> QED BY <1>1, <1>2, <1>6

\* One page after another.
LEMMA PageKeeps ==
    ASSUME ErrorsInv, walk.pc \in ErrorOwners,
           NEW n \in Nat, NEW page \in [1 .. n -> Matching(walk.pc, walk.cursor)],
           \A i, j \in 1 .. n : i < j => NewerEvent(page[i], page[j]),
           NEW all, all = walk.pages \o page
    PROVE  /\ all \in Seq(ErrorShapes) /\ InOrder(all)
           /\ Shown(all) = Shown(walk.pages) \cup {page[i] : i \in 1 .. n}
<1> DEFINE old == walk.pages
           m == Len(old)
<1>1. /\ old \in Seq(ErrorShapes) /\ m \in Nat /\ DOMAIN old = 1 .. m
      /\ \A i \in 1 .. m : old[i] \in ErrorShapes
  BY DEF ErrorsInv, WalkTyped
<1>2. \A i \in 1 .. n : page[i] \in ErrorShapes /\ Beyond(page[i], walk.cursor)
  BY DEF Matching, ErrorsInv, ErrorsFit
<1>3. page \in Seq(ErrorShapes) /\ Len(page) = n
  BY <1>2
<1>4. /\ all \in Seq(ErrorShapes) /\ Len(all) = m + n /\ DOMAIN all = 1 .. m + n
      /\ \A i \in 1 .. m + n : all[i] = IF i <= m THEN old[i] ELSE page[i - m]
  <2>1. all = old \o page
    OBVIOUS
  <2>2. all \in Seq(ErrorShapes) /\ Len(all) = m + n
    BY <1>1, <1>3, <2>1
  <2>3. ASSUME NEW i \in 1 .. m + n PROVE all[i] = IF i <= m THEN old[i] ELSE page[i - m]
    BY <1>1, <1>3, <2>1
  <2> QED BY <2>2, <2>3
<1>5. \A i, j \in 1 .. m : i < j => NewerEvent(old[i], old[j])
  BY <1>1 DEF ErrorsInv, WalkFits, InOrder
<1>6. \A i \in 1 .. m, j \in 1 .. n : NewerEvent(old[i], page[j])
  BY <1>1, <1>2 DEF ErrorsInv, WalkFits
<1> HIDE DEF old, m
<1>7. ASSUME NEW i \in 1 .. m + n, NEW j \in 1 .. m + n, i < j PROVE NewerEvent(all[i], all[j])
  <2>1. CASE j <= m
    BY <1>1, <1>4, <1>5, <1>7, <2>1
  <2>2. CASE i <= m /\ ~(j <= m)
    <3>1. i \in 1 .. m /\ j - m \in 1 .. n
      BY <1>1, <2>2
    <3> QED BY <1>4, <1>6, <2>2, <3>1
  <2>3. CASE ~(i <= m) /\ ~(j <= m)
    <3>1. i - m \in 1 .. n /\ j - m \in 1 .. n /\ i - m < j - m
      BY <1>1, <1>7, <2>3
    <3> QED BY <1>4, <2>3, <3>1
  <2> QED BY <1>1, <1>7, <2>1, <2>2, <2>3
<1>8. InOrder(all)
  BY <1>4, <1>7 DEF InOrder
<1>9. Shown(all) = Shown(old) \cup {page[i] : i \in 1 .. n}
  <2>1. ASSUME NEW e \in Shown(all) PROVE e \in Shown(old) \cup {page[i] : i \in 1 .. n}
    <3>1. PICK i \in 1 .. m + n : all[i] = e
      BY <1>4 DEF Shown
    <3>2. CASE i <= m
      BY <1>1, <1>4, <3>1, <3>2 DEF Shown
    <3>3. CASE ~(i <= m)
      <4>1. i - m \in 1 .. n
        BY <1>1, <3>3
      <4> QED BY <1>4, <3>1, <3>3, <4>1
    <3> QED BY <3>2, <3>3
  <2>2. ASSUME NEW e \in Shown(old) PROVE e \in Shown(all)
    <3>1. PICK i \in 1 .. m : old[i] = e
      BY <1>1 DEF Shown
    <3>2. i \in 1 .. m + n /\ all[i] = e
      BY <1>1, <1>4, <3>1
    <3> QED BY <1>4, <3>2 DEF Shown
  <2>3. ASSUME NEW i \in 1 .. n PROVE page[i] \in Shown(all)
    <3>1. m + i \in 1 .. m + n /\ ~(m + i <= m) /\ m + i - m = i
      BY <1>1
    <3>2. PICK j : j = m + i
      OBVIOUS
    <3>3. j \in 1 .. m + n /\ ~(j <= m) /\ j - m = i
      BY <1>1, <3>1, <3>2
    <3>4. all[j] = page[j - m]
      BY <1>4, <3>3
    <3> QED BY <1>4, <3>3, <3>4 DEF Shown
  <2> QED BY <2>1, <2>2, <2>3
<1> QED BY <1>4, <1>8, <1>9 DEF old

LEMMA ReadPageKeeps == ErrorsInv /\ ReadPage => ErrorsInv'
<1> SUFFICES ASSUME ErrorsInv, ReadPage PROVE ErrorsInv'
    OBVIOUS
<1> DEFINE F == Matching(walk.pc, walk.cursor)
           found == Listing(walk.pc, walk.cursor)
           n == Cardinality(F)
           k == IF n > ErrorPageSize THEN ErrorPageSize ELSE n
           page == IF Len(found) > ErrorPageSize THEN SubSeq(found, 1, ErrorPageSize) ELSE found
           final == page[Len(page)]
           all == walk.pages \o page
<1>1. /\ ErrorsFit /\ RunnerFits /\ WalkTyped /\ WalkFits /\ walk.pc \in ErrorOwners
      /\ UNCHANGED <<errorPc, connection, retryIndex, stopReason, failedInRow, errorEvents>>
      /\ ErrorPageSize \in Nat \ {0}
  BY ErrorsAssumption DEF ErrorsInv, ReadPage, runnerVars
<1>2. /\ F \in SUBSET ErrorShapes /\ IsFiniteSet(F) /\ InOrderOfTime(found, F) /\ n \in Nat
  BY <1>1, ListingIsSorted, FS_CardinalityType
<1>3. /\ found \in [1 .. n -> F] /\ \A i, j \in 1 .. n : i < j => NewerEvent(found[i], found[j])
  BY <1>2 DEF InOrderOfTime
<1>4. \A e \in F : \E i \in 1 .. n : found[i] = e
  BY <1>2, SortedShowsAll
<1>5. Len(found) = n /\ found \in Seq(F)
  BY <1>2, <1>3
<1>6. walk' = [walk EXCEPT !.pages = @ \o page,
                  !.cursor = IF Len(found) > ErrorPageSize THEN [at |-> final.at, id |-> final.id] ELSE @,
                  !.pc = IF Len(found) > ErrorPageSize THEN @ ELSE "finished"]
  BY DEF ReadPage
<1> HIDE DEF F, found, n
<1>7. /\ page \in [1 .. k -> F] /\ k \in Nat /\ k <= n /\ \A i \in 1 .. k : page[i] = found[i]
      /\ Len(page) = k
  <2>1. CASE n > ErrorPageSize
    <3>1. page = SubSeq(found, 1, ErrorPageSize) /\ k = ErrorPageSize
      BY <1>5, <2>1
    <3>2. page = [i \in 1 .. k |-> found[i]]
      BY <1>1, <1>5, <3>1
    <3>3. \A i \in 1 .. k : i \in 1 .. n
      BY <1>1, <1>2, <2>1, <3>1
    <3>4. page \in [1 .. k -> F]
      BY <1>3, <3>2, <3>3
    <3>5. Len(page) = k
      BY <1>1, <3>1, <3>2
    <3>6. k \in Nat /\ k <= n
      BY <1>1, <1>2, <2>1, <3>1
    <3>7. \A i \in 1 .. k : page[i] = found[i]
      BY <3>2
    <3> HIDE DEF k, page
    <3> QED BY <3>4, <3>5, <3>6, <3>7
  <2>2. CASE ~(n > ErrorPageSize)
    BY <1>2, <1>3, <1>5, <2>2
  <2> QED BY <2>1, <2>2
<1>8. \A i, j \in 1 .. k : i < j => NewerEvent(page[i], page[j])
  BY <1>2, <1>3, <1>7
<1>9. /\ all \in Seq(ErrorShapes) /\ InOrder(all)
      /\ Shown(all) = Shown(walk.pages) \cup {page[i] : i \in 1 .. k}
  <2>1. all = walk.pages \o page
    OBVIOUS
  <2>2. page \in [1 .. k -> Matching(walk.pc, walk.cursor)]
    BY <1>7 DEF F
  <2> HIDE DEF all, page, k
  <2> QED BY <1>1, <1>7, <1>8, <2>1, <2>2, PageKeeps
<1>10. \A e \in walk.begun : e \in Shown(walk.pages) \/ e \in F
  BY <1>1 DEF F, Matching, WalkFits, WalkTyped
<1>11. ErrorsFit' /\ RunnerFits' /\ NoConnectionLeaks'
  <2>1. ErrorsFit' /\ RunnerFits'
    BY <1>1 DEF ErrorsFit, RunnerFits, GivesUpOnlyWhenExhausted
  <2>2. NoConnectionLeaks'
    BY <1>1, Zenon DEF NoConnectionLeaks, ErrorsInv
  <2> QED BY <2>1, <2>2
<1>12. CASE ~(n > ErrorPageSize)
  <2>1. /\ walk'.pages = all /\ walk'.pc = "finished" /\ walk'.cursor = walk.cursor
        /\ walk'.begun = walk.begun /\ k = n
        /\ walk' = [walk EXCEPT !.pages = all, !.cursor = walk.cursor, !.pc = "finished"]
    BY <1>1, <1>5, <1>6, <1>12 DEF WalkTyped
  <2>2. WalkTyped'
    <3> HIDE DEF all
    <3> QED BY <1>1, <1>9, <2>1 DEF WalkTyped
  <2>3. walk'.begun \subseteq Shown(all)
    <3> SUFFICES ASSUME NEW e \in walk.begun PROVE e \in Shown(all)
        BY <2>1
    <3>1. CASE e \in Shown(walk.pages)
      BY <1>9, <3>1
    <3>2. CASE e \in F
      <4>1. PICK i \in 1 .. n : found[i] = e
        BY <1>4, <3>2
      <4>2. i \in 1 .. k /\ page[i] = e
        BY <1>7, <2>1, <4>1
      <4> QED BY <1>9, <4>2
    <3> QED BY <1>10, <3>1, <3>2
  <2>4. WalkFits'
    BY <1>9, <2>1, <2>3, ErrorsAssumption DEF WalkFits
  <2> QED BY <1>11, <2>2, <2>4 DEF ErrorsInv
<1>13. CASE n > ErrorPageSize
  <2>1. PICK e : e = page[k]
    OBVIOUS
  <2>2. k = ErrorPageSize /\ k \in 1 .. n /\ e = found[k] /\ e \in F /\ e \in ErrorShapes
        /\ final = e
    BY <1>1, <1>2, <1>3, <1>7, <1>13, <2>1
  <2> DEFINE cursor == [at |-> e.at, id |-> e.id]
  <2>3. /\ walk'.pages = all /\ walk'.pc = walk.pc /\ walk'.cursor = cursor
        /\ walk'.begun = walk.begun
        /\ walk' = [walk EXCEPT !.pages = all, !.cursor = cursor, !.pc = walk.pc]
    BY <1>1, <1>5, <1>6, <1>13, <2>2 DEF WalkTyped
  <2>4. cursor \in ErrorCursors /\ cursor # NoCursor
    BY <2>2 DEF ErrorCursors, NoCursor, ErrorShapes
  <2>5. \A f : Beyond(f, cursor) <=> NewerEvent(e, f)
    BY <2>4 DEF Beyond, NewerEvent
  <2> HIDE DEF cursor
  <2>6. WalkTyped'
    <3> HIDE DEF all
    <3> QED BY <1>1, <1>9, <2>3, <2>4 DEF WalkTyped
  <2>7. ASSUME NEW f \in ErrorShapes, Beyond(f, cursor), NEW i \in DOMAIN all
        PROVE  NewerEvent(all[i], f)
    <3>1. NewerEvent(e, f)
      BY <2>5, <2>7
    <3>2. all[i] \in Shown(all) /\ all[i] \in ErrorShapes
      <4> HIDE DEF all
      <4> QED BY <1>9, <2>7 DEF Shown
    <3>3. all[i] = e \/ NewerEvent(all[i], e)
      <4>1. CASE all[i] \in Shown(walk.pages)
        <5>1. Beyond(e, walk.cursor)
          BY <2>2 DEF F, Matching
        <5> QED BY <1>1, <2>2, <4>1, <5>1 DEF WalkFits, Shown
      <4>2. CASE \E j \in 1 .. k : all[i] = page[j]
        <5>1. PICK j \in 1 .. k : all[i] = page[j]
          BY <4>2
        <5>2. CASE j = k
          BY <2>1, <5>1, <5>2
        <5>3. CASE j # k
          <6>1. j < k /\ k \in 1 .. k
            BY <2>2, <5>1, <5>3
          <6> QED BY <1>8, <2>1, <5>1, <6>1
        <5> QED BY <5>2, <5>3
      <4> QED BY <1>9, <3>2, <4>1, <4>2
    <3> QED BY <2>2, <3>1, <3>2, <3>3, Chained
  <2>8. ASSUME NEW f \in walk.begun
        PROVE  f.owner = walk.pc /\ (f \in Shown(all) \/ Beyond(f, cursor))
    <3>1. f.owner = walk.pc
      BY <1>1 DEF WalkFits
    <3>2. CASE f \in Shown(walk.pages)
      BY <1>9, <3>1, <3>2
    <3>3. CASE f \in F
      <4>1. PICK i \in 1 .. n : found[i] = f
        BY <1>4, <3>3
      <4>2. CASE i <= k
        <5>1. i \in 1 .. k
          BY <1>7, <4>2
        <5> QED BY <1>7, <1>9, <3>1, <4>1, <5>1
      <4>3. CASE ~(i <= k)
        <5>1. k < i
          BY <1>7, <4>3
        <5> QED BY <1>3, <2>2, <2>5, <3>1, <4>1, <5>1
      <4> QED BY <4>2, <4>3
    <3> QED BY <1>10, <3>2, <3>3
  <2>9. WalkFits'
    <3>1. walk'.pc # "finished"
      BY <1>1, <2>3, ErrorsAssumption
    <3> HIDE DEF all
    <3> QED BY <1>1, <1>9, <2>3, <2>7, <2>8, <3>1 DEF WalkFits
  <2> QED BY <1>11, <2>6, <2>9 DEF ErrorsInv
<1> QED BY <1>12, <1>13

LEMMA WalkingKeeps == ErrorsInv /\ (BeginWalk \/ EndWalk) => ErrorsInv'
<1> SUFFICES ASSUME ErrorsInv, BeginWalk \/ EndWalk PROVE ErrorsInv'
    OBVIOUS
<1>1. ErrorsFit' /\ RunnerFits' /\ NoConnectionLeaks'
  <2>1. UNCHANGED <<errorPc, connection, retryIndex, stopReason, failedInRow, errorEvents>>
    BY DEF BeginWalk, EndWalk, runnerVars
  <2>2. ErrorsFit' /\ RunnerFits'
    BY <2>1 DEF ErrorsInv, ErrorsFit, RunnerFits, GivesUpOnlyWhenExhausted
  <2>3. NoConnectionLeaks'
    BY <2>1, Zenon DEF NoConnectionLeaks, ErrorsInv
  <2> QED BY <2>2, <2>3
<1>2. errorEvents' = errorEvents
  BY DEF BeginWalk, EndWalk
<1>3. CASE EndWalk
  <2>1. walk' = Idle
    BY <1>3 DEF EndWalk
  <2>2. WalkTyped'
    BY <2>1 DEF WalkTyped, Idle, NoCursor, ErrorCursors
  <2>3. WalkFits'
    BY <2>1, ErrorsAssumption DEF WalkFits, Idle, InOrder, Shown
  <2> QED BY <1>1, <2>2, <2>3 DEF ErrorsInv
<1>4. CASE BeginWalk
  <2>1. PICK owner \in ErrorOwners :
          walk' = [Idle EXCEPT !.pc = owner, !.begun = {e \in errorEvents : e.owner = owner}]
    BY <1>4 DEF BeginWalk
  <2>2. walk' = [pc |-> owner, cursor |-> NoCursor, pages |-> <<>>,
                 begun |-> {e \in errorEvents : e.owner = owner}]
    BY <2>1 DEF Idle
  <2>3. WalkTyped'
    BY <1>2, <2>2 DEF WalkTyped, NoCursor, ErrorCursors
  <2>4. WalkFits'
    BY <2>2, ErrorsAssumption DEF WalkFits, InOrder, Beyond
  <2> QED BY <1>1, <2>3, <2>4 DEF ErrorsInv
<1> QED BY <1>3, <1>4

LEMMA ErrorsInvNext == ErrorsInv /\ [ErrorsNext]_errorVars => ErrorsInv'
<1> SUFFICES ASSUME ErrorsInv, [ErrorsNext]_errorVars PROVE ErrorsInv'
    OBVIOUS
<1>1. CASE UNCHANGED errorVars \/ CancelErrors
  <2>1. UNCHANGED <<errorPc, connection, retryIndex, stopReason, failedInRow, errorEvents, walk>>
    BY <1>1 DEF errorVars, CancelErrors, runnerVars
  <2>2. ErrorsFit' /\ RunnerFits' /\ WalkTyped' /\ WalkFits'
    BY <2>1 DEF ErrorsInv, ErrorsFit, RunnerFits, GivesUpOnlyWhenExhausted, WalkTyped, WalkFits
  <2>3. NoConnectionLeaks'
    BY <2>1, Zenon DEF NoConnectionLeaks, ErrorsInv
  <2> QED BY <2>2, <2>3 DEF ErrorsInv
<1> QED BY <1>1, RunnerKeeps, StoreKeeps, ReadPageKeeps, WalkingKeeps DEF ErrorsNext

(* A walk through the pages shows every event that was there when it began,   *)
(* none twice, in order; no connection is lost, and no subscription given up  *)
(* before its last delay (repository/error_events.go,                         *)
(* poller/redis_error_ingest_runner.go).                                      *)
THEOREM ErrorsStayShown == ErrorsSpec => []ErrorsAreShown
<1> QED BY ErrorsInitHolds, ErrorsInvNext, ErrorsInvShown, PTL DEF ErrorsSpec

-----------------------------------------------------------------------------
(* The backups. An attempt whose time is that of the files begins only when   *)
(* every one of them is an interval old, also a retry, because the attempt    *)
(* before it did; and by the time that all retries are used up, attempts are  *)
(* one a day, whether or not the files could be listed.                       *)

\* Far enough from a file at time t to write the next one.
Spaced(mod, t) == IF UsesDailySchedule THEN (Day(t) - Day(mod)) * DaySlots >= backupInterval
                  ELSE t - mod >= backupInterval

AllSpaced(t) == \A f \in files : Spaced(f.mod, t)

\* At four o'clock.
Aligned(t) == t % DaySlots = BackupSlot

\* How many attempts may have been made.
Attempts == IF retryAttempts > MaxRetries THEN MaxRetries + 1
            ELSE retryAttempts + (IF backupPc = "copying" THEN 1 ELSE 0)

BackupsTyped ==
    /\ backupInterval \in Nat \ {0} /\ backupPc \in {"deciding", "sleeping", "copying"}
    /\ wakeAt \in Nat /\ backupAt \in Nat /\ backupClock \in Nat
    /\ lastBackupAt \in -1 .. backupClock
    /\ retryAttempts \in 0 .. MaxRetries + 1
    /\ files \in SUBSET [day : Nat, mod : 0 .. backupClock, blind : BOOLEAN]
    /\ blind \in BOOLEAN
    /\ tried \in SUBSET (0 .. backupClock)

SpacingFits ==
    /\ backupPc = "sleeping" /\ ~blind => AllSpaced(wakeAt)
    /\ backupPc = "copying" => backupAt <= backupClock
    /\ backupPc = "copying" /\ ~blind => AllSpaced(backupAt)
    /\ backupPc = "deciding" /\ pendingRetry /\ ~blind => AllSpaced(backupClock)

RetriesFit ==
    /\ pendingRetry <=> retryAttempts \in 1 .. MaxRetries
    /\ UsesDailySchedule =>
         /\ Cardinality(tried) <= Attempts
         /\ Cardinality(tried) = Attempts => tried = {} \/ \E a \in tried : Aligned(a)
         /\ backupPc = "sleeping" => backupClock <= wakeAt
         /\ backupPc = "sleeping" /\ ~pendingRetry => Aligned(wakeAt)

BackupsInv == BackupsTyped /\ SpacingFits /\ RetriesFit /\ BackupsAreSpaced

LEMMA BackupConstants ==
    /\ DaySlots \in Nat \ {0} /\ BackupSlot \in Nat /\ BackupSlot < DaySlots
    /\ RetryDelay \in Nat \ {0} /\ MaxRetries \in Nat /\ RetentionDays \in Nat
    /\ BackupIntervals \subseteq Nat \ {0}
BY BackupsAssumption

-----------------------------------------------------------------------------
\* Days.

LEMMA DayBounds ==
    ASSUME NEW t \in Int
    PROVE  /\ Day(t) \in Int /\ t % DaySlots \in 0 .. DaySlots - 1
           /\ t = Day(t) * DaySlots + (t % DaySlots)
BY BackupConstants DEF Day

LEMMA DayOfSum ==
    ASSUME NEW d \in Int, NEW r \in 0 .. DaySlots - 1, NEW t \in Int, t = d * DaySlots + r
    PROVE  Day(t) = d /\ t % DaySlots = r
BY BackupConstants DEF Day

LEMMA DaysPass == ASSUME NEW s \in Int, NEW t \in Int, s <= t PROVE Day(s) <= Day(t)
BY BackupConstants DEF Day

LEMMA AlignedApart ==
    ASSUME NEW s \in Int, NEW t \in Int, Aligned(s), Aligned(t), s < t
    PROVE  s <= t - DaySlots
<1> DEFINE p == Day(s)
           q == Day(t)
<1>1. /\ p \in Int /\ q \in Int /\ s = p * DaySlots + BackupSlot /\ t = q * DaySlots + BackupSlot
  <2>1. p \in Int /\ s = p * DaySlots + (s % DaySlots)
    BY DayBounds
  <2>2. q \in Int /\ t = q * DaySlots + (t % DaySlots)
    BY DayBounds
  <2>3. s % DaySlots = BackupSlot /\ t % DaySlots = BackupSlot
    BY DEF Aligned
  <2>4. s = p * DaySlots + BackupSlot
    BY <2>1, <2>3, Zenon
  <2>5. t = q * DaySlots + BackupSlot
    BY <2>2, <2>3, Zenon
  <2> QED BY <2>1, <2>2, <2>4, <2>5, Zenon
<1> HIDE DEF p, q
<1>2. p < q
  BY <1>1, BackupConstants
<1>3. (q - p) * DaySlots >= DaySlots
  BY <1>1, <1>2, BackupConstants
<1>4. (q - p) * DaySlots = q * DaySlots - p * DaySlots
  BY <1>1, BackupConstants
<1> QED BY <1>1, <1>3, <1>4, BackupConstants

LEMMA SpacedLonger ==
    ASSUME NEW m \in Int, NEW n \in Int, NEW s \in Int, NEW t \in Int, backupInterval \in Nat,
           m <= n, s <= t, Spaced(n, s)
    PROVE  Spaced(m, t)
<1>1. CASE UsesDailySchedule
  <2>1. /\ Day(m) \in Int /\ Day(n) \in Int /\ Day(s) \in Int /\ Day(t) \in Int
        /\ Day(m) <= Day(n) /\ Day(s) <= Day(t)
    BY DayBounds, DaysPass
  <2>2. (Day(s) - Day(n)) * DaySlots >= backupInterval
    BY <1>1 DEF Spaced
  <2>3. ASSUME NEW x \in Int, NEW y \in Int, x <= y PROVE x * DaySlots <= y * DaySlots
    BY <2>3, BackupConstants
  <2>4. /\ Day(s) - Day(n) \in Int /\ Day(t) - Day(m) \in Int /\ Day(s) - Day(n) <= Day(t) - Day(m)
    BY <2>1
  <2>5. (Day(s) - Day(n)) * DaySlots <= (Day(t) - Day(m)) * DaySlots
    BY <2>3, <2>4
  <2>6. (Day(s) - Day(n)) * DaySlots \in Int /\ (Day(t) - Day(m)) * DaySlots \in Int
    BY <2>4, BackupConstants
  <2>7. (Day(t) - Day(m)) * DaySlots >= backupInterval
    BY <2>2, <2>5, <2>6
  <2> QED BY <1>1, <2>7 DEF Spaced
<1>2. CASE ~UsesDailySchedule
  BY <1>2 DEF Spaced
<1> QED BY <1>1, <1>2

LEMMA LargestBelow ==
    ASSUME NEW n \in Int, NEW S \in SUBSET Int, S # {}, \A x \in S : x <= n
    PROVE  Max(S) \in S /\ \A x \in S : x <= Max(S)
<1> DEFINE D == {d \in Nat : n - d \in S}
<1>1. D # {}
  <2>1. PICK x \in S : TRUE
    OBVIOUS
  <2>2. n - x \in Nat /\ n - (n - x) = x
    BY <2>1
  <2> QED BY <2>1, <2>2
<1>2. PICK d \in D : \A y \in D : d <= y
  BY <1>1, NaturalsHaveLeast
<1>3. \A x \in S : x <= n - d
  <2> TAKE x \in S
  <2>1. n - x \in Nat /\ n - (n - x) = x /\ x \in Int
    OBVIOUS
  <2>2. d <= n - x
    BY <1>2, <2>1
  <2> QED BY <1>2, <2>1, <2>2
<1>4. n - d \in S
  BY <1>2
<1>5. \E x \in S : \A y \in S : x >= y
  <2>1. \A y \in S : n - d >= y
    BY <1>2, <1>3
  <2> QED BY <1>4, <2>1
<1>6. Max(S) \in S /\ \A y \in S : Max(S) >= y
  BY <1>5 DEF Max
<1> QED BY <1>6

-----------------------------------------------------------------------------
\* When the next backup is due.

LEMMA HistoryIsLatest ==
    ASSUME BackupsTyped, NEW listed \in BOOLEAN
    PROVE  /\ LastFromHistory(listed) \in -1 .. backupClock
           /\ listed => \A f \in files : f.mod \in Nat /\ f.mod <= LastFromHistory(listed)
<1> DEFINE S == {lastBackupAt} \cup ShownTimes(listed)
<1>1. backupClock \in Nat /\ lastBackupAt \in -1 .. backupClock /\ \A f \in files : f.mod \in 0 .. backupClock
  BY DEF BackupsTyped
<1>2. S \in SUBSET Int /\ S # {} /\ \A x \in S : x <= backupClock /\ x >= -1
  <2>1. \A x \in ShownTimes(listed) : x \in 0 .. backupClock
    BY <1>1 DEF ShownTimes
  <2>2. ShownTimes(listed) \in SUBSET Int /\ \A x \in ShownTimes(listed) : x <= backupClock /\ x >= -1
    BY <1>1, <2>1
  <2> HIDE DEF ShownTimes
  <2>3. lastBackupAt \in Int /\ lastBackupAt <= backupClock /\ lastBackupAt >= -1
    BY <1>1
  <2> QED BY <2>2, <2>3, Zenon
<1>7. backupClock \in Int /\ \A x \in S : x <= backupClock
  BY <1>1, <1>2
<1>3. Max(S) \in S /\ \A x \in S : x <= Max(S)
  <2> HIDE DEF S
  <2> QED BY <1>2, <1>7, LargestBelow
<1>4. LastFromHistory(listed) = Max(S)
  BY Zenon DEF LastFromHistory
<1>5. LastFromHistory(listed) \in -1 .. backupClock
  <2>1. PICK m \in S : m = Max(S)
    BY <1>3
  <2>2. m \in -1 .. backupClock
    BY <1>1, <1>2, <2>1
  <2> QED BY <1>4, <2>1, <2>2, Zenon
<1>6. listed => \A f \in files : f.mod <= LastFromHistory(listed)
  <2>1. listed => \A f \in files : f.mod \in S
    BY Zenon DEF ShownTimes
  <2> QED BY <1>3, <1>4, <2>1
<1> QED BY <1>1, <1>5, <1>6

LEMMA NextDayIsAhead ==
    ASSUME backupClock \in Nat
    PROVE  /\ NextDailyBackup \in Nat /\ Aligned(NextDailyBackup)
           /\ backupClock < NextDailyBackup
<1> DEFINE d == Day(backupClock)
           today == d * DaySlots + BackupSlot
<1>1. /\ d \in Int /\ backupClock % DaySlots \in 0 .. DaySlots - 1
      /\ backupClock = d * DaySlots + (backupClock % DaySlots)
  BY DayBounds
<1>4. d * DaySlots \in Int /\ (d + 1) * DaySlots = d * DaySlots + DaySlots /\ today \in Int
  BY <1>1, BackupConstants
<1>5. today + DaySlots = (d + 1) * DaySlots + BackupSlot
  BY <1>4, BackupConstants
<1>0. /\ BackupSlot \in 0 .. DaySlots - 1 /\ d + 1 \in Int /\ today + DaySlots \in Int
      /\ today = d * DaySlots + BackupSlot
  BY <1>1, <1>4, BackupConstants
<1>2. today % DaySlots = BackupSlot
  BY <1>0, <1>1, <1>4, DayOfSum, Zenon
<1>3. (today + DaySlots) % DaySlots = BackupSlot
  BY <1>0, <1>5, DayOfSum, Zenon
<1>6. PICK product \in Int : product = d * DaySlots
  BY <1>4
<1>7. PICK rest \in 0 .. DaySlots - 1 : rest = backupClock % DaySlots
  BY <1>1
<1>8. backupClock = product + rest /\ today = product + BackupSlot
  BY <1>1, <1>6, <1>7
<1>9. today \in Int /\ backupClock < today + DaySlots
  BY <1>8, BackupConstants
<1>10. NextDailyBackup = IF backupClock < today THEN today ELSE today + DaySlots
  BY DEF NextDailyBackup
<1> HIDE DEF today, d
<1>11. NextDailyBackup \in Int /\ backupClock < NextDailyBackup
  BY <1>9, <1>10, BackupConstants
<1>12. NextDailyBackup % DaySlots = BackupSlot
  BY <1>2, <1>3, <1>10, Zenon
<1> QED BY <1>11, <1>12 DEF Aligned

\* The day the interval leads to from the last backup.
LEMMA CandidateIsFar ==
    ASSUME UsesDailySchedule, backupInterval \in Nat \ {0}, NEW last \in Int,
           NEW c, c = Day(last) * DaySlots + BackupSlot + backupInterval
    PROVE  c \in Int /\ Aligned(c) /\ Spaced(last, c)
<1> DEFINE d == Day(last)
           k == Day(backupInterval)
<1>1. d \in Int /\ k \in Int /\ backupInterval = k * DaySlots + (backupInterval % DaySlots)
  BY DayBounds
<1>2. backupInterval % DaySlots = 0
  BY DEF UsesDailySchedule
<1> HIDE DEF d, k
<1>3. /\ d * DaySlots \in Int /\ k * DaySlots \in Int
      /\ (d + k) * DaySlots = d * DaySlots + k * DaySlots
      /\ (d + k - d) * DaySlots = k * DaySlots
  BY <1>1, BackupConstants
<1>4. backupInterval = k * DaySlots
  BY <1>1, <1>2, <1>3
<1>5. c = d * DaySlots + BackupSlot + k * DaySlots
  BY <1>4 DEF d
<1>6. c = (d + k) * DaySlots + BackupSlot
  BY <1>3, <1>5, BackupConstants
<1>8. c \in Int /\ d + k \in Int /\ BackupSlot \in 0 .. DaySlots - 1
  BY <1>1, <1>3, <1>5, BackupConstants
<1>7. Day(c) = d + k /\ c % DaySlots = BackupSlot
  BY <1>6, <1>8, DayOfSum, Zenon
<1>9. (Day(c) - Day(last)) * DaySlots = backupInterval
  <2>1. (d + k - d) * DaySlots = backupInterval
    BY <1>3, <1>4, Zenon
  <2>2. Day(c) - Day(last) = d + k - d
    BY <1>1, <1>7, <1>8 DEF d
  <2> QED BY <2>1, <2>2, Zenon
<1>10. (Day(c) - Day(last)) * DaySlots >= backupInterval
  BY <1>9
<1> QED BY <1>7, <1>8, <1>10, Zenon DEF Aligned, Spaced

LEMMA DueFits ==
    ASSUME BackupsInv, backupPc = "deciding", NEW listed \in BOOLEAN
    PROVE  /\ Due(listed) \in Nat
           /\ ~(IF pendingRetry THEN blind ELSE ~listed) => AllSpaced(Due(listed))
           /\ UsesDailySchedule => backupClock <= Due(listed) /\ (~pendingRetry => Aligned(Due(listed)))
<1> DEFINE last == LastFromHistory(listed)
<1>0. BackupsTyped
  BY DEF BackupsInv
<1>1. /\ BackupsTyped /\ backupClock \in Nat /\ backupInterval \in Nat \ {0} /\ last \in -1 .. backupClock
      /\ listed => \A f \in files : f.mod \in Nat /\ f.mod <= last
  <2>1. /\ last \in -1 .. backupClock
        /\ listed => \A f \in files : f.mod \in Nat /\ f.mod <= last
    BY <1>0, HistoryIsLatest, Zenon
  <2>2. backupClock \in Nat /\ backupInterval \in Nat \ {0}
    BY <1>0 DEF BackupsTyped
  <2> QED BY <1>0, <2>1, <2>2, Zenon
<1>2. ASSUME NEW t \in Int, listed => (last # Never => Spaced(last, t)) PROVE listed => AllSpaced(t)
  <2> SUFFICES ASSUME listed PROVE AllSpaced(t)
      OBVIOUS
  <2> SUFFICES ASSUME NEW f \in files PROVE Spaced(f.mod, t)
      BY DEF AllSpaced
  <2>3. f.mod \in Nat /\ f.mod <= last
    BY <1>1, Zenon
  <2>4. last \in Int /\ backupInterval \in Nat
    <3>1. PICK l \in -1 .. backupClock : l = last
      BY <1>1, Zenon
    <3>2. l \in Int /\ backupInterval \in Nat
      BY <1>1
    <3> QED BY <3>1, <3>2, Zenon
  <2>5. last # Never => Spaced(last, t)
    BY <1>2, Zenon
  <2> HIDE DEF last
  <2>1. last # Never
    BY <2>3, <2>4 DEF Never
  <2>6. Spaced(last, t) /\ f.mod \in Int /\ t <= t
    BY <2>1, <2>3, <2>5
  <2> QED BY <2>3, <2>4, <2>6, SpacedLonger
<1>3. CASE pendingRetry
  <2>1. Due(listed) = backupClock + RetryDelay
    BY <1>3, Zenon DEF Due
  <2>2. Due(listed) \in Nat /\ backupClock <= Due(listed)
    BY <1>1, <2>1, BackupConstants
  <2>3. ~blind => AllSpaced(backupClock)
    BY <1>3 DEF BackupsInv, SpacingFits
  <2>5. \A f \in files : f.mod \in Int
    BY <1>1 DEF BackupsTyped
  <2>4. ~blind => AllSpaced(Due(listed))
    BY <1>1, <2>5, <2>2, <2>3, SpacedLonger DEF AllSpaced
  <2> QED BY <1>3, <2>2, <2>4
<1>4. CASE ~pendingRetry /\ UsesDailySchedule
  <2> DEFINE c == Day(last) * DaySlots + BackupSlot + backupInterval
  <2>1. Due(listed) = NextDaily(last)
    BY <1>4, Zenon DEF Due
  <2>2. c \in Int /\ Aligned(c) /\ Spaced(last, c)
    BY <1>1, <1>4, CandidateIsFar
  <2>3. NextDailyBackup \in Nat /\ Aligned(NextDailyBackup) /\ backupClock < NextDailyBackup
    BY <1>1, NextDayIsAhead
  <2>4. Due(listed) = IF last # Never /\ backupClock < c THEN c ELSE NextDailyBackup
    BY <2>1, Zenon DEF NextDaily
  <2> HIDE DEF c, last
  <2>8. PICK due : due = Due(listed)
    OBVIOUS
  <2>9. due = IF last # Never /\ backupClock < c THEN c ELSE NextDailyBackup
    BY <2>4, <2>8, Zenon
  <2> DEFINE Good == due \in Nat /\ backupClock <= due /\ Aligned(due) /\ (last # Never => Spaced(last, due))
  <2>5. ASSUME last # Never /\ backupClock < c PROVE Good
    BY <1>1, <2>2, <2>5, <2>9
  <2>6. ASSUME last = Never PROVE Good
    BY <1>1, <2>3, <2>6, <2>9
  <2>7. ASSUME last # Never /\ ~(backupClock < c) PROVE Good
    <3>1. due = NextDailyBackup /\ c <= due /\ due \in Int
      BY <1>1, <2>2, <2>3, <2>9, <2>7
    <3>2. Spaced(last, due)
      BY <1>1, <2>2, <2>3, <3>1, SpacedLonger
    <3> QED BY <1>1, <2>3, <3>1, <3>2
  <2>10. Good
    BY <2>5, <2>6, <2>7
  <2>11. listed => AllSpaced(due)
    BY <1>2, <2>10
  <2> QED BY <1>4, <2>8, <2>10, <2>11, Zenon
<1>5. CASE ~pendingRetry /\ ~UsesDailySchedule
  <2>0. Due(listed) = IF last = Never THEN backupClock ELSE Max({last + backupInterval, backupClock})
    BY <1>5, Zenon DEF Due
  <2> HIDE DEF last
  <2>3. PICK due : due = Due(listed)
    OBVIOUS
  <2>4. due = IF last = Never THEN backupClock ELSE Max({last + backupInterval, backupClock})
    BY <2>0, <2>3, Zenon
  <2>1. ASSUME last = Never PROVE due \in Nat
    BY <1>1, <2>1, <2>4
  <2>2. ASSUME last # Never PROVE due \in Nat /\ Spaced(last, due)
    <3> DEFINE S == {last + backupInterval, backupClock}
    <3>1. due = Max(S)
      BY <2>2, <2>4, Zenon
    <3>2. last + backupInterval \in Nat /\ S \in SUBSET Int /\ S # {}
      BY <1>1, <2>2 DEF Never
    <3>3. \E n \in Int : \A x \in S : x <= n
      <4>1. \A x \in S : x <= last + backupInterval + backupClock
        BY <1>1, <3>2
      <4> QED BY <1>1, <3>2, <4>1
    <3>4. due \in S /\ \A x \in S : x <= due
      BY <3>1, <3>2, <3>3, LargestBelow
    <3>5. due \in Nat /\ last + backupInterval <= due
      BY <1>1, <3>2, <3>4
    <3>6. Spaced(last, due)
      BY <1>1, <1>5, <3>5 DEF Spaced
    <3> QED BY <3>5, <3>6
  <2>5. due \in Nat /\ (last # Never => Spaced(last, due))
    BY <2>1, <2>2
  <2>6. listed => AllSpaced(due)
    BY <1>2, <2>5
  <2> QED BY <1>5, <2>3, <2>5, <2>6, Zenon
<1> QED BY <1>3, <1>4, <1>5

-----------------------------------------------------------------------------
\* The steps.

LEMMA TriedIsFinite ==
    ASSUME BackupsTyped
    PROVE  /\ IsFiniteSet(tried) /\ Cardinality(tried) \in Nat
           /\ \A S \in SUBSET tried : /\ IsFiniteSet(S) /\ Cardinality(S) \in Nat
                                      /\ Cardinality(S) <= Cardinality(tried)
                                      /\ Cardinality(S) = Cardinality(tried) => S = tried
<1>1. IsFiniteSet(0 .. backupClock) /\ tried \in SUBSET (0 .. backupClock)
  BY FS_Interval DEF BackupsTyped
<1>2. IsFiniteSet(tried)
  BY <1>1, FS_Subset
<1> QED BY <1>2, FS_Subset, FS_CardinalityType

LEMMA BackupsInvKeepsSchedule == BackupsInv => BackupsKeepSchedule
<1> SUFFICES ASSUME BackupsInv PROVE BackupsKeepSchedule
    OBVIOUS
<1>1. BackupsTyped /\ RetriesFit /\ BackupsAreSpaced /\ retryAttempts \in 0 .. MaxRetries + 1
  BY DEF BackupsInv, BackupsTyped
<1>2. Attempts \in Nat /\ Attempts <= MaxRetries + 1
  BY <1>1, BackupConstants DEF Attempts
<1>3. RetriesAreBounded
  <2> SUFFICES ASSUME UsesDailySchedule, NEW t \in tried
               PROVE  Cardinality({u \in tried : t <= u /\ u < t + DaySlots - BackupSlot})
                          <= MaxRetries + 1
      BY DEF RetriesAreBounded
  <2> DEFINE S == {u \in tried : t <= u /\ u < t + DaySlots - BackupSlot}
  <2>1. S \in SUBSET tried
    OBVIOUS
  <2> HIDE DEF S
  <2>2. /\ Cardinality(S) \in Nat /\ Cardinality(tried) \in Nat /\ Cardinality(S) <= Cardinality(tried)
        /\ Cardinality(tried) <= Attempts
    BY <1>1, <2>1, TriedIsFinite DEF RetriesFit
  <2>3. Cardinality(S) <= MaxRetries + 1
    BY <1>2, <2>2, BackupConstants
  <2> QED BY <2>3 DEF S
<1> QED BY <1>1, <1>3 DEF BackupsKeepSchedule

LEMMA BackupsInitHolds == BackupsInit => BackupsInv
<1> SUFFICES ASSUME BackupsInit PROVE BackupsInv
    OBVIOUS
<1>1. BackupsTyped
  <2>1. files = {} /\ tried = {} /\ blind = FALSE
    BY Zenon DEF BackupsInit
  <2>2. files \in SUBSET [day : Nat, mod : 0 .. backupClock, blind : BOOLEAN]
    BY <2>1
  <2>3. blind \in BOOLEAN /\ tried \in SUBSET (0 .. backupClock)
    BY <2>1
  <2>4. /\ backupInterval \in Nat \ {0} /\ backupPc \in {"deciding", "sleeping", "copying"}
        /\ wakeAt \in Nat /\ backupAt \in Nat /\ backupClock \in Nat
        /\ lastBackupAt \in -1 .. backupClock
        /\ retryAttempts \in 0 .. MaxRetries + 1
    BY BackupConstants DEF BackupsInit, Never
  <2> QED BY <2>2, <2>3, <2>4, Zenon DEF BackupsTyped
<1>2. SpacingFits /\ BackupsAreSpaced
  <2>1. backupPc = "deciding" /\ ~pendingRetry /\ files = {}
    BY Zenon DEF BackupsInit
  <2> QED BY <2>1 DEF SpacingFits, BackupsAreSpaced
<1>3. RetriesFit
  BY BackupConstants, FS_EmptySet DEF BackupsInit, RetriesFit, Attempts
<1> QED BY <1>1, <1>2, <1>3 DEF BackupsInv

LEMMA DecideKeeps == BackupsInv /\ Decide => BackupsInv'
<1> SUFFICES ASSUME BackupsInv, Decide PROVE BackupsInv'
    OBVIOUS
<1>1. /\ BackupsTyped /\ RetriesFit /\ BackupsAreSpaced /\ backupPc = "deciding"
      /\ backupPc' = "sleeping"
      /\ UNCHANGED <<backupInterval, backupAt, lastBackupAt, retryAttempts, pendingRetry,
                     files, backupClock, tried>>
  BY DEF BackupsInv, Decide
<1>0. PICK listed \in BOOLEAN : /\ wakeAt' = Due(listed)
                               /\ blind' = IF pendingRetry THEN blind ELSE Due(listed) # Due(TRUE)
  BY DEF Decide
<1>2. PICK due : due = Due(listed)
  OBVIOUS
<1>3. /\ due \in Nat /\ wakeAt' = due /\ (~blind' => AllSpaced(due))
      /\ UsesDailySchedule => backupClock <= due /\ (~pendingRetry => Aligned(due))
  <2>1. /\ Due(listed) \in Nat
        /\ ~(IF pendingRetry THEN blind ELSE ~listed) => AllSpaced(Due(listed))
        /\ UsesDailySchedule => /\ backupClock <= Due(listed)
                                /\ ~pendingRetry => Aligned(Due(listed))
    BY <1>1, DueFits
  <2>2. ~pendingRetry => AllSpaced(Due(TRUE))
    BY <1>1, DueFits
  <2>3. ~blind' => AllSpaced(due)
    <3>1. CASE pendingRetry
      BY <1>0, <1>2, <2>1, <3>1, Zenon
    <3>2. CASE ~pendingRetry
      <4> SUFFICES ASSUME ~blind' PROVE AllSpaced(due)
        OBVIOUS
      <4>1. due = Due(TRUE)
        BY <1>0, <1>2, <3>2, Zenon
      <4> QED BY <2>2, <3>2, <4>1, Zenon
    <3> QED BY <3>1, <3>2, Zenon
  <2> QED BY <1>0, <1>2, <2>1, <2>3, Zenon
<1>4. BackupsTyped'
  <2>1. blind' \in BOOLEAN
    BY <1>0, <1>1, Zenon DEF BackupsTyped
  <2> QED BY <1>1, <1>3, <2>1 DEF BackupsTyped
<1>5. ~blind' => AllSpaced(due)'
  BY <1>1, <1>3 DEF AllSpaced, Spaced, UsesDailySchedule
<1>6. SpacingFits'
  BY <1>1, <1>3, <1>5 DEF SpacingFits, AllSpaced
<1>7. RetriesFit'
  <2>1. (pendingRetry <=> retryAttempts \in 1 .. MaxRetries)'
    BY <1>1, Zenon DEF RetriesFit
  <2>2. UsesDailySchedule' = UsesDailySchedule /\ Attempts' = Attempts
    BY <1>1 DEF UsesDailySchedule, Attempts
  <2>3. UsesDailySchedule => /\ Cardinality(tried) <= Attempts
                             /\ Cardinality(tried) = Attempts => tried = {} \/ \E a \in tried : Aligned(a)
    BY <1>1 DEF RetriesFit
  <2>4. pendingRetry' = pendingRetry
    BY <1>1
  <2> HIDE DEF Attempts
  <2>5. (UsesDailySchedule /\ ~pendingRetry)' => Aligned(wakeAt)'
    BY <1>3, <2>2, <2>4, Zenon DEF Aligned
  <2> QED BY <1>1, <1>3, <2>1, <2>2, <2>3, <2>5, Zenon DEF RetriesFit, Aligned
<1>8. BackupsAreSpaced'
  BY <1>1 DEF BackupsAreSpaced, UsesDailySchedule
<1> QED BY <1>4, <1>6, <1>7, <1>8 DEF BackupsInv

\* What a new attempt leaves of those before it.
LEMMA AttemptsCount ==
    ASSUME BackupsTyped, RetriesFit, UsesDailySchedule, backupPc = "sleeping",
           pendingRetry \/ Aligned(backupClock),
           NEW kept, kept = {t \in tried : t > backupClock - DaySlots},
           NEW most, most = IF retryAttempts > MaxRetries THEN MaxRetries + 1 ELSE retryAttempts + 1
    PROVE  /\ Cardinality(kept \cup {backupClock}) <= most
           /\ Cardinality(kept \cup {backupClock}) = most => \E a \in kept \cup {backupClock} : Aligned(a)
<1> DEFINE c == backupClock
           k == Attempts
<1>1. /\ kept \in SUBSET tried /\ c \in Nat /\ \A t \in tried : t \in Nat /\ t <= c
      /\ retryAttempts \in 0 .. MaxRetries + 1 /\ MaxRetries \in Nat
  BY BackupConstants DEF BackupsTyped
<1>2. /\ IsFiniteSet(tried) /\ Cardinality(tried) \in Nat
      /\ IsFiniteSet(kept) /\ Cardinality(kept) \in Nat /\ Cardinality(kept) <= Cardinality(tried)
      /\ Cardinality(kept) = Cardinality(tried) => kept = tried
  BY <1>1, TriedIsFinite
<1>3. Cardinality(kept \cup {c}) = IF c \in kept THEN Cardinality(kept) ELSE Cardinality(kept) + 1
  BY <1>2, FS_AddElement
<1>4. /\ Cardinality(tried) <= k
      /\ Cardinality(tried) = k => tried = {} \/ \E a \in tried : Aligned(a)
  BY Zenon DEF RetriesFit
<1>5. k = IF retryAttempts > MaxRetries THEN MaxRetries + 1 ELSE retryAttempts
  BY <1>1 DEF Attempts
<1> HIDE DEF k, c
<1>6. Cardinality(tried) = 0 => tried = {}
  BY <1>2, FS_EmptySet, Zenon
<1>7. Cardinality({}) = 0
  BY FS_EmptySet
<1>8. CASE retryAttempts \in 1 .. MaxRetries
  <2>1. k = retryAttempts /\ most = retryAttempts + 1
    BY <1>1, <1>5, <1>8
  <2>2. Cardinality(kept \cup {c}) <= most
    BY <1>1, <1>2, <1>3, <1>4, <2>1
  <2>3. ASSUME Cardinality(kept \cup {c}) = most PROVE \E a \in kept \cup {c} : Aligned(a)
    <3>1. Cardinality(kept \cup {c}) <= Cardinality(kept) + 1
      BY <1>2, <1>3
    <3>2. Cardinality(tried) = k /\ Cardinality(kept) = Cardinality(tried) /\ Cardinality(tried) # 0
      BY <1>1, <1>2, <1>4, <1>8, <2>1, <2>3, <3>1
    <3>3. kept = tried /\ tried # {}
      BY <1>2, <1>7, <3>2, Zenon
    <3> QED BY <1>4, <3>2, <3>3
  <2> QED BY <2>2, <2>3 DEF c
<1>9. CASE ~(retryAttempts \in 1 .. MaxRetries)
  <2>1. Aligned(c)
    BY <1>9, Zenon DEF RetriesFit, c
  <2>2. CASE retryAttempts = 0
    <3>1. k = 0 /\ most = 1
      BY <1>1, <1>5, <2>2
    <3>2. Cardinality(kept) = 0
      BY <1>2, <1>4, <3>1
    <3> QED BY <1>3, <2>1, <3>1, <3>2 DEF c
  <2>3. CASE retryAttempts # 0
    <3>1. k = MaxRetries + 1 /\ most = MaxRetries + 1
      BY <1>1, <1>5, <1>9, <2>3
    <3>2. CASE c \in kept
      <4>1. Cardinality(kept \cup {c}) <= most
        BY <1>2, <1>3, <1>4, <3>1, <3>2, <1>1
      <4> QED BY <2>1, <4>1 DEF c
    <3>3. CASE Cardinality(tried) <= MaxRetries
      <4>1. Cardinality(kept \cup {c}) <= most
        BY <1>2, <1>3, <3>1, <3>3, <1>1
      <4> QED BY <2>1, <4>1 DEF c
    <3>4. CASE c \notin kept /\ ~(Cardinality(tried) <= MaxRetries)
      <4>0. Cardinality(tried) = k /\ Cardinality(tried) # 0
        BY <1>1, <1>2, <1>4, <3>1, <3>4
      <4>1. Cardinality(tried) = k /\ tried # {}
        BY <1>7, <4>0, Zenon
      <4>2. PICK a \in tried : Aligned(a)
        BY <1>4, <4>1
      <4>3. c \notin tried
        BY <1>1, <3>4, BackupConstants DEF c
      <4>4. a < c /\ a \in Nat
        BY <1>1, <4>2, <4>3
      <4>5. a <= c - DaySlots
        BY <1>1, <2>1, <4>2, <4>4, AlignedApart
      <4>6. a \notin kept
        BY <1>1, <4>4, <4>5, BackupConstants DEF c
      <4>7. Cardinality(kept) # Cardinality(tried)
        BY <1>2, <4>2, <4>6
      <4>8. Cardinality(kept \cup {c}) <= most
        BY <1>1, <1>2, <1>3, <3>1, <4>1, <4>7
      <4> QED BY <2>1, <4>8 DEF c
    <3> QED BY <3>2, <3>3, <3>4
  <2> QED BY <2>2, <2>3
<1> QED BY <1>8, <1>9

LEMMA BeginCopyKeeps == BackupsInv /\ BeginCopy => BackupsInv'
<1> SUFFICES ASSUME BackupsInv, BeginCopy PROVE BackupsInv'
    OBVIOUS
<1>1. /\ BackupsTyped /\ SpacingFits /\ RetriesFit /\ BackupsAreSpaced /\ backupPc = "sleeping"
      /\ backupClock >= wakeAt /\ backupAt' = backupClock /\ backupPc' = "copying" /\ wakeAt' = 0
      /\ tried' = {t \in tried : t > backupClock - DaySlots} \cup {backupClock}
      /\ UNCHANGED <<backupInterval, lastBackupAt, retryAttempts, pendingRetry, files, backupClock, blind>>
      /\ wakeAt \in Nat /\ backupClock \in Nat /\ backupInterval \in Nat
  BY DEF BackupsInv, BeginCopy, BackupsTyped
<1>2. BackupsTyped'
  <2>1. tried' \in SUBSET (0 .. backupClock)
    <3>1. tried \in SUBSET (0 .. backupClock) /\ backupClock \in 0 .. backupClock
      BY <1>1 DEF BackupsTyped
    <3>2. tried' \subseteq tried \cup {backupClock}
      BY <1>1
    <3> QED BY <3>1, <3>2
  <2>2. /\ backupInterval \in Nat \ {0} /\ lastBackupAt \in -1 .. backupClock
        /\ retryAttempts \in 0 .. MaxRetries + 1 /\ files \in SUBSET [day : Nat, mod : 0 .. backupClock, blind : BOOLEAN]
        /\ blind \in BOOLEAN
    BY <1>1 DEF BackupsTyped
  <2> QED BY <1>1, <2>1, <2>2 DEF BackupsTyped
<1>3. (~blind => AllSpaced(wakeAt)) /\ \A f \in files : f.mod \in Int
  BY <1>1 DEF SpacingFits, BackupsTyped
<1>4. ~blind => AllSpaced(backupClock)
  BY <1>1, <1>3, SpacedLonger DEF AllSpaced
<1>5. ~blind => AllSpaced(backupAt)'
  BY <1>1, <1>4 DEF AllSpaced, Spaced, UsesDailySchedule
<1>6. SpacingFits'
  BY <1>1, <1>5 DEF SpacingFits
<1>7. UsesDailySchedule => pendingRetry \/ Aligned(backupClock)
  <2>1. UsesDailySchedule => backupClock <= wakeAt /\ (~pendingRetry => Aligned(wakeAt))
    BY <1>1 DEF RetriesFit
  <2>2. UsesDailySchedule => backupClock = wakeAt
    BY <1>1, <2>1
  <2> QED BY <2>1, <2>2, Zenon
<1> DEFINE most == IF retryAttempts > MaxRetries THEN MaxRetries + 1 ELSE retryAttempts + 1
<1>8. UsesDailySchedule =>
        /\ Cardinality(tried') <= most
        /\ Cardinality(tried') = most => \E a \in tried' : Aligned(a)
  BY <1>1, <1>7, AttemptsCount
<1>9. Attempts' = most /\ UsesDailySchedule' = UsesDailySchedule
  BY <1>1 DEF Attempts, UsesDailySchedule
<1> HIDE DEF most
<1>10. RetriesFit'
  <2>1. (pendingRetry <=> retryAttempts \in 1 .. MaxRetries)'
    BY <1>1, Zenon DEF RetriesFit
  <2>2. backupPc' # "sleeping"
    BY <1>1
  <2>3. \A a : Aligned(a)' = Aligned(a)
    BY DEF Aligned
  <2> HIDE DEF Attempts
  <2> QED BY <1>8, <1>9, <2>1, <2>2, <2>3, Zenon DEF RetriesFit
<1>11. BackupsAreSpaced'
  BY <1>1 DEF BackupsAreSpaced, UsesDailySchedule
<1> QED BY <1>2, <1>6, <1>10, <1>11 DEF BackupsInv

LEMMA EndCopyKeeps == BackupsInv /\ EndCopy => BackupsInv'
<1> SUFFICES ASSUME BackupsInv, EndCopy PROVE BackupsInv'
    OBVIOUS
<1> DEFINE new == [day |-> Day(backupAt), mod |-> backupClock, blind |-> blind]
<1>1. /\ BackupsTyped /\ SpacingFits /\ BackupsAreSpaced /\ backupPc = "copying"
      /\ lastBackupAt' = backupAt /\ retryAttempts' = 0 /\ pendingRetry' = FALSE
      /\ files' \subseteq files \cup {new}
      /\ tried' = {} /\ backupPc' = "deciding" /\ backupAt' = 0
      /\ UNCHANGED <<backupInterval, wakeAt, backupClock>>
      /\ backupAt \in Nat /\ backupClock \in Nat /\ backupInterval \in Nat
      /\ backupAt <= backupClock /\ (~blind => AllSpaced(backupAt))
      /\ \A f \in files : f.mod \in 0 .. backupClock
      /\ blind \in BOOLEAN /\ blind' = FALSE
  BY DEF BackupsInv, EndCopy, BackupsTyped, SpacingFits, Kept
<1>2. Day(backupAt) \in Nat
  BY <1>1, BackupConstants DEF Day
<1>3. /\ new \in [day : Nat, mod : 0 .. backupClock, blind : BOOLEAN]
      /\ new.mod = backupClock /\ new.blind = blind
  <2>1. backupClock \in 0 .. backupClock
    BY <1>1
  <2> QED BY ONLY <1>1, <1>2, <2>1
<1> HIDE DEF new
<1>4. BackupsTyped'
  <2>1. files' \in SUBSET [day : Nat, mod : 0 .. backupClock, blind : BOOLEAN]
    BY <1>1, <1>3 DEF BackupsTyped
  <2>2. blind' \in BOOLEAN /\ tried' \in SUBSET (0 .. backupClock')
    BY <1>1
  <2>3. /\ backupInterval \in Nat \ {0} /\ backupPc' \in {"deciding", "sleeping", "copying"}
        /\ wakeAt \in Nat /\ backupAt' \in Nat /\ lastBackupAt' \in -1 .. backupClock
        /\ retryAttempts' \in 0 .. MaxRetries + 1
    BY <1>1, BackupConstants DEF BackupsTyped
  <2>4. backupInterval' = backupInterval /\ wakeAt' = wakeAt /\ backupClock' = backupClock
    BY <1>1
  <2> QED BY <1>1, <2>1, <2>2, <2>3, <2>4, Zenon DEF BackupsTyped
<1>5. SpacingFits'
  BY <1>1 DEF SpacingFits
<1>6. RetriesFit'
  <2>1. Attempts' = 0
    BY <1>1, BackupConstants DEF Attempts
  <2>2. Cardinality({}) = 0
    BY FS_EmptySet
  <2>3. ~pendingRetry' /\ ~(retryAttempts' \in 1 .. MaxRetries)
    BY <1>1
  <2> HIDE DEF Attempts
  <2> QED BY <1>1, <2>1, <2>2, <2>3 DEF RetriesFit
<1>7. ASSUME NEW f \in files, NEW g \in files, f.mod < g.mod, ~g.blind PROVE Spaced(f.mod, g.mod)
  BY <1>1, <1>7 DEF BackupsAreSpaced, Spaced
<1>8. ASSUME NEW f \in files, ~blind PROVE Spaced(f.mod, backupClock)
  BY <1>1, <1>8, SpacedLonger DEF AllSpaced
<1>9. ASSUME NEW f \in files', NEW g \in files', f.mod < g.mod, ~g.blind PROVE Spaced(f.mod, g.mod)
  BY <1>1, <1>3, <1>7, <1>8, <1>9
<1>10. BackupsAreSpaced'
  BY <1>1, <1>9 DEF BackupsAreSpaced, Spaced, UsesDailySchedule
<1> QED BY <1>4, <1>5, <1>6, <1>10 DEF BackupsInv

LEMMA FailCopyKeeps == BackupsInv /\ FailCopy => BackupsInv'
<1> SUFFICES ASSUME BackupsInv, FailCopy PROVE BackupsInv'
    OBVIOUS
<1>1. /\ BackupsTyped /\ SpacingFits /\ RetriesFit /\ BackupsAreSpaced /\ backupPc = "copying"
      /\ retryAttempts' = Min({retryAttempts + 1, MaxRetries + 1})
      /\ files' \subseteq files /\ backupPc' = "deciding" /\ backupAt' = 0
      /\ UNCHANGED <<backupInterval, wakeAt, lastBackupAt, backupClock, tried, blind>>
      /\ backupAt \in Nat /\ backupClock \in Nat /\ backupInterval \in Nat
      /\ backupAt <= backupClock /\ (~blind => AllSpaced(backupAt))
      /\ \A f \in files : f.mod \in Int
      /\ retryAttempts \in 0 .. MaxRetries + 1
  BY DEF BackupsInv, FailCopy, BackupsTyped, SpacingFits, Kept
<1>2. /\ retryAttempts' \in 0 .. MaxRetries + 1
      /\ retryAttempts' = IF retryAttempts > MaxRetries THEN MaxRetries + 1 ELSE retryAttempts + 1
  <2> DEFINE S == {retryAttempts + 1, MaxRetries + 1}
             m == IF retryAttempts > MaxRetries THEN MaxRetries + 1 ELSE retryAttempts + 1
  <2>1. m \in S /\ \A x \in S : m <= x
    BY <1>1, BackupConstants
  <2>2. \A x, y \in S : x <= y /\ y <= x => x = y
    BY <1>1, BackupConstants
  <2>3. Min(S) = m
    <3> HIDE DEF S, m
    <3>1. Min(S) \in S /\ \A y \in S : Min(S) <= y
      BY <2>1 DEF Min
    <3> QED BY <2>1, <2>2, <3>1
  <2> QED BY <1>1, <2>3, BackupConstants
<1>3. pendingRetry' <=> retryAttempts' \in 1 .. MaxRetries
  <2>1. retryAttempts + 1 <= MaxRetries <=> retryAttempts' \in 1 .. MaxRetries
    BY <1>1, <1>2, BackupConstants
  <2> QED BY <2>1, Zenon DEF FailCopy
<1>4. BackupsTyped'
  BY <1>1, <1>2 DEF BackupsTyped
<1>5. ~blind => AllSpaced(backupClock)
  BY <1>1, SpacedLonger DEF AllSpaced
<1>6. SpacingFits'
  <2>1. ~blind => AllSpaced(backupClock)'
    BY <1>1, <1>5 DEF AllSpaced, Spaced, UsesDailySchedule
  <2> QED BY <1>1, <2>1 DEF SpacingFits
<1>7. RetriesFit'
  <2>0. UsesDailySchedule' = UsesDailySchedule
    BY <1>1 DEF UsesDailySchedule
  <2>1. Attempts' = Attempts /\ UsesDailySchedule' = UsesDailySchedule
    <3>1. backupPc = "copying" /\ backupPc' = "deciding"
      BY <1>1
    <3>2. Attempts = IF retryAttempts > MaxRetries THEN MaxRetries + 1 ELSE retryAttempts + 1
      BY <3>1 DEF Attempts
    <3>3. Attempts' = IF retryAttempts' > MaxRetries THEN MaxRetries + 1 ELSE retryAttempts'
      BY <1>2, <3>1, BackupConstants DEF Attempts
    <3>4. MaxRetries \in Nat
      BY BackupConstants
    <3> HIDE DEF Attempts
    <3> QED BY <1>1, <1>2, <2>0, <3>2, <3>3, <3>4
  <2>2. backupPc' # "sleeping" /\ tried' = tried
    BY <1>1
  <2>3. \A a : Aligned(a)' = Aligned(a)
    BY DEF Aligned
  <2>4. UsesDailySchedule => /\ Cardinality(tried) <= Attempts
                             /\ Cardinality(tried) = Attempts => tried = {} \/ \E a \in tried : Aligned(a)
    BY <1>1 DEF RetriesFit
  <2> HIDE DEF Attempts
  <2> QED BY <1>3, <2>1, <2>2, <2>3, <2>4, Zenon DEF RetriesFit
<1>8. BackupsAreSpaced'
  BY <1>1 DEF BackupsAreSpaced, UsesDailySchedule
<1> QED BY <1>4, <1>6, <1>7, <1>8 DEF BackupsInv

LEMMA BackupTickKeeps == BackupsInv /\ BackupTick => BackupsInv'
<1> SUFFICES ASSUME BackupsInv, BackupTick PROVE BackupsInv'
    OBVIOUS
<1>1. /\ BackupsTyped /\ SpacingFits /\ RetriesFit /\ BackupsAreSpaced
      /\ backupPc \in {"sleeping", "copying"} /\ (backupPc = "sleeping" => backupClock < wakeAt)
      /\ backupClock' = backupClock + 1
      /\ UNCHANGED <<backupInterval, backupPc, wakeAt, backupAt, lastBackupAt, retryAttempts,
                     pendingRetry, files, tried, blind>>
      /\ backupClock \in Nat /\ wakeAt \in Nat
  BY DEF BackupsInv, BackupTick, BackupsTyped
<1>2. BackupsTyped'
  <2>1. 0 .. backupClock \subseteq 0 .. backupClock' /\ -1 .. backupClock \subseteq -1 .. backupClock'
    BY <1>1
  <2>2. files \in SUBSET [day : Nat, mod : 0 .. backupClock', blind : BOOLEAN]
    BY <1>1, <2>1 DEF BackupsTyped
  <2>3. tried \in SUBSET (0 .. backupClock') /\ lastBackupAt \in -1 .. backupClock'
    BY <1>1, <2>1 DEF BackupsTyped
  <2> QED BY <1>1, <2>2, <2>3 DEF BackupsTyped
<1>3. SpacingFits'
  <2>1. backupAt \in Nat
    BY <1>1 DEF BackupsTyped
  <2>3. backupPc = "sleeping" /\ ~blind => AllSpaced(wakeAt)
    BY <1>1, Zenon DEF SpacingFits
  <2>4. backupPc = "copying" => backupAt <= backupClock' /\ (~blind => AllSpaced(backupAt))
    BY <1>1, <2>1 DEF SpacingFits
  <2>5. /\ backupPc' # "deciding" /\ backupPc' = backupPc /\ wakeAt' = wakeAt /\ backupAt' = backupAt
        /\ blind' = blind
    BY <1>1
  <2>6. AllSpaced(wakeAt)' = AllSpaced(wakeAt) /\ AllSpaced(backupAt)' = AllSpaced(backupAt)
    BY <1>1 DEF AllSpaced, Spaced, UsesDailySchedule
  <2>7. backupPc' = "copying" => backupAt' <= backupClock'
    BY <2>4, <2>5
  <2> QED BY <2>3, <2>4, <2>5, <2>6, <2>7, Zenon DEF SpacingFits
<1>4. RetriesFit'
  <2>1. (pendingRetry <=> retryAttempts \in 1 .. MaxRetries)'
    BY <1>1, Zenon DEF RetriesFit
  <2>2. Attempts' = Attempts /\ UsesDailySchedule' = UsesDailySchedule /\ pendingRetry' = pendingRetry
    BY <1>1 DEF Attempts, UsesDailySchedule
  <2>3. \A a : Aligned(a)' = Aligned(a)
    BY DEF Aligned
  <2>4. backupPc' = "sleeping" => backupClock' <= wakeAt'
    BY <1>1
  <2>5. UsesDailySchedule => /\ Cardinality(tried) <= Attempts
                             /\ Cardinality(tried) = Attempts => tried = {} \/ \E a \in tried : Aligned(a)
                             /\ backupPc = "sleeping" /\ ~pendingRetry => Aligned(wakeAt)
    BY <1>1, Zenon DEF RetriesFit
  <2> HIDE DEF Attempts
  <2> QED BY <1>1, <2>1, <2>2, <2>3, <2>4, <2>5, Zenon DEF RetriesFit
<1>5. BackupsAreSpaced'
  BY <1>1 DEF BackupsAreSpaced, UsesDailySchedule
<1> QED BY <1>2, <1>3, <1>4, <1>5 DEF BackupsInv

LEMMA BackupRestartKeeps == BackupsInv /\ BackupRestart => BackupsInv'
<1> SUFFICES ASSUME BackupsInv, BackupRestart PROVE BackupsInv'
    OBVIOUS
<1>1. /\ BackupsTyped /\ BackupsAreSpaced /\ backupPc' = "deciding" /\ lastBackupAt' = -1
      /\ retryAttempts' = 0 /\ pendingRetry' = FALSE /\ tried' = {}
      /\ wakeAt' = 0 /\ backupAt' = 0 /\ blind' = FALSE
      /\ UNCHANGED <<backupInterval, files, backupClock>>
  BY DEF BackupsInv, BackupRestart, Never
<1>2. BackupsTyped'
  <2>1. blind' \in BOOLEAN /\ tried' \in SUBSET (0 .. backupClock')
    BY <1>1
  <2>2. /\ backupInterval \in Nat \ {0} /\ backupPc' \in {"deciding", "sleeping", "copying"}
        /\ wakeAt' \in Nat /\ backupAt' \in Nat /\ backupClock \in Nat
        /\ lastBackupAt' \in -1 .. backupClock /\ retryAttempts' \in 0 .. MaxRetries + 1
    BY <1>1, BackupConstants DEF BackupsTyped
  <2>3. files \in SUBSET [day : Nat, mod : 0 .. backupClock, blind : BOOLEAN]
    BY <1>1, Zenon DEF BackupsTyped
  <2>4. /\ backupInterval' = backupInterval /\ files' = files /\ backupClock' = backupClock
    BY <1>1
  <2> QED BY <2>1, <2>2, <2>3, <2>4, Zenon DEF BackupsTyped
<1>3. SpacingFits'
  BY <1>1, Zenon DEF SpacingFits
<1>4. RetriesFit'
  <2>1. Attempts' = 0
    BY <1>1, BackupConstants DEF Attempts
  <2>2. Cardinality({}) = 0
    BY FS_EmptySet
  <2>3. ~pendingRetry' /\ ~(retryAttempts' \in 1 .. MaxRetries)
    BY <1>1
  <2> HIDE DEF Attempts
  <2> QED BY <1>1, <2>1, <2>2, <2>3 DEF RetriesFit
<1>5. BackupsAreSpaced'
  BY <1>1 DEF BackupsAreSpaced, UsesDailySchedule
<1> QED BY <1>2, <1>3, <1>4, <1>5 DEF BackupsInv

LEMMA BackupsInvNext == BackupsInv /\ [BackupsNext]_backupVars => BackupsInv'
<1> SUFFICES ASSUME BackupsInv, [BackupsNext]_backupVars PROVE BackupsInv'
    OBVIOUS
<1>1. CASE UNCHANGED backupVars
  BY <1>1, Zenon DEF backupVars, BackupsInv, BackupsTyped, SpacingFits, RetriesFit, BackupsAreSpaced,
              AllSpaced, Spaced, Attempts, UsesDailySchedule, Aligned
<1> QED BY <1>1, DecideKeeps, BeginCopyKeeps, EndCopyKeeps, FailCopyKeeps, BackupTickKeeps,
           BackupRestartKeeps DEF BackupsNext

(* Backups keep their distance, but for one whose time came out differently   *)
(* because the files could not be listed, and retries always their number,    *)
(* whichever copies and removals fail and whenever the process starts again   *)
(* (app/backup_runner.go).                                                    *)
THEOREM BackupsStayOnSchedule == BackupsSpec => []BackupsKeepSchedule
<1> QED BY BackupsInitHolds, BackupsInvNext, BackupsInvKeepsSchedule, PTL DEF BackupsSpec

-----------------------------------------------------------------------------
(* The header snapshots. What waits for an account is the merging of all that *)
(* came since the last flush; who has to flush it is known at every moment;   *)
(* and what a worker holds is compared once more with the task it replaces.   *)

Partials(Q, R) == UNION {[D -> R] : D \in SUBSET Q}

SnapshotRows == [at : Nat, from : Nat]

HeaderRows == Partials(QuotaLimits, SnapshotRows)

\* The time of a snapshot is that of its newest row.
Led(s) == /\ \A l \in DOMAIN s.rows : s.rows[l].at <= s.at /\ s.rows[l].from # 0
          /\ HasRows(s) => \E l \in DOMAIN s.rows : s.rows[l].at = s.at

Snapshots == {s \in [auth : HeaderAuths, at : Nat, rows : HeaderRows] : Led(s)}

QuotaTasks == [status : {"none", "active", "completed", "failed"}, at : Nat, rows : HeaderRows]

SnapshotMaps == Partials(HeaderAuths, Snapshots)

HeaderWorkers == [pc : {"select", "lookup", "jobs", "done"}, batch : SnapshotMaps, last : BOOLEAN]

HeadersTyped ==
    /\ headerClock \in Nat /\ snapshotCount \in Nat
    /\ headerWake \in BOOLEAN /\ headerTimer \in BOOLEAN /\ headerClosing \in BOOLEAN
    /\ headerSender \in BOOLEAN
    /\ unflushed \in SUBSET Snapshots /\ pendingHeaders \in SnapshotMaps
    /\ headerWorker \in HeaderWorkers /\ inHand \in SnapshotMaps
    /\ quotaCache \in [HeaderAuths -> QuotaTasks]

\* All have rows to show.
Full(S) == \A s \in S : HasRows(s)

\* The newest of a set of snapshots, for each limit on its own.
Newest(p, S) ==
    /\ \E s \in S : s.at = p.at
    /\ \A s \in S : s.at <= p.at
    /\ \A l \in DOMAIN p.rows : \E s \in S : l \in DOMAIN s.rows /\ p.rows[l] = s.rows[l]
    /\ Full(S) =>
        /\ \A l : l \in DOMAIN p.rows <=> \E s \in S : l \in DOMAIN s.rows
        /\ \A l \in DOMAIN p.rows : \A s \in S : l \in DOMAIN s.rows =>
              \/ s.rows[l].at < p.rows[l].at
              \/ s.rows[l].at = p.rows[l].at /\ s.rows[l].from <= p.rows[l].from

Arrived(a) == {s \in unflushed : s.auth = a}

PendingFits ==
    /\ \A s \in unflushed : \A l \in DOMAIN s.rows : s.rows[l].from <= snapshotCount
    /\ \A a \in HeaderAuths \ evicted :
        /\ a \in DOMAIN pendingHeaders <=> Arrived(a) # {}
        /\ a \in DOMAIN pendingHeaders => Newest(pendingHeaders[a], Arrived(a))

\* Whoever ends has been told to, and has flushed after that.
FlushFits ==
    /\ DOMAIN pendingHeaders # {} => headerTimer \/ headerWake \/ headerSender \/ headerClosing
    /\ headerWorker.last => headerClosing /\ DOMAIN pendingHeaders = {}
    /\ headerWorker.pc = "done" => headerWorker.last

\* A refresh under way has no rows yet.
ActiveHasNoRows == \A a \in HeaderAuths : IsActive(quotaCache[a]) => DOMAIN quotaCache[a].rows = {}

HeadersInv == HeadersTyped /\ PendingFits /\ FlushFits /\ ActiveHasNoRows

-----------------------------------------------------------------------------
\* Partial functions.

LEMMA PartialHas ==
    ASSUME NEW Q, NEW R, NEW f \in Partials(Q, R)
    PROVE  DOMAIN f \in SUBSET Q /\ \A x \in DOMAIN f : f[x] \in R
BY DEF Partials

LEMMA PartialMade ==
    ASSUME NEW Q, NEW R, NEW D \in SUBSET Q, NEW f \in [D -> R]
    PROVE  f \in Partials(Q, R)
BY DEF Partials

LEMMA NothingIsPartial == ASSUME NEW Q, NEW R PROVE Nothing \in Partials(Q, R) /\ DOMAIN Nothing = {}
<1>1. Nothing \in [{} -> R] /\ DOMAIN Nothing = {}
  BY DEF Nothing
<1> QED BY <1>1, PartialMade

LEMMA OverlaidIsPartial ==
    ASSUME NEW Q, NEW R, NEW f \in Partials(Q, R), NEW g \in Partials(Q, R)
    PROVE  Overlaid(f, g) \in Partials(Q, R)
<1> DEFINE D == DOMAIN f \cup DOMAIN g
<1>1. D \in SUBSET Q /\ \A x \in D : (IF x \in DOMAIN g THEN g[x] ELSE f[x]) \in R
  BY PartialHas
<1>2. Overlaid(f, g) = [x \in D |-> IF x \in DOMAIN g THEN g[x] ELSE f[x]]
  BY DEF Overlaid
<1> HIDE DEF D
<1>3. Overlaid(f, g) \in [D -> R]
  BY <1>1, <1>2
<1> QED BY <1>1, <1>3, PartialMade

LEMMA RestrictedIsPartial ==
    ASSUME NEW Q, NEW R, NEW f \in Partials(Q, R), NEW D \in SUBSET DOMAIN f
    PROVE  [x \in D |-> f[x]] \in Partials(Q, R)
<1>1. D \in SUBSET Q /\ \A x \in D : f[x] \in R
  BY PartialHas
<1>2. [x \in D |-> f[x]] \in [D -> R]
  BY <1>1
<1> QED BY <1>1, <1>2, PartialMade

LEMMA WithoutIsPartial ==
    ASSUME NEW Q, NEW R, NEW f \in Partials(Q, R), NEW k
    PROVE  /\ Without(f, k) \in Partials(Q, R) /\ DOMAIN Without(f, k) = DOMAIN f \ {k}
           /\ \A x \in DOMAIN f \ {k} : Without(f, k)[x] = f[x]
BY RestrictedIsPartial DEF Without

LEMMA SingleIsPartial ==
    ASSUME NEW Q, NEW R, NEW a \in Q, NEW v \in R
    PROVE  /\ [b \in {a} |-> v] \in Partials(Q, R) /\ DOMAIN [b \in {a} |-> v] = {a}
           /\ [b \in {a} |-> v][a] = v
<1>1. [b \in {a} |-> v] \in [{a} -> R] /\ {a} \in SUBSET Q
  OBVIOUS
<1> QED BY <1>1, PartialMade

-----------------------------------------------------------------------------
\* Merging.

LEMMA SnapshotsHaveRows ==
    ASSUME NEW s \in Snapshots
    PROVE  /\ s.auth \in HeaderAuths /\ s.at \in Nat /\ s.rows \in HeaderRows
           /\ \A l \in DOMAIN s.rows :
                l \in QuotaLimits /\ s.rows[l].at \in Nat /\ s.rows[l].from \in Nat
<1>1. s.auth \in HeaderAuths /\ s.at \in Nat /\ s.rows \in HeaderRows
  BY DEF Snapshots
<1>2. s.rows \in Partials(QuotaLimits, SnapshotRows)
  BY <1>1 DEF HeaderRows
<1>3. ASSUME NEW l \in DOMAIN s.rows
      PROVE  l \in QuotaLimits /\ s.rows[l].at \in Nat /\ s.rows[l].from \in Nat
  <2>1. DOMAIN s.rows \in SUBSET QuotaLimits /\ \A x \in DOMAIN s.rows : s.rows[x] \in SnapshotRows
    BY <1>2, PartialHas
  <2> QED BY <2>1 DEF SnapshotRows
<1> QED BY <1>1, <1>3

LEMMA NewestOfOne ==
    ASSUME NEW s \in Snapshots PROVE Newest(s, {s})
<1>1. s.at \in Nat /\ \A l \in DOMAIN s.rows : s.rows[l].at \in Nat /\ s.rows[l].from \in Nat
  BY SnapshotsHaveRows
<1> QED BY <1>1 DEF Newest

LEMMA MergedIsSnapshot ==
    ASSUME NEW p \in Snapshots, NEW s \in Snapshots, HasRows(p), HasRows(s)
    PROVE  /\ MergedPending(p, s) \in Snapshots
           /\ MergedPending(p, s).at \in {p.at, s.at}
           /\ MergedPending(p, s).at >= p.at /\ MergedPending(p, s).at >= s.at
           /\ DOMAIN MergedPending(p, s).rows = DOMAIN p.rows \cup DOMAIN s.rows
           /\ \A l \in DOMAIN p.rows \cup DOMAIN s.rows :
                MergedPending(p, s).rows[l] =
                    IF l \in DOMAIN s.rows /\ (l \in DOMAIN p.rows => s.rows[l].at >= p.rows[l].at)
                    THEN s.rows[l] ELSE p.rows[l]
<1> DEFINE D == {k \in DOMAIN s.rows : k \in DOMAIN p.rows => s.rows[k].at >= p.rows[k].at}
           newer == [l \in D |-> s.rows[l]]
           rows == Overlaid(p.rows, newer)
<1>1. p.at \in Nat /\ s.at \in Nat /\ p.rows \in HeaderRows /\ s.rows \in HeaderRows /\ p.auth \in HeaderAuths
  BY DEF Snapshots
<1>2. newer \in HeaderRows /\ DOMAIN newer = D /\ \A l \in D : newer[l] = s.rows[l]
  <2>1. D \in SUBSET DOMAIN s.rows
    OBVIOUS
  <2> QED BY <1>1, <2>1, RestrictedIsPartial DEF HeaderRows
<1>3. /\ rows \in HeaderRows /\ DOMAIN rows = DOMAIN p.rows \cup D
      /\ \A l \in DOMAIN p.rows \cup D : rows[l] = IF l \in D THEN s.rows[l] ELSE p.rows[l]
  <2>1. PICK n \in HeaderRows : n = newer
    BY <1>2
  <2>2. /\ Overlaid(p.rows, n) \in HeaderRows
        /\ DOMAIN Overlaid(p.rows, n) = DOMAIN p.rows \cup DOMAIN n
        /\ \A x \in DOMAIN n : Overlaid(p.rows, n)[x] = n[x]
        /\ \A x \in DOMAIN p.rows \ DOMAIN n : Overlaid(p.rows, n)[x] = p.rows[x]
    <3> HIDE DEF rows, newer, D
    <3>1. p.rows \in Partials(QuotaLimits, SnapshotRows) /\ n \in Partials(QuotaLimits, SnapshotRows)
      BY <1>1 DEF HeaderRows
    <3>2. Overlaid(p.rows, n) \in HeaderRows
      BY <3>1, OverlaidIsPartial DEF HeaderRows
    <3> QED BY <3>2 DEF Overlaid
  <2>3. rows = Overlaid(p.rows, n) /\ DOMAIN n = D /\ \A l \in D : n[l] = s.rows[l]
    BY <1>2, <2>1
  <2> HIDE DEF rows, newer, D
  <2> QED BY <2>2, <2>3
<1>4. MergedPending(p, s) = [auth |-> p.auth, at |-> Max({p.at, s.at}), rows |-> rows]
  BY DEF MergedPending, NewestRows
<1> HIDE DEF rows, newer
<1>5. MergedPending(p, s).at \in {p.at, s.at} /\ MergedPending(p, s).at >= p.at
      /\ MergedPending(p, s).at >= s.at
  BY <1>1, <1>4, LaterOfTwo
<1>6. MergedPending(p, s) \in Snapshots
  <2>1. Max({p.at, s.at}) \in Nat
    BY <1>1, LaterOfTwo
  <2>2. PICK m : m = MergedPending(p, s)
    OBVIOUS
  <2>3. m \in [auth : HeaderAuths, at : Nat, rows : HeaderRows] /\ m.rows = rows
    BY <1>1, <1>3, <1>4, <2>1, <2>2
  <2>4. /\ \A l \in DOMAIN p.rows : p.rows[l].at \in Nat /\ p.rows[l].at <= p.at /\ p.rows[l].from # 0
        /\ \A l \in DOMAIN s.rows : s.rows[l].at \in Nat /\ s.rows[l].at <= s.at /\ s.rows[l].from # 0
        /\ \E l \in DOMAIN p.rows : p.rows[l].at = p.at
        /\ \E l \in DOMAIN s.rows : s.rows[l].at = s.at
    BY SnapshotsHaveRows DEF Snapshots, Led
  <2>5. m.at \in {p.at, s.at} /\ m.at >= p.at /\ m.at >= s.at
    BY <1>5, <2>2
  <2>6. ASSUME NEW l \in DOMAIN rows PROVE rows[l].at <= m.at /\ rows[l].from # 0
    BY <1>1, <1>3, <2>4, <2>5, <2>6
  <2>7. \E l \in DOMAIN rows : rows[l].at = m.at
    <3>1. CASE m.at = s.at
      <4>1. PICK l \in DOMAIN s.rows : s.rows[l].at = s.at
        BY <2>4
      <4>2. l \in D
        BY <1>1, <2>4, <2>5, <3>1, <4>1
      <4> QED BY <1>3, <3>1, <4>1, <4>2
    <3>2. CASE m.at = p.at
      <4>1. PICK l \in DOMAIN p.rows : p.rows[l].at = p.at
        BY <2>4
      <4>2. rows[l] = IF l \in D THEN s.rows[l] ELSE p.rows[l]
        BY <1>3, <4>1
      <4>3. l \in D => s.rows[l].at = m.at
        BY <1>1, <2>4, <2>5, <3>2, <4>1
      <4> QED BY <1>3, <3>2, <4>1, <4>2, <4>3
    <3> QED BY <2>5, <3>1, <3>2
  <2>8. Led(m)
    BY <2>3, <2>6, <2>7 DEF Led
  <2> QED BY <2>2, <2>3, <2>8 DEF Snapshots
<1> QED BY <1>3, <1>4, <1>5, <1>6

\* With one that has no rows, the later one.
LEMMA MergedIsOne ==
    ASSUME NEW p \in Snapshots, NEW s \in Snapshots, ~(HasRows(p) /\ HasRows(s))
    PROVE  /\ MergedPending(p, s) \in {p, s}
           /\ MergedPending(p, s).at >= p.at /\ MergedPending(p, s).at >= s.at
<1>1. MergedPending(p, s) = IF s.at >= p.at THEN s ELSE p
  BY DEF MergedPending
<1>2. p.at \in Nat /\ s.at \in Nat
  BY SnapshotsHaveRows
<1> QED BY <1>1, <1>2

LEMMA MergedStays ==
    ASSUME NEW p \in Snapshots, NEW s \in Snapshots PROVE MergedPending(p, s) \in Snapshots
<1>1. CASE HasRows(p) /\ HasRows(s)
  BY <1>1, MergedIsSnapshot
<1>2. CASE ~(HasRows(p) /\ HasRows(s))
  <2>1. MergedPending(p, s) \in {p, s}
    BY <1>2, MergedIsOne
  <2> QED BY <2>1
<1> QED BY <1>1, <1>2

LEMMA NewestMerged ==
    ASSUME NEW S \in SUBSET Snapshots, NEW p \in Snapshots, NEW s \in Snapshots, NEW n \in Nat,
           Newest(p, S),
           \A t \in S : \A l \in DOMAIN t.rows : t.rows[l].from <= n,
           \A l \in DOMAIN s.rows : s.rows[l].from = n + 1
    PROVE  Newest(MergedPending(p, s), S \cup {s})
<1>1. \A t \in S \cup {p, s} : /\ t.at \in Nat
                               /\ \A l \in DOMAIN t.rows : t.rows[l].at \in Nat /\ t.rows[l].from \in Nat
  <2> TAKE t \in S \cup {p, s}
  <2>1. t \in Snapshots
    OBVIOUS
  <2> QED BY <2>1, SnapshotsHaveRows
<1>0. \A l \in DOMAIN p.rows : \E t \in S : l \in DOMAIN t.rows /\ p.rows[l] = t.rows[l]
  BY DEF Newest
<1>2. PICK m \in Snapshots : m = MergedPending(p, s)
  BY MergedStays
<1>3. CASE HasRows(p) /\ HasRows(s)
  <2>1. /\ m.at \in {p.at, s.at} /\ m.at >= p.at /\ m.at >= s.at /\ m.at \in Nat
        /\ DOMAIN m.rows = DOMAIN p.rows \cup DOMAIN s.rows
        /\ \A l \in DOMAIN p.rows \cup DOMAIN s.rows :
             m.rows[l] = IF l \in DOMAIN s.rows /\ (l \in DOMAIN p.rows => s.rows[l].at >= p.rows[l].at)
                         THEN s.rows[l] ELSE p.rows[l]
    BY <1>2, <1>3, MergedIsSnapshot DEF Snapshots
  <2>2. \E t \in S \cup {s} : t.at = m.at
    BY <2>1 DEF Newest
  <2>3. \A t \in S \cup {s} : t.at <= m.at
    BY <1>1, <2>1 DEF Newest
  <2>4. ASSUME NEW l \in DOMAIN m.rows
        PROVE  \E t \in S \cup {s} : l \in DOMAIN t.rows /\ m.rows[l] = t.rows[l]
    <3>1. CASE l \in DOMAIN s.rows /\ m.rows[l] = s.rows[l]
      BY <3>1
    <3>2. CASE l \in DOMAIN p.rows /\ m.rows[l] = p.rows[l]
      BY <1>0, <3>2
    <3> QED BY <2>1, <3>1, <3>2
  <2>5. ASSUME Full(S \cup {s})
        PROVE  /\ \A l : l \in DOMAIN m.rows <=> \E t \in S \cup {s} : l \in DOMAIN t.rows
               /\ \A l \in DOMAIN m.rows : \A t \in S \cup {s} : l \in DOMAIN t.rows =>
                    \/ t.rows[l].at < m.rows[l].at
                    \/ t.rows[l].at = m.rows[l].at /\ t.rows[l].from <= m.rows[l].from
    <3>0. /\ \A l : l \in DOMAIN p.rows <=> \E t \in S : l \in DOMAIN t.rows
          /\ \A l \in DOMAIN p.rows : \A t \in S : l \in DOMAIN t.rows =>
               \/ t.rows[l].at < p.rows[l].at
               \/ t.rows[l].at = p.rows[l].at /\ t.rows[l].from <= p.rows[l].from
      BY <2>5 DEF Newest, Full
    <3>1. \A l : l \in DOMAIN m.rows <=> \E t \in S \cup {s} : l \in DOMAIN t.rows
      BY <2>1, <3>0
    <3>2. ASSUME NEW l \in DOMAIN m.rows, NEW t \in S \cup {s}, l \in DOMAIN t.rows
          PROVE  \/ t.rows[l].at < m.rows[l].at
                 \/ t.rows[l].at = m.rows[l].at /\ t.rows[l].from <= m.rows[l].from
      <4>0. /\ t.rows[l].at \in Nat /\ t.rows[l].from \in Nat
            /\ l \in DOMAIN p.rows => p.rows[l].at \in Nat
            /\ l \in DOMAIN s.rows => s.rows[l].at \in Nat
        BY <1>1, <3>2
      <4>1. CASE l \in DOMAIN s.rows /\ (l \in DOMAIN p.rows => s.rows[l].at >= p.rows[l].at)
        <5>1. m.rows[l] = s.rows[l] /\ s.rows[l].from = n + 1
          BY <2>1, <4>1
        <5>2. CASE t \in S
          <6>1. l \in DOMAIN p.rows /\ t.rows[l].at <= p.rows[l].at
            BY <3>0, <3>2, <4>0, <5>2
          <6>2. t.rows[l].from <= n
            BY <3>2, <5>2
          <6> QED BY <4>0, <4>1, <5>1, <6>1, <6>2
        <5>3. CASE t = s
          BY <4>0, <5>1, <5>3
        <5> QED BY <5>2, <5>3
      <4>2. CASE ~(l \in DOMAIN s.rows /\ (l \in DOMAIN p.rows => s.rows[l].at >= p.rows[l].at))
        <5>1. m.rows[l] = p.rows[l] /\ l \in DOMAIN p.rows
          BY <2>1, <4>2
        <5>2. CASE t \in S
          BY <3>0, <3>2, <5>1, <5>2
        <5>3. CASE t = s
          BY <3>2, <4>0, <4>2, <5>1, <5>3
        <5> QED BY <5>2, <5>3
      <4> QED BY <4>1, <4>2
    <3> QED BY <3>1, <3>2
  <2>6. Newest(m, S \cup {s})
    BY <2>2, <2>3, <2>4, <2>5 DEF Newest
  <2> QED BY <1>2, <2>6
<1>4. CASE ~(HasRows(p) /\ HasRows(s))
  <2>1. m \in {p, s} /\ m.at >= p.at /\ m.at >= s.at
    BY <1>2, <1>4, MergedIsOne
  <2>2. \E t \in S \cup {s} : t.at = m.at
    BY <2>1 DEF Newest
  <2>3. \A t \in S \cup {s} : t.at <= m.at
    <3>1. m.at \in Nat /\ p.at \in Nat
      BY SnapshotsHaveRows
    <3> QED BY <1>1, <2>1, <3>1 DEF Newest
  <2>4. \A l \in DOMAIN m.rows : \E t \in S \cup {s} : l \in DOMAIN t.rows /\ m.rows[l] = t.rows[l]
    BY <1>0, <2>1
  <2>5. ~Full(S \cup {s})
    <3> SUFFICES ASSUME Full(S \cup {s}) PROVE FALSE
      OBVIOUS
    <3>1. HasRows(s) /\ Full(S)
      BY DEF Full
    <3>2. PICK t \in S : t.at = p.at
      BY DEF Newest
    <3>3. PICK l \in DOMAIN t.rows : TRUE
      BY <3>1, <3>2 DEF Full, HasRows
    <3>4. l \in DOMAIN p.rows
      BY <3>1, <3>2, <3>3 DEF Newest
    <3> QED BY <1>4, <3>1, <3>4 DEF HasRows
  <2>6. Newest(m, S \cup {s})
    BY <2>2, <2>3, <2>4, <2>5 DEF Newest
  <2> QED BY <1>2, <2>6
<1> QED BY <1>3, <1>4

-----------------------------------------------------------------------------
\* The beginning.

LEMMA HeadersStart == HeaderInit => HeadersInv
<1> SUFFICES ASSUME HeaderInit PROVE HeadersInv
  OBVIOUS
<1>1. Nothing \in SnapshotMaps /\ Nothing \in HeaderRows /\ DOMAIN Nothing = {}
  BY NothingIsPartial DEF SnapshotMaps, HeaderRows
<1>2. NoTask \in QuotaTasks
  BY <1>1 DEF NoTask, QuotaTasks
<1>3. HeadersTyped
  <2>1. headerWorker \in HeaderWorkers
    BY <1>1 DEF HeaderInit, HeaderWorkers
  <2>2. quotaCache \in [HeaderAuths -> QuotaTasks]
    BY <1>2 DEF HeaderInit
  <2>3. unflushed \in SUBSET Snapshots /\ pendingHeaders \in SnapshotMaps /\ inHand \in SnapshotMaps
    BY <1>1 DEF HeaderInit
  <2>4. headerWake \in BOOLEAN /\ headerTimer \in BOOLEAN /\ headerClosing \in BOOLEAN
        /\ headerSender \in BOOLEAN
    BY DEF HeaderInit
  <2>5. headerClock \in Nat /\ snapshotCount \in Nat
    BY DEF HeaderInit
  <2> QED BY <2>1, <2>2, <2>3, <2>4, <2>5 DEF HeadersTyped
<1>4. PendingFits
  BY <1>1 DEF HeaderInit, PendingFits, Arrived
<1>5. FlushFits
  BY <1>1 DEF HeaderInit, FlushFits
<1>6. ActiveHasNoRows
  BY DEF HeaderInit, ActiveHasNoRows, IsActive, NoTask
<1> QED BY <1>3, <1>4, <1>5, <1>6 DEF HeadersInv

-----------------------------------------------------------------------------
\* One step after the other.

\* What waits is as it was when nothing came and nothing was taken.
LEMMA PendingUntouched ==
    PendingFits /\ UNCHANGED <<snapshotCount, unflushed, pendingHeaders, evicted>> => PendingFits'
<1> SUFFICES ASSUME PendingFits, UNCHANGED <<snapshotCount, unflushed, pendingHeaders, evicted>>
             PROVE  PendingFits'
  OBVIOUS
<1>1. \A a : Arrived(a)' = Arrived(a)
  BY DEF Arrived
<1>2. \A a \in HeaderAuths \ evicted :
        /\ a \in DOMAIN pendingHeaders <=> Arrived(a)' # {}
        /\ a \in DOMAIN pendingHeaders => Newest(pendingHeaders[a], Arrived(a)')
  BY <1>1 DEF PendingFits
<1>3. \A s \in unflushed : \A l \in DOMAIN s.rows : s.rows[l].from <= snapshotCount
  BY DEF PendingFits
<1> QED BY <1>2, <1>3 DEF PendingFits

\* A snapshot that comes, whatever becomes of it.
LEMMA AppendedSnapshot ==
    ASSUME HeadersTyped, AppendSnapshot
    PROVE  \E s \in Snapshots : /\ \A l \in DOMAIN s.rows : s.rows[l].from = snapshotCount + 1
                                /\ PutPending(s) /\ unflushed' = unflushed \cup {s}
<1>1. PICK a \in HeaderAuths : \E t \in 1 .. headerClock, limits \in SUBSET QuotaLimits :
        LET s == [auth |-> a, at |-> t,
                  rows |-> [l \in limits |-> [at |-> t, from |-> snapshotCount + 1]]]
        IN PutPending(s) /\ unflushed' = unflushed \cup {s}
  BY DEF AppendSnapshot
<1>2. PICK t \in 1 .. headerClock : \E limits \in SUBSET QuotaLimits :
        LET s == [auth |-> a, at |-> t,
                  rows |-> [l \in limits |-> [at |-> t, from |-> snapshotCount + 1]]]
        IN PutPending(s) /\ unflushed' = unflushed \cup {s}
  BY <1>1
<1>3. PICK limits \in SUBSET QuotaLimits :
        LET s == [auth |-> a, at |-> t,
                  rows |-> [l \in limits |-> [at |-> t, from |-> snapshotCount + 1]]]
        IN PutPending(s) /\ unflushed' = unflushed \cup {s}
  BY <1>2
<1> DEFINE rows == [l \in limits |-> [at |-> t, from |-> snapshotCount + 1]]
           s == [auth |-> a, at |-> t, rows |-> rows]
<1>4. t \in Nat /\ snapshotCount \in Nat
  BY DEF HeadersTyped
<1>5. rows \in HeaderRows
  <2>1. rows \in [limits -> SnapshotRows] /\ limits \in SUBSET QuotaLimits
    BY <1>4 DEF SnapshotRows
  <2> QED BY <2>1, PartialMade DEF HeaderRows
<1>6. \A l \in DOMAIN s.rows : s.rows[l].from = snapshotCount + 1
  OBVIOUS
<1>7. PutPending(s) /\ unflushed' = unflushed \cup {s}
  BY <1>3
<1>8. s \in Snapshots
  <2>1. \A l \in DOMAIN rows : rows[l].at = t /\ rows[l].from = snapshotCount + 1
    OBVIOUS
  <2> HIDE DEF rows
  <2>2. s \in [auth : HeaderAuths, at : Nat, rows : HeaderRows] /\ s.rows = rows /\ s.at = t
    BY <1>4, <1>5
  <2> HIDE DEF s
  <2>3. Led(s)
    BY <1>4, <2>1, <2>2 DEF Led, HasRows
  <2> QED BY <2>2, <2>3 DEF Snapshots
<1> HIDE DEF s
<1> QED BY <1>6, <1>7, <1>8

\* What becomes of it, seen from the accounts.
LEMMA PutPendingDoes ==
    ASSUME HeadersTyped, NEW s \in Snapshots, PutPending(s)
    PROVE  /\ pendingHeaders' \in SnapshotMaps /\ evicted \subseteq evicted'
           /\ \A a \in HeaderAuths \ evicted' :
                IF a = s.auth
                THEN /\ a \in DOMAIN pendingHeaders'
                     /\ pendingHeaders'[a] = IF a \in DOMAIN pendingHeaders
                                             THEN MergedPending(pendingHeaders[a], s) ELSE s
                ELSE /\ a \in DOMAIN pendingHeaders' <=> a \in DOMAIN pendingHeaders
                     /\ a \in DOMAIN pendingHeaders => pendingHeaders'[a] = pendingHeaders[a]
<1> DEFINE b == s.auth
           single == [c \in {b} |-> s]
<1>1. b \in HeaderAuths /\ pendingHeaders \in Partials(HeaderAuths, Snapshots)
  BY SnapshotsHaveRows DEF HeadersTyped, SnapshotMaps
<1>2. DOMAIN pendingHeaders \in SUBSET HeaderAuths
      /\ \A a \in DOMAIN pendingHeaders : pendingHeaders[a] \in Snapshots
  BY <1>1, PartialHas
<1>3. single \in Partials(HeaderAuths, Snapshots) /\ DOMAIN single = {b} /\ single[b] = s
  BY <1>1, SingleIsPartial
<1> HIDE DEF single
<1>4. ASSUME b \in DOMAIN pendingHeaders
      PROVE  /\ pendingHeaders' \in SnapshotMaps /\ evicted' = evicted
             /\ DOMAIN pendingHeaders' = DOMAIN pendingHeaders
             /\ pendingHeaders'[b] = MergedPending(pendingHeaders[b], s)
             /\ \A a \in DOMAIN pendingHeaders : a # b => pendingHeaders'[a] = pendingHeaders[a]
  <2>1. PICK m \in Snapshots : m = MergedPending(pendingHeaders[b], s)
    BY <1>2, <1>4, MergedStays
  <2>2. pendingHeaders' = [pendingHeaders EXCEPT ![b] = m] /\ evicted' = evicted
    BY <1>4, <2>1 DEF PutPending
  <2>3. pendingHeaders \in [DOMAIN pendingHeaders -> Snapshots]
    BY <1>1 DEF Partials
  <2>4. pendingHeaders' \in [DOMAIN pendingHeaders -> Snapshots]
    BY <2>2, <2>3
  <2>5. pendingHeaders' \in SnapshotMaps
    BY <1>2, <2>4, PartialMade DEF SnapshotMaps
  <2>6. pendingHeaders'[b] = m /\ DOMAIN pendingHeaders' = DOMAIN pendingHeaders
        /\ \A a \in DOMAIN pendingHeaders : a # b => pendingHeaders'[a] = pendingHeaders[a]
    BY <1>4, <2>2, <2>3
  <2> QED BY <2>1, <2>2, <2>5, <2>6
<1>5. ASSUME b \notin DOMAIN pendingHeaders, Cardinality(DOMAIN pendingHeaders) < PendingLimit
      PROVE  /\ pendingHeaders' \in SnapshotMaps /\ evicted' = evicted
             /\ DOMAIN pendingHeaders' = DOMAIN pendingHeaders \cup {b}
             /\ pendingHeaders'[b] = s
             /\ \A a \in DOMAIN pendingHeaders : a # b => pendingHeaders'[a] = pendingHeaders[a]
  <2>1. pendingHeaders' = Overlaid(pendingHeaders, single) /\ evicted' = evicted
    BY <1>5 DEF PutPending, single
  <2>2. /\ Overlaid(pendingHeaders, single) \in Partials(HeaderAuths, Snapshots)
        /\ DOMAIN Overlaid(pendingHeaders, single) = DOMAIN pendingHeaders \cup DOMAIN single
        /\ \A x \in DOMAIN single : Overlaid(pendingHeaders, single)[x] = single[x]
        /\ \A x \in DOMAIN pendingHeaders \ DOMAIN single :
             Overlaid(pendingHeaders, single)[x] = pendingHeaders[x]
    <3>1. Overlaid(pendingHeaders, single) \in Partials(HeaderAuths, Snapshots)
      BY <1>1, <1>3, OverlaidIsPartial
    <3> QED BY <3>1 DEF Overlaid
  <2> QED BY <1>3, <2>1, <2>2 DEF SnapshotMaps
<1>6. ASSUME b \notin DOMAIN pendingHeaders, ~(Cardinality(DOMAIN pendingHeaders) < PendingLimit),
             s.at >= pendingHeaders[OldestPending].at
      PROVE  /\ pendingHeaders' \in SnapshotMaps /\ evicted' = evicted \cup {OldestPending}
             /\ DOMAIN pendingHeaders' = (DOMAIN pendingHeaders \ {OldestPending}) \cup {b}
             /\ pendingHeaders'[b] = s
             /\ \A a \in DOMAIN pendingHeaders \ {OldestPending} :
                  a # b => pendingHeaders'[a] = pendingHeaders[a]
  <2> DEFINE out == OldestPending
  <2> HIDE DEF out
  <2>0. /\ Without(pendingHeaders, out) \in Partials(HeaderAuths, Snapshots)
        /\ DOMAIN Without(pendingHeaders, out) = DOMAIN pendingHeaders \ {out}
        /\ \A a \in DOMAIN pendingHeaders \ {out} :
             Without(pendingHeaders, out)[a] = pendingHeaders[a]
    BY <1>1, WithoutIsPartial
  <2>1. PICK rest \in Partials(HeaderAuths, Snapshots) :
          /\ rest = Without(pendingHeaders, OldestPending)
          /\ DOMAIN rest = DOMAIN pendingHeaders \ {OldestPending}
          /\ \A a \in DOMAIN pendingHeaders \ {OldestPending} : rest[a] = pendingHeaders[a]
    BY <2>0 DEF out
  <2>2. pendingHeaders' = Overlaid(rest, single) /\ evicted' = evicted \cup {OldestPending}
    BY <1>6, <2>1 DEF PutPending, single
  <2>3. /\ Overlaid(rest, single) \in Partials(HeaderAuths, Snapshots)
        /\ DOMAIN Overlaid(rest, single) = DOMAIN rest \cup DOMAIN single
        /\ \A x \in DOMAIN single : Overlaid(rest, single)[x] = single[x]
        /\ \A x \in DOMAIN rest \ DOMAIN single : Overlaid(rest, single)[x] = rest[x]
    <3>1. Overlaid(rest, single) \in Partials(HeaderAuths, Snapshots)
      BY <1>3, OverlaidIsPartial
    <3> QED BY <3>1 DEF Overlaid
  <2> QED BY <1>3, <2>1, <2>2, <2>3 DEF SnapshotMaps
<1>7. ASSUME b \notin DOMAIN pendingHeaders, ~(Cardinality(DOMAIN pendingHeaders) < PendingLimit),
             ~(s.at >= pendingHeaders[OldestPending].at)
      PROVE  pendingHeaders' = pendingHeaders /\ evicted' = evicted \cup {b}
  BY <1>7 DEF PutPending
<1>8. pendingHeaders' \in SnapshotMaps /\ evicted \subseteq evicted'
  BY <1>1, <1>4, <1>5, <1>6, <1>7 DEF SnapshotMaps
<1>9. ASSUME NEW a \in HeaderAuths \ evicted', a = b
      PROVE  /\ a \in DOMAIN pendingHeaders'
             /\ pendingHeaders'[a] = IF a \in DOMAIN pendingHeaders
                                     THEN MergedPending(pendingHeaders[a], s) ELSE s
  BY <1>4, <1>5, <1>6, <1>7, <1>9
<1>10. ASSUME NEW a \in HeaderAuths \ evicted', a # b
       PROVE  /\ a \in DOMAIN pendingHeaders' <=> a \in DOMAIN pendingHeaders
              /\ a \in DOMAIN pendingHeaders => pendingHeaders'[a] = pendingHeaders[a]
  BY <1>4, <1>5, <1>6, <1>7, <1>10
<1> QED BY <1>8, <1>9, <1>10

LEMMA AppendKeeps == HeadersInv /\ AppendSnapshot => HeadersInv'
<1> SUFFICES ASSUME HeadersInv, AppendSnapshot PROVE HeadersInv'
  OBVIOUS
<1>1. PICK s \in Snapshots : /\ \A l \in DOMAIN s.rows : s.rows[l].from = snapshotCount + 1
                             /\ PutPending(s) /\ unflushed' = unflushed \cup {s}
  BY AppendedSnapshot DEF HeadersInv
<1>2. /\ pendingHeaders' \in SnapshotMaps /\ evicted \subseteq evicted'
      /\ \A a \in HeaderAuths \ evicted' :
           IF a = s.auth
           THEN /\ a \in DOMAIN pendingHeaders'
                /\ pendingHeaders'[a] = IF a \in DOMAIN pendingHeaders
                                        THEN MergedPending(pendingHeaders[a], s) ELSE s
           ELSE /\ a \in DOMAIN pendingHeaders' <=> a \in DOMAIN pendingHeaders
                /\ a \in DOMAIN pendingHeaders => pendingHeaders'[a] = pendingHeaders[a]
  BY <1>1, PutPendingDoes DEF HeadersInv
<1>3. /\ snapshotCount' = snapshotCount + 1 /\ headerClosing = FALSE /\ headerSender' = TRUE
      /\ UNCHANGED <<headerClock, headerWake, headerTimer, headerClosing, headerWorker, inHand, quotaCache>>
  <2>1. headerClosing \in BOOLEAN
    BY Zenon DEF HeadersInv, HeadersTyped
  <2>2. headerClosing = FALSE
    BY <2>1, Zenon DEF AppendSnapshot
  <2> QED BY <2>2, Zenon DEF AppendSnapshot
<1>4. HeadersTyped'
  <2>1. unflushed' \in SUBSET Snapshots
    BY <1>1 DEF HeadersInv, HeadersTyped
  <2>2. snapshotCount' \in Nat
    BY <1>3 DEF HeadersInv, HeadersTyped
  <2> QED BY <1>2, <1>3, <2>1, <2>2, Zenon DEF HeadersInv, HeadersTyped
<1>5. PendingFits'
  <2>1. /\ \A t \in unflushed : t \in Snapshots
        /\ \A t \in unflushed : \A l \in DOMAIN t.rows : t.rows[l].from <= snapshotCount
        /\ snapshotCount \in Nat
    BY Zenon DEF HeadersInv, HeadersTyped, PendingFits
  <2>2. \A t \in unflushed' : \A l \in DOMAIN t.rows : t.rows[l].from <= snapshotCount'
    <3>1. ASSUME NEW t \in unflushed, NEW l \in DOMAIN t.rows
          PROVE  t.rows[l].from <= snapshotCount + 1
      <4>1. t.rows[l].from \in Nat /\ t.rows[l].from <= snapshotCount
        BY <2>1, SnapshotsHaveRows
      <4> QED BY <2>1, <4>1
    <3>2. ASSUME NEW l \in DOMAIN s.rows
          PROVE  s.rows[l].from <= snapshotCount + 1
      BY <1>1, <2>1
    <3> QED BY <1>1, <1>3, <3>1, <3>2
  <2>3. ASSUME NEW a \in HeaderAuths \ evicted'
        PROVE  /\ a \in DOMAIN pendingHeaders' <=> Arrived(a)' # {}
               /\ a \in DOMAIN pendingHeaders' => Newest(pendingHeaders'[a], Arrived(a)')
    <3>1. /\ a \in DOMAIN pendingHeaders <=> Arrived(a) # {}
          /\ a \in DOMAIN pendingHeaders => Newest(pendingHeaders[a], Arrived(a))
      BY <1>2, <2>3 DEF HeadersInv, PendingFits
    <3>2. CASE a # s.auth
      <4>1. Arrived(a)' = Arrived(a)
        BY <1>1, <3>2 DEF Arrived
      <4>2. /\ a \in DOMAIN pendingHeaders' <=> a \in DOMAIN pendingHeaders
            /\ a \in DOMAIN pendingHeaders => pendingHeaders'[a] = pendingHeaders[a]
        BY <1>2, <3>2
      <4> QED BY <3>1, <4>1, <4>2
    <3>3. CASE a = s.auth
      <4>1. Arrived(a)' = Arrived(a) \cup {s} /\ Arrived(a) \in SUBSET Snapshots
        BY <1>1, <2>1, <3>3 DEF Arrived
      <4>2. a \in DOMAIN pendingHeaders' /\ Arrived(a)' # {}
        BY <1>2, <3>3, <4>1
      <4>3. CASE a \in DOMAIN pendingHeaders
        <5>1. Newest(pendingHeaders[a], Arrived(a)) /\ pendingHeaders[a] \in Snapshots
          <6>1. pendingHeaders \in Partials(HeaderAuths, Snapshots)
            BY DEF HeadersInv, HeadersTyped, SnapshotMaps
          <6> QED BY <3>1, <4>3, <6>1, PartialHas
        <5>2. \A t \in Arrived(a) : \A l \in DOMAIN t.rows : t.rows[l].from <= snapshotCount
          BY <2>1 DEF Arrived
        <5>3. Newest(MergedPending(pendingHeaders[a], s), Arrived(a) \cup {s})
          BY <1>1, <2>1, <4>1, <5>1, <5>2, NewestMerged, Zenon
        <5>4. pendingHeaders'[a] = MergedPending(pendingHeaders[a], s)
          BY <1>2, <3>3, <4>3
        <5> QED BY <4>1, <4>2, <5>3, <5>4
      <4>4. CASE a \notin DOMAIN pendingHeaders
        <5>1. Arrived(a)' = {s} /\ pendingHeaders'[a] = s
          BY <1>2, <3>1, <3>3, <4>1, <4>4
        <5>2. Newest(s, {s})
          BY NewestOfOne
        <5> QED BY <4>2, <5>1, <5>2
      <4> QED BY <4>3, <4>4
    <3> QED BY <3>2, <3>3
  <2> QED BY <2>2, <2>3 DEF PendingFits
<1>6. FlushFits'
  <2>1. ~headerWorker.last
    BY <1>3, Zenon DEF HeadersInv, FlushFits
  <2> QED BY <1>3, <2>1, Zenon DEF HeadersInv, FlushFits
<1>7. ActiveHasNoRows'
  BY <1>3 DEF HeadersInv, ActiveHasNoRows
<1> QED BY <1>4, <1>5, <1>6, <1>7 DEF HeadersInv

LEMMA WakingKeeps == HeadersInv /\ (SendWake \/ ReceiveWake \/ StopHeaders \/ HeaderTick) => HeadersInv'
<1> SUFFICES ASSUME HeadersInv, SendWake \/ ReceiveWake \/ StopHeaders \/ HeaderTick PROVE HeadersInv'
  OBVIOUS
<1>1. UNCHANGED <<snapshotCount, unflushed, pendingHeaders, evicted, headerWorker, inHand, quotaCache>>
  BY DEF SendWake, ReceiveWake, StopHeaders, HeaderTick
<1>2. /\ headerWake \in BOOLEAN /\ headerTimer \in BOOLEAN /\ headerClosing \in BOOLEAN
      /\ headerSender \in BOOLEAN
  BY Zenon DEF HeadersInv, HeadersTyped
<1>3. /\ headerWake' \in BOOLEAN /\ headerClosing' \in BOOLEAN /\ headerSender' \in BOOLEAN
  BY <1>2, Zenon DEF SendWake, ReceiveWake, StopHeaders, HeaderTick
<1>4. headerTimer' \in BOOLEAN
  <2>1. CASE ReceiveWake
    <3>1. headerTimer' = (headerTimer \/ DOMAIN pendingHeaders # {})
      BY <2>1, Zenon DEF ReceiveWake
    <3> QED BY <3>1
  <2>2. CASE SendWake \/ StopHeaders \/ HeaderTick
    BY <1>2, <2>2, Zenon DEF SendWake, StopHeaders, HeaderTick
  <2> QED BY <2>1, <2>2
<1>5. headerClock' \in Nat
  <2>1. headerClock \in Nat
    BY DEF HeadersInv, HeadersTyped
  <2>2. headerClock' \in {headerClock, headerClock + 1}
    BY DEF SendWake, ReceiveWake, StopHeaders, HeaderTick
  <2> QED BY <2>1, <2>2
<1>6. HeadersTyped'
  <2>1. /\ snapshotCount \in Nat /\ unflushed \in SUBSET Snapshots /\ pendingHeaders \in SnapshotMaps
        /\ headerWorker \in HeaderWorkers /\ inHand \in SnapshotMaps
        /\ quotaCache \in [HeaderAuths -> QuotaTasks]
    BY Zenon DEF HeadersInv, HeadersTyped
  <2>2. /\ snapshotCount' \in Nat /\ unflushed' \in SUBSET Snapshots /\ pendingHeaders' \in SnapshotMaps
        /\ headerWorker' \in HeaderWorkers /\ inHand' \in SnapshotMaps
        /\ quotaCache' \in [HeaderAuths -> QuotaTasks]
    BY <1>1, <2>1
  <2> QED BY <1>3, <1>4, <1>5, <2>2, Zenon DEF HeadersTyped
<1>7. PendingFits'
  BY <1>1, PendingUntouched DEF HeadersInv
<1>8. FlushFits'
  <2>1. /\ DOMAIN pendingHeaders # {} => headerTimer \/ headerWake \/ headerSender \/ headerClosing
        /\ headerWorker.last => headerClosing /\ DOMAIN pendingHeaders = {}
        /\ headerWorker.pc = "done" => headerWorker.last
    BY Zenon DEF HeadersInv, FlushFits
  <2>2. headerClosing => headerClosing'
    BY Zenon DEF SendWake, ReceiveWake, StopHeaders, HeaderTick
  <2>3. DOMAIN pendingHeaders # {} => headerTimer' \/ headerWake' \/ headerSender' \/ headerClosing'
    <3>1. CASE SendWake
      BY <3>1, Zenon DEF SendWake
    <3>2. CASE ReceiveWake
      <4>1. headerTimer' = (headerTimer \/ DOMAIN pendingHeaders # {})
        BY <3>2, Zenon DEF ReceiveWake
      <4> QED BY <4>1, Zenon
    <3>3. CASE StopHeaders
      BY <3>3, Zenon DEF StopHeaders
    <3>4. CASE HeaderTick
      BY <2>1, <3>4, Zenon DEF HeaderTick
    <3> QED BY <3>1, <3>2, <3>3, <3>4
  <2>4. pendingHeaders' = pendingHeaders /\ headerWorker' = headerWorker
    BY <1>1
  <2> QED BY <2>1, <2>2, <2>3, <2>4, Zenon DEF FlushFits
<1>9. ActiveHasNoRows'
  BY <1>1 DEF HeadersInv, ActiveHasNoRows
<1> QED BY <1>6, <1>7, <1>8, <1>9 DEF HeadersInv

\* Whoever takes what waits leaves nothing behind.
LEMMA TakingKeeps == HeadersInv /\ (FlushOnTimer \/ FlushOnStop) => HeadersInv'
<1> SUFFICES ASSUME HeadersInv, FlushOnTimer \/ FlushOnStop PROVE HeadersInv'
  OBVIOUS
<1>1. PICK stopping \in BOOLEAN : TakePending(stopping) /\ (stopping => headerClosing)
  BY Zenon DEF FlushOnTimer, FlushOnStop
<1>2. /\ UNCHANGED <<headerClock, snapshotCount, headerWake, headerClosing, headerSender, inHand, quotaCache>>
      /\ headerTimer' = FALSE
  BY Zenon DEF FlushOnTimer, FlushOnStop
<1>3. /\ pendingHeaders' = Nothing /\ unflushed' = {} /\ evicted' = {}
      /\ headerWorker' = [pc |-> "lookup", batch |-> pendingHeaders, last |-> stopping]
  BY <1>1, Zenon DEF TakePending
<1>4. Nothing \in SnapshotMaps /\ DOMAIN Nothing = {}
  BY NothingIsPartial DEF SnapshotMaps
<1>5. headerWorker' \in HeaderWorkers /\ headerWorker'.pc = "lookup" /\ headerWorker'.last = stopping
  <2>1. pendingHeaders \in SnapshotMaps
    BY DEF HeadersInv, HeadersTyped
  <2> QED BY <1>3, <2>1 DEF HeaderWorkers
<1>6. HeadersTyped'
  <2>1. pendingHeaders' \in SnapshotMaps /\ unflushed' \in SUBSET Snapshots
    BY <1>3, <1>4
  <2>2. headerTimer' \in BOOLEAN
    BY <1>2, Zenon
  <2> QED BY <1>2, <1>5, <2>1, <2>2, Zenon DEF HeadersInv, HeadersTyped
<1>7. PendingFits'
  BY <1>3, <1>4 DEF PendingFits, Arrived
<1>8. FlushFits'
  <2>1. DOMAIN pendingHeaders' = {}
    BY <1>3, <1>4
  <2>2. headerWorker'.last => headerClosing'
    BY <1>1, <1>2, <1>5, Zenon
  <2>3. headerWorker'.pc # "done"
    BY <1>5
  <2> QED BY <2>1, <2>2, <2>3, Zenon DEF FlushFits
<1>9. ActiveHasNoRows'
  BY <1>2 DEF HeadersInv, ActiveHasNoRows
<1> QED BY <1>6, <1>7, <1>8, <1>9 DEF HeadersInv

\* A step of the worker with its batch; it ends when it was told to.
LEMMA WorkingKeeps ==
    ASSUME HeadersInv, headerWorker' \in HeaderWorkers, headerWorker'.last = headerWorker.last,
           headerWorker'.pc = "done" => headerWorker.last,
           inHand' \in SnapshotMaps, quotaCache' \in [HeaderAuths -> QuotaTasks], ActiveHasNoRows',
           UNCHANGED <<headerClock, snapshotCount, unflushed, pendingHeaders, evicted, headerWake,
                       headerTimer, headerClosing, headerSender>>
    PROVE  HeadersInv'
<1>1. HeadersTyped'
  BY Zenon DEF HeadersInv, HeadersTyped
<1>2. PendingFits'
  BY PendingUntouched DEF HeadersInv
<1>3. FlushFits'
  BY Zenon DEF HeadersInv, FlushFits
<1> QED BY <1>1, <1>2, <1>3 DEF HeadersInv

\* An account that is the first of a batch is one of it.
LEMMA FirstIsThere ==
    ASSUME NEW S \in SUBSET HeaderAuths, S # {} PROVE Min(S) \in S
<1>1. \E x \in S : \A y \in S : x <= y
  BY HeaderAssumption, NaturalsHaveLeast
<1> QED BY <1>1 DEF Min

LEMMA LookupKeeps == HeadersInv /\ LookupIdentities => HeadersInv'
<1> SUFFICES ASSUME HeadersInv, LookupIdentities PROVE HeadersInv'
  OBVIOUS
<1>1. headerWorker \in HeaderWorkers /\ inHand \in SnapshotMaps
      /\ quotaCache \in [HeaderAuths -> QuotaTasks] /\ ActiveHasNoRows
  BY DEF HeadersInv, HeadersTyped
<1>2. headerWorker.batch \in Partials(HeaderAuths, Snapshots) /\ headerWorker.last \in BOOLEAN
  BY <1>1 DEF HeaderWorkers, SnapshotMaps
<1>3. PICK known \in SUBSET DOMAIN headerWorker.batch :
        headerWorker' = [headerWorker EXCEPT !.pc = "jobs", !.batch = [a \in known |-> @[a]]]
  BY DEF LookupIdentities
<1>4. PICK m : m = [a \in known |-> headerWorker.batch[a]]
  OBVIOUS
<1>5. m \in SnapshotMaps
  BY <1>2, <1>4, RestrictedIsPartial DEF SnapshotMaps
<1>6. headerWorker' = [headerWorker EXCEPT !.pc = "jobs", !.batch = m]
  BY <1>3, <1>4
<1>7. headerWorker' \in HeaderWorkers /\ headerWorker'.last = headerWorker.last /\ headerWorker'.pc = "jobs"
  BY <1>1, <1>5, <1>6 DEF HeaderWorkers
<1>8. UNCHANGED <<headerClock, snapshotCount, unflushed, pendingHeaders, evicted, headerWake, headerTimer,
                   headerClosing, headerSender, inHand, quotaCache>>
  BY Zenon DEF LookupIdentities
<1>9. ActiveHasNoRows'
  BY <1>1, <1>8 DEF ActiveHasNoRows
<1>10. inHand' \in SnapshotMaps /\ quotaCache' \in [HeaderAuths -> QuotaTasks]
  BY <1>1, <1>8
<1>11. headerWorker'.pc # "done"
  BY <1>7
<1> QED BY <1>7, <1>8, <1>9, <1>10, <1>11, WorkingKeeps

LEMMA StartJobKeeps == HeadersInv /\ StartJob => HeadersInv'
<1> SUFFICES ASSUME HeadersInv, StartJob PROVE HeadersInv'
  OBVIOUS
<1>1. headerWorker \in HeaderWorkers /\ inHand \in SnapshotMaps
      /\ quotaCache \in [HeaderAuths -> QuotaTasks] /\ ActiveHasNoRows
  BY DEF HeadersInv, HeadersTyped
<1>2. headerWorker.batch \in Partials(HeaderAuths, Snapshots) /\ inHand \in Partials(HeaderAuths, Snapshots)
  BY <1>1 DEF HeaderWorkers, SnapshotMaps
<1>3. DOMAIN headerWorker.batch \in SUBSET HeaderAuths /\ DOMAIN headerWorker.batch # {}
      /\ \A a \in DOMAIN headerWorker.batch : headerWorker.batch[a] \in Snapshots
  BY <1>2, PartialHas DEF StartJob
<1>4. PICK a \in DOMAIN headerWorker.batch : a = Min(DOMAIN headerWorker.batch)
  BY <1>3, FirstIsThere
<1>5. PICK s \in Snapshots : s = headerWorker.batch[a]
  BY <1>3
<1>6. /\ headerWorker' = [headerWorker EXCEPT !.batch = Without(headerWorker.batch, a)]
      /\ inHand' = IF MayMerge(a, s) THEN Overlaid(inHand, [b \in {a} |-> s]) ELSE inHand
      /\ headerWorker.pc = "jobs"
  BY <1>1, <1>4, <1>5 DEF StartJob, HeaderWorkers
<1>7. PICK m : m = Without(headerWorker.batch, a)
  OBVIOUS
<1>8. m \in SnapshotMaps
  BY <1>2, <1>7, WithoutIsPartial DEF SnapshotMaps
<1>9. headerWorker' \in HeaderWorkers /\ headerWorker'.last = headerWorker.last /\ headerWorker'.pc = "jobs"
  BY <1>1, <1>6, <1>7, <1>8 DEF HeaderWorkers
<1>10. inHand' \in SnapshotMaps
  <2>1. PICK one : one = [b \in {a} |-> s]
    OBVIOUS
  <2>2. one \in Partials(HeaderAuths, Snapshots)
    BY <1>3, <2>1, SingleIsPartial
  <2>3. Overlaid(inHand, one) \in Partials(HeaderAuths, Snapshots)
    BY <1>2, <2>2, OverlaidIsPartial
  <2> QED BY <1>1, <1>6, <2>1, <2>3 DEF SnapshotMaps
<1>11. UNCHANGED <<headerClock, snapshotCount, unflushed, pendingHeaders, evicted, headerWake, headerTimer,
                   headerClosing, headerSender, quotaCache>>
  BY Zenon DEF StartJob
<1>12. ActiveHasNoRows' /\ quotaCache' \in [HeaderAuths -> QuotaTasks]
  BY <1>1, <1>11 DEF ActiveHasNoRows
<1>13. headerWorker'.pc # "done"
  BY <1>9
<1> QED BY <1>9, <1>10, <1>11, <1>12, <1>13, WorkingKeeps

LEMMA EndFlushKeeps == HeadersInv /\ EndFlush => HeadersInv'
<1> SUFFICES ASSUME HeadersInv, EndFlush PROVE HeadersInv'
  OBVIOUS
<1>1. headerWorker \in HeaderWorkers /\ inHand \in SnapshotMaps
      /\ quotaCache \in [HeaderAuths -> QuotaTasks] /\ ActiveHasNoRows
  BY DEF HeadersInv, HeadersTyped
<1>2. PICK p : p = IF headerWorker.last THEN "done" ELSE "select"
  OBVIOUS
<1>3. headerWorker' = [headerWorker EXCEPT !.pc = p]
  BY <1>2 DEF EndFlush
<1>4. p \in {"done", "select"} /\ (p = "done" => headerWorker.last)
  BY <1>2
<1>5. headerWorker' \in HeaderWorkers /\ headerWorker'.last = headerWorker.last /\ headerWorker'.pc = p
  BY <1>1, <1>3, <1>4 DEF HeaderWorkers
<1>6. UNCHANGED <<headerClock, snapshotCount, unflushed, pendingHeaders, evicted, headerWake, headerTimer,
                   headerClosing, headerSender, inHand, quotaCache>>
  BY Zenon DEF EndFlush
<1>7. ActiveHasNoRows' /\ inHand' \in SnapshotMaps /\ quotaCache' \in [HeaderAuths -> QuotaTasks]
  BY <1>1, <1>6 DEF ActiveHasNoRows
<1>8. headerWorker'.pc = "done" => headerWorker.last
  BY <1>4, <1>5
<1> QED BY <1>5, <1>6, <1>7, <1>8, WorkingKeeps

\* What a merge writes.
LEMMA MergedIsTask ==
    ASSUME NEW q \in QuotaTasks, NEW s \in Snapshots
    PROVE  MergedCache(q, s) \in QuotaTasks /\ MergedCache(q, s).status = "completed"
           /\ MergedCache(q, s).at = s.at
<1>1. q.rows \in Partials(QuotaLimits, SnapshotRows) /\ s.rows \in Partials(QuotaLimits, SnapshotRows)
      /\ s.at \in Nat
  BY SnapshotsHaveRows DEF QuotaTasks, HeaderRows
<1>2. PICK r \in HeaderRows : r = Overlaid(q.rows, s.rows)
  BY <1>1, OverlaidIsPartial DEF HeaderRows
<1>3. MergedCache(q, s) = [status |-> "completed", at |-> s.at, rows |-> r]
  BY <1>2 DEF MergedCache
<1> QED BY <1>1, <1>3 DEF QuotaTasks

\* A step that only writes a task.
LEMMA WritingKeeps ==
    ASSUME HeadersInv, inHand' \in SnapshotMaps, NEW a \in HeaderAuths, NEW q \in QuotaTasks,
           quotaCache' \in {quotaCache, [quotaCache EXCEPT ![a] = q]},
           IsActive(q) => DOMAIN q.rows = {},
           UNCHANGED <<headerClock, snapshotCount, unflushed, pendingHeaders, evicted, headerWake,
                       headerTimer, headerClosing, headerSender, headerWorker>>
    PROVE  HeadersInv'
<1>1. headerWorker \in HeaderWorkers /\ quotaCache \in [HeaderAuths -> QuotaTasks] /\ ActiveHasNoRows
  BY DEF HeadersInv, HeadersTyped
<1>2. quotaCache' \in [HeaderAuths -> QuotaTasks]
  BY <1>1
<1>3. ActiveHasNoRows'
  <2> SUFFICES ASSUME NEW b \in HeaderAuths, IsActive(quotaCache'[b]) PROVE DOMAIN quotaCache'[b].rows = {}
    BY DEF ActiveHasNoRows, IsActive
  <2>1. quotaCache'[b] = quotaCache[b] \/ quotaCache'[b] = q
    BY <1>1
  <2> QED BY <1>1, <2>1 DEF ActiveHasNoRows
<1>4. headerWorker'.pc = "done" => headerWorker.last
  BY Zenon DEF HeadersInv, FlushFits
<1>5. headerWorker' \in HeaderWorkers /\ headerWorker'.last = headerWorker.last
  BY <1>1
<1> QED BY <1>2, <1>3, <1>4, <1>5, WorkingKeeps

\* What a merge does to the task of an account.
LEMMA MergingDoes ==
    ASSUME HeadersTyped, NEW a \in HeaderAuths, MergeCache(a)
    PROVE  /\ a \in DOMAIN inHand /\ inHand[a] \in Snapshots /\ inHand' \in SnapshotMaps
           /\ MergedCache(quotaCache[a], inHand[a]) \in QuotaTasks
           /\ quotaCache' = IF MayMerge(a, inHand[a])
                            THEN [quotaCache EXCEPT ![a] = MergedCache(quotaCache[a], inHand[a])]
                            ELSE quotaCache
<1>1. inHand \in Partials(HeaderAuths, Snapshots) /\ quotaCache \in [HeaderAuths -> QuotaTasks]
  BY DEF HeadersTyped, SnapshotMaps
<1>2. a \in DOMAIN inHand /\ inHand' = Without(inHand, a)
  BY DEF MergeCache
<1>3. inHand[a] \in Snapshots
  BY <1>1, <1>2, PartialHas
<1>4. inHand' \in SnapshotMaps
  BY <1>1, <1>2, WithoutIsPartial DEF SnapshotMaps
<1>5. MergedCache(quotaCache[a], inHand[a]) \in QuotaTasks
  BY <1>1, <1>3, MergedIsTask
<1>6. quotaCache' = IF MayMerge(a, inHand[a])
                    THEN [quotaCache EXCEPT ![a] = MergedCache(quotaCache[a], inHand[a])]
                    ELSE quotaCache
  BY <1>1 DEF MergeCache
<1> QED BY <1>2, <1>3, <1>4, <1>5, <1>6

LEMMA MergeKeeps == ASSUME HeadersInv, NEW a \in HeaderAuths, MergeCache(a) PROVE HeadersInv'
<1>1. PICK q \in QuotaTasks : q = MergedCache(quotaCache[a], inHand[a])
  BY MergingDoes DEF HeadersInv
<1>2. quotaCache' \in {quotaCache, [quotaCache EXCEPT ![a] = q]} /\ inHand' \in SnapshotMaps
  BY <1>1, MergingDoes DEF HeadersInv
<1>3. q.status = "completed"
  BY <1>1 DEF MergedCache
<1>4. IsActive(q) => DOMAIN q.rows = {}
  BY <1>3 DEF IsActive
<1>5. UNCHANGED <<headerClock, snapshotCount, unflushed, pendingHeaders, evicted, headerWake, headerTimer,
                   headerClosing, headerSender, headerWorker>>
  BY Zenon DEF MergeCache
<1> QED BY <1>2, <1>4, <1>5, WritingKeeps

LEMMA QueueKeeps == ASSUME HeadersInv, NEW a \in HeaderAuths, QueueRefresh(a) PROVE HeadersInv'
<1>1. PICK q : q = [NoTask EXCEPT !.status = "active"]
  OBVIOUS
<1>2. Nothing \in HeaderRows /\ DOMAIN Nothing = {}
  BY NothingIsPartial DEF HeaderRows
<1>3. q \in QuotaTasks /\ DOMAIN q.rows = {}
  BY <1>1, <1>2 DEF NoTask, QuotaTasks
<1>4. quotaCache' = [quotaCache EXCEPT ![a] = q]
  BY <1>1 DEF QueueRefresh
<1>5. UNCHANGED <<headerClock, snapshotCount, unflushed, pendingHeaders, evicted, headerWake, headerTimer,
                   headerClosing, headerSender, headerWorker, inHand>>
  BY Zenon DEF QueueRefresh
<1>6. inHand' \in SnapshotMaps
  BY <1>5 DEF HeadersInv, HeadersTyped
<1> QED BY <1>3, <1>4, <1>5, <1>6, WritingKeeps

LEMMA SettleKeeps == ASSUME HeadersInv, NEW a \in HeaderAuths, SettleRefresh(a) PROVE HeadersInv'
<1>1. PICK status \in {"completed", "failed"} :
        quotaCache' = [quotaCache EXCEPT ![a] =
            [status |-> status, at |-> headerClock,
             rows |-> IF status = "failed" THEN Nothing
                      ELSE [l \in QuotaLimits |-> [at |-> headerClock, from |-> 0]]]]
  BY DEF SettleRefresh
<1>2. PICK r : r = IF status = "failed" THEN Nothing
                   ELSE [l \in QuotaLimits |-> [at |-> headerClock, from |-> 0]]
  OBVIOUS
<1>3. headerClock \in Nat
  BY DEF HeadersInv, HeadersTyped
<1>4. r \in HeaderRows
  <2>1. Nothing \in HeaderRows
    BY NothingIsPartial DEF HeaderRows
  <2>2. PICK g : g = [l \in QuotaLimits |-> [at |-> headerClock, from |-> 0]]
    OBVIOUS
  <2>3. g \in [QuotaLimits -> SnapshotRows]
    BY <1>3, <2>2 DEF SnapshotRows
  <2>4. g \in HeaderRows
    BY <2>3, PartialMade DEF HeaderRows
  <2> QED BY <1>2, <2>1, <2>2, <2>4
<1>5. PICK q : q = [status |-> status, at |-> headerClock, rows |-> r]
  OBVIOUS
<1>6. q \in QuotaTasks /\ ~IsActive(q)
  BY <1>3, <1>4, <1>5 DEF QuotaTasks, IsActive
<1>7. quotaCache' = [quotaCache EXCEPT ![a] = q]
  BY <1>1, <1>2, <1>5
<1>8. UNCHANGED <<headerClock, snapshotCount, unflushed, pendingHeaders, evicted, headerWake, headerTimer,
                   headerClosing, headerSender, headerWorker, inHand>>
  BY Zenon DEF SettleRefresh
<1>9. inHand' \in SnapshotMaps
  BY <1>8 DEF HeadersInv, HeadersTyped
<1> QED BY <1>6, <1>7, <1>8, <1>9, WritingKeeps

LEMMA HeadersInvNext == HeadersInv /\ [HeaderNext]_headerVars => HeadersInv'
<1> SUFFICES ASSUME HeadersInv, [HeaderNext]_headerVars PROVE HeadersInv'
  OBVIOUS
<1>1. CASE UNCHANGED headerVars
  <2>1. UNCHANGED <<headerClock, snapshotCount, unflushed, pendingHeaders, evicted, headerWake, headerTimer,
                    headerClosing, headerSender, headerWorker, inHand, quotaCache>>
    BY <1>1 DEF headerVars
  <2>2. HeadersTyped'
    BY <2>1, Zenon DEF HeadersInv, HeadersTyped
  <2>3. PendingFits'
    BY <2>1, PendingUntouched DEF HeadersInv
  <2>4. FlushFits'
    BY <2>1, Zenon DEF HeadersInv, FlushFits
  <2>5. ActiveHasNoRows'
    BY <2>1 DEF HeadersInv, ActiveHasNoRows
  <2> QED BY <2>2, <2>3, <2>4, <2>5 DEF HeadersInv
<1> QED BY <1>1, AppendKeeps, WakingKeeps, TakingKeeps, LookupKeeps, StartJobKeeps, EndFlushKeeps,
           MergeKeeps, QueueKeeps, SettleKeeps DEF HeaderNext

-----------------------------------------------------------------------------
\* What follows for the properties.

LEMMA NewestIsShown ==
    ASSUME HeadersInv, NEW a \in HeaderAuths \ evicted, Arrived(a) # {}
    PROVE  /\ pendingHeaders[a].at = Max({s.at : s \in Arrived(a)})
           /\ \A l \in DOMAIN pendingHeaders[a].rows :
                \E s \in Arrived(a) : l \in DOMAIN s.rows /\ pendingHeaders[a].rows[l] = s.rows[l]
           /\ Full(Arrived(a)) =>
                /\ DOMAIN pendingHeaders[a].rows
                     = {l \in QuotaLimits : \E s \in Arrived(a) : l \in DOMAIN s.rows}
                /\ \A l \in DOMAIN pendingHeaders[a].rows :
                     \A s \in Arrived(a) : l \in DOMAIN s.rows =>
                       \/ s.rows[l].at < pendingHeaders[a].rows[l].at
                       \/ /\ s.rows[l].at = pendingHeaders[a].rows[l].at
                          /\ s.rows[l].from <= pendingHeaders[a].rows[l].from
<1>1. Newest(pendingHeaders[a], Arrived(a)) /\ \A s \in Arrived(a) : s \in Snapshots
  BY DEF HeadersInv, HeadersTyped, PendingFits, Arrived
<1>2. PICK p : p = pendingHeaders[a]
  OBVIOUS
<1>3. p.at = Max({s.at : s \in Arrived(a)})
  <2> DEFINE ats == {s.at : s \in Arrived(a)}
  <2>1. ats \subseteq Nat
    BY <1>1, SnapshotsHaveRows
  <2>2. p.at \in ats /\ \A x \in ats : p.at >= x
    <3>1. p.at \in ats
      BY <1>1, <1>2 DEF Newest
    <3>2. ASSUME NEW s \in Arrived(a) PROVE p.at >= s.at
      BY <1>1, <1>2, <2>1, <3>1 DEF Newest
    <3> QED BY <3>1, <3>2
  <2> HIDE DEF ats
  <2>3. Max(ats) \in ats /\ \A x \in ats : Max(ats) >= x
    BY <2>2 DEF Max
  <2>4. Max(ats) >= p.at /\ p.at >= Max(ats) /\ Max(ats) \in Nat /\ p.at \in Nat
    BY <2>1, <2>2, <2>3
  <2>5. p.at = Max(ats)
    BY <2>4
  <2> QED BY <2>5 DEF ats
<1>4. \A s \in Arrived(a) : \A l \in DOMAIN s.rows : l \in QuotaLimits
  BY <1>1, SnapshotsHaveRows
<1>5. \A l \in DOMAIN p.rows : \E s \in Arrived(a) : l \in DOMAIN s.rows /\ p.rows[l] = s.rows[l]
  BY <1>1, <1>2 DEF Newest
<1>6. ASSUME Full(Arrived(a))
      PROVE  /\ DOMAIN p.rows = {l \in QuotaLimits : \E s \in Arrived(a) : l \in DOMAIN s.rows}
             /\ \A l \in DOMAIN p.rows : \A s \in Arrived(a) : l \in DOMAIN s.rows =>
                  \/ s.rows[l].at < p.rows[l].at
                  \/ s.rows[l].at = p.rows[l].at /\ s.rows[l].from <= p.rows[l].from
  BY <1>1, <1>2, <1>4, <1>6 DEF Newest
<1> QED BY <1>2, <1>3, <1>5, <1>6

LEMMA HeadersInvPending == HeadersInv => HeadersArePending
<1> SUFFICES ASSUME HeadersInv PROVE HeadersArePending
  OBVIOUS
<1>1. PendingIsFlushed
  BY Zenon DEF HeadersInv, FlushFits, PendingIsFlushed
<1>2. PendingIsNewest
  <2> SUFFICES ASSUME NEW a \in HeaderAuths \ evicted
               PROVE LET mine == {s \in unflushed : s.auth = a}
                         rows(l) == {s.rows[l] : s \in {t \in mine : l \in DOMAIN t.rows}}
                     IN /\ (a \in DOMAIN pendingHeaders) = (mine # {})
                        /\ mine # {} =>
                             /\ pendingHeaders[a].at = Max({s.at : s \in mine})
                             /\ \A l \in DOMAIN pendingHeaders[a].rows :
                                  pendingHeaders[a].rows[l] \in rows(l)
                             /\ (\A s \in mine : HasRows(s)) =>
                                  /\ DOMAIN pendingHeaders[a].rows = {l \in QuotaLimits : rows(l) # {}}
                                  /\ \A l \in DOMAIN pendingHeaders[a].rows :
                                      LET row == pendingHeaders[a].rows[l]
                                      IN \A r \in rows(l) :
                                           r.at < row.at \/ (r.at = row.at /\ r.from <= row.from)
    BY DEF PendingIsNewest
  <2> DEFINE mine == {s \in unflushed : s.auth = a}
             rows(l) == {s.rows[l] : s \in {t \in mine : l \in DOMAIN t.rows}}
  <2>1. mine = Arrived(a)
    BY DEF Arrived
  <2>2. (a \in DOMAIN pendingHeaders) = (mine # {})
    BY <2>1 DEF HeadersInv, PendingFits
  <2>3. ASSUME mine # {}
        PROVE  /\ pendingHeaders[a].at = Max({s.at : s \in mine})
               /\ \A l \in DOMAIN pendingHeaders[a].rows :
                    \E s \in mine : l \in DOMAIN s.rows /\ pendingHeaders[a].rows[l] = s.rows[l]
               /\ Full(mine) =>
                    /\ DOMAIN pendingHeaders[a].rows = {l \in QuotaLimits : \E s \in mine : l \in DOMAIN s.rows}
                    /\ \A l \in DOMAIN pendingHeaders[a].rows :
                         \A s \in mine : l \in DOMAIN s.rows =>
                           \/ s.rows[l].at < pendingHeaders[a].rows[l].at
                           \/ /\ s.rows[l].at = pendingHeaders[a].rows[l].at
                              /\ s.rows[l].from <= pendingHeaders[a].rows[l].from
    <3>1. Arrived(a) # {}
      BY <2>1, <2>3
    <3> HIDE DEF mine
    <3> QED BY <2>1, <3>1, NewestIsShown
  <2> HIDE DEF mine
  <2>4. \A l : rows(l) # {} <=> \E s \in mine : l \in DOMAIN s.rows
    OBVIOUS
  <2>5. \A l, r : r \in rows(l) <=> \E s \in mine : l \in DOMAIN s.rows /\ r = s.rows[l]
    OBVIOUS
  <2> HIDE DEF rows
  <2>6. ASSUME mine # {}
        PROVE  /\ pendingHeaders[a].at = Max({s.at : s \in mine})
               /\ \A l \in DOMAIN pendingHeaders[a].rows : pendingHeaders[a].rows[l] \in rows(l)
    BY <2>3, <2>5, <2>6
  <2>7. ASSUME mine # {}, \A s \in mine : HasRows(s)
        PROVE  /\ DOMAIN pendingHeaders[a].rows = {l \in QuotaLimits : rows(l) # {}}
               /\ \A l \in DOMAIN pendingHeaders[a].rows :
                    \A r \in rows(l) : \/ r.at < pendingHeaders[a].rows[l].at
                                       \/ /\ r.at = pendingHeaders[a].rows[l].at
                                          /\ r.from <= pendingHeaders[a].rows[l].from
    <3>1. Full(mine)
      BY <2>7 DEF Full
    <3>2. DOMAIN pendingHeaders[a].rows = {l \in QuotaLimits : rows(l) # {}}
      <4>1. {l \in QuotaLimits : \E s \in mine : l \in DOMAIN s.rows} = {l \in QuotaLimits : rows(l) # {}}
        BY <2>4
      <4>2. DOMAIN pendingHeaders[a].rows = {l \in QuotaLimits : \E s \in mine : l \in DOMAIN s.rows}
        BY <2>3, <2>7, <3>1
      <4> QED BY <4>1, <4>2
    <3>3. ASSUME NEW l \in DOMAIN pendingHeaders[a].rows, NEW r \in rows(l)
          PROVE  \/ r.at < pendingHeaders[a].rows[l].at
                 \/ /\ r.at = pendingHeaders[a].rows[l].at
                    /\ r.from <= pendingHeaders[a].rows[l].from
      <4>1. PICK s \in mine : l \in DOMAIN s.rows /\ r = s.rows[l]
        BY <2>5
      <4> QED BY <2>3, <2>7, <3>1, <4>1
    <3> QED BY <3>2, <3>3
  <2> QED BY <2>2, <2>6, <2>7 DEF mine, rows
<1> QED BY <1>1, <1>2 DEF HeadersArePending

\* What no step does to the task of an account.
LEMMA TasksStand ==
    ASSUME HeadersInv, [HeaderNext]_headerVars, NEW a \in HeaderAuths
    PROVE  /\ /\ quotaCache[a].status = "completed" /\ quotaCache'[a].status = "completed"
              /\ quotaCache'[a] # quotaCache[a]
              => /\ quotaCache'[a].at > quotaCache[a].at
                 /\ \E l \in DOMAIN quotaCache'[a].rows :
                       /\ quotaCache'[a].rows[l].from # 0
                       /\ quotaCache'[a].rows[l].at = quotaCache'[a].at
                 /\ DOMAIN quotaCache[a].rows \subseteq DOMAIN quotaCache'[a].rows
           /\ IsActive(quotaCache[a]) => \A l \in DOMAIN quotaCache'[a].rows :
                                           quotaCache'[a].rows[l].from = 0
<1>1. quotaCache \in [HeaderAuths -> QuotaTasks] /\ HeadersTyped
  BY DEF HeadersInv, HeadersTyped
<1>2. quotaCache[a].at \in Nat /\ (IsActive(quotaCache[a]) => DOMAIN quotaCache[a].rows = {})
  <2>1. quotaCache[a] \in QuotaTasks
    BY <1>1
  <2>2. quotaCache[a].at \in Nat
    BY <2>1 DEF QuotaTasks
  <2> QED BY <2>2 DEF HeadersInv, ActiveHasNoRows
<1>3. CASE quotaCache'[a] = quotaCache[a]
  BY <1>2, <1>3
<1>4. ASSUME NEW b \in HeaderAuths, MergeCache(b), quotaCache'[a] # quotaCache[a]
      PROVE  /\ ~IsActive(quotaCache[a])
             /\ quotaCache[a].status = "completed" => quotaCache'[a].at > quotaCache[a].at
             /\ \E l \in DOMAIN quotaCache'[a].rows :
                   /\ quotaCache'[a].rows[l].from # 0
                   /\ quotaCache'[a].rows[l].at = quotaCache'[a].at
             /\ DOMAIN quotaCache[a].rows \subseteq DOMAIN quotaCache'[a].rows
  <2>1. /\ inHand[b] \in Snapshots
        /\ quotaCache' = IF MayMerge(b, inHand[b])
                         THEN [quotaCache EXCEPT ![b] = MergedCache(quotaCache[b], inHand[b])]
                         ELSE quotaCache
    BY <1>1, <1>4, MergingDoes
  <2>2. MayMerge(b, inHand[b]) /\ b = a
    BY <1>1, <1>4, <2>1
  <2>3. quotaCache'[a] = MergedCache(quotaCache[a], inHand[a])
    BY <1>1, <2>1, <2>2
  <2>4. quotaCache'[a].at = inHand[a].at /\ inHand[a].at \in Nat
    BY <2>1, <2>2, <2>3, SnapshotsHaveRows DEF MergedCache
  <2>5. ~IsActive(quotaCache[a]) /\ ~IsCurrent(quotaCache[a], inHand[a].at)
    BY <2>2 DEF MayMerge
  <2>6. quotaCache'[a].rows = Overlaid(quotaCache[a].rows, inHand[a].rows)
    BY <2>3 DEF MergedCache
  <2>7. /\ DOMAIN quotaCache'[a].rows = DOMAIN quotaCache[a].rows \cup DOMAIN inHand[a].rows
        /\ \A l \in DOMAIN inHand[a].rows : quotaCache'[a].rows[l] = inHand[a].rows[l]
    BY <2>6 DEF Overlaid
  <2>8. PICK l \in DOMAIN inHand[a].rows : inHand[a].rows[l].at = inHand[a].at /\ inHand[a].rows[l].from # 0
    BY <2>1, <2>2 DEF Snapshots, Led, MayMerge
  <2>9. quotaCache[a].status = "completed" => quotaCache'[a].at > quotaCache[a].at
    BY <1>2, <2>4, <2>5 DEF IsCurrent
  <2> QED BY <2>4, <2>5, <2>7, <2>8, <2>9
<1>5. ASSUME NEW b \in HeaderAuths, QueueRefresh(b), quotaCache'[a] # quotaCache[a]
      PROVE  ~IsActive(quotaCache[a]) /\ quotaCache'[a].status = "active"
  <2>1. b = a /\ quotaCache'[a] = [NoTask EXCEPT !.status = "active"]
    BY <1>1, <1>5 DEF QueueRefresh
  <2>2. ~IsActive(quotaCache[a])
    BY <1>5, <2>1 DEF QueueRefresh
  <2> QED BY <2>1, <2>2 DEF NoTask
<1>6. ASSUME NEW b \in HeaderAuths, SettleRefresh(b), quotaCache'[a] # quotaCache[a]
      PROVE  /\ quotaCache[a].status # "completed"
             /\ \A l \in DOMAIN quotaCache'[a].rows : quotaCache'[a].rows[l].from = 0
  <2>1. PICK status \in {"completed", "failed"} :
        quotaCache' = [quotaCache EXCEPT ![b] =
            [status |-> status, at |-> headerClock,
             rows |-> IF status = "failed" THEN Nothing
                      ELSE [l \in QuotaLimits |-> [at |-> headerClock, from |-> 0]]]]
    BY <1>6 DEF SettleRefresh
  <2>2. b = a
    BY <1>1, <1>6, <2>1
  <2>3. quotaCache[a].status # "completed"
    BY <1>6, <2>2 DEF SettleRefresh, IsActive
  <2>4. quotaCache'[a].rows = IF status = "failed" THEN Nothing
                              ELSE [l \in QuotaLimits |-> [at |-> headerClock, from |-> 0]]
    BY <1>1, <2>1, <2>2
  <2>5. DOMAIN Nothing = {}
    BY DEF Nothing
  <2> QED BY <2>3, <2>4, <2>5
<1>7. quotaCache' = quotaCache \/ \E b \in HeaderAuths : MergeCache(b) \/ QueueRefresh(b) \/ SettleRefresh(b)
  BY DEF HeaderNext, headerVars, AppendSnapshot, SendWake, ReceiveWake, FlushOnTimer, FlushOnStop,
         LookupIdentities, StartJob, EndFlush, StopHeaders, HeaderTick
<1>8. CASE quotaCache'[a] # quotaCache[a]
  <2>1. PICK b \in HeaderAuths : MergeCache(b) \/ QueueRefresh(b) \/ SettleRefresh(b)
    BY <1>7, <1>8
  <2>2. CASE MergeCache(b)
    BY <1>4, <1>8, <2>2
  <2>3. CASE QueueRefresh(b)
    BY <1>5, <1>8, <2>3
  <2>4. CASE SettleRefresh(b)
    BY <1>6, <1>8, <2>4
  <2> QED BY <2>1, <2>2, <2>3, <2>4
<1> QED BY <1>3, <1>8

LEMMA HeadersStayInv == HeaderSpec => []HeadersInv
<1> QED BY HeadersStart, HeadersInvNext, PTL DEF HeaderSpec

(* What waits for an account is of the latest time that came since the last   *)
(* flush and, while all of it has rows to show, the newest of each limit; and *)
(* someone is there to flush it (quota/header_cache_worker.go).               *)
THEOREM HeadersStayPending == HeaderSpec => []HeadersArePending
<1> QED BY HeadersStayInv, HeadersInvPending, PTL

\* The same of a step, as the property has it.
LEMMA HeadersDoNotOverwrite ==
    HeadersInv /\ [HeaderNext]_headerVars =>
       [\A a \in HeaderAuths :
        /\ /\ quotaCache[a].status = "completed" /\ quotaCache'[a].status = "completed"
           /\ quotaCache'[a] # quotaCache[a]
           => /\ quotaCache'[a].at > quotaCache[a].at
              /\ \E l \in DOMAIN quotaCache'[a].rows :
                    /\ quotaCache'[a].rows[l].from # 0
                    /\ quotaCache'[a].rows[l].at = quotaCache'[a].at
              /\ DOMAIN quotaCache[a].rows \subseteq DOMAIN quotaCache'[a].rows
        /\ IsActive(quotaCache[a]) => \A l \in DOMAIN quotaCache'[a].rows :
                                        quotaCache'[a].rows[l].from = 0]_headerVars
<1> QED BY TasksStand

(* A header changes a completed task only when one of its limits was observed *)
(* after it, and never the task of a refresh under way, whatever became of it *)
(* between the two looks (quota/header_cache_worker.go).                      *)
THEOREM HeadersRespectRefreshes == HeaderSpec => RefreshIsNotOverwritten
<1> QED BY HeadersStayInv, HeadersDoNotOverwrite, PTL DEF HeaderSpec, RefreshIsNotOverwritten

-----------------------------------------------------------------------------
(* Sums over a finite set, by least counterexample.                          *)

SumOf(count, T) == MapThenSumSet(LAMBDA t : count[t], T)
First(s) == CHOOSE x \in s : TRUE
IsSum(count, S, g) ==
    g = [s \in SUBSET S |-> IF s = {} THEN 0 ELSE count[First(s)] + g[s \ {First(s)}]]

\* Of some finite sets one is left by no removal of an element among them.
LEMMA SmallestIsThere ==
    ASSUME NEW S, IsFiniteSet(S), NEW B \in SUBSET SUBSET S, B # {}
    PROVE  \E T \in B : \A x \in T : T \ {x} \notin B
<1> DEFINE Sizes == {Cardinality(T) : T \in B}
<1>1. \A T \in SUBSET S : IsFiniteSet(T) /\ Cardinality(T) \in Nat
  BY FS_Subset, FS_CardinalityType
<1>2. Sizes \subseteq Nat /\ Sizes # {}
  BY <1>1
<1>3. PICK n \in Sizes : \A m \in Sizes : n <= m
  BY <1>2, NaturalsHaveLeast
<1>4. PICK T \in B : Cardinality(T) = n
  BY <1>3
<1>5. ASSUME NEW x \in T, T \ {x} \in B PROVE FALSE
  <2>1. IsFiniteSet(T) /\ Cardinality(T) \in Nat
    BY <1>1
  <2>2. Cardinality(T \ {x}) = Cardinality(T) - 1
    BY <2>1, <1>5, FS_RemoveElement
  <2>3. n <= Cardinality(T \ {x})
    BY <1>3, <1>5
  <2> QED BY <1>4, <2>1, <2>2, <2>3
<1> QED BY <1>5

LEMMA FirstIsIn == ASSUME NEW s, s # {} PROVE First(s) \in s
BY DEF First

LEMMA SumIsThere ==
    ASSUME NEW D, NEW count \in [D -> Nat], NEW S \in SUBSET D, IsFiniteSet(S)
    PROVE  \E g \in [SUBSET S -> Nat] : IsSum(count, S, g)
<1> DEFINE Small(n) == {s \in SUBSET S : Cardinality(s) <= n}
           Value(g, s) == IF s = {} THEN 0 ELSE count[First(s)] + g[s \ {First(s)}]
           Good(n, g) == /\ g \in [Small(n) -> Nat]
                         /\ \A s \in Small(n) : g[s] = Value(g, s)
           Bad == {n \in Nat : ~\E g : Good(n, g)}
<1>1. \A s \in SUBSET S : IsFiniteSet(s) /\ Cardinality(s) \in Nat
  BY FS_Subset, FS_CardinalityType
<1>2. \A s \in SUBSET S : s # {} => /\ First(s) \in s /\ count[First(s)] \in Nat
                                    /\ s \ {First(s)} \in SUBSET S
                                    /\ Cardinality(s \ {First(s)}) = Cardinality(s) - 1
  BY <1>1, FirstIsIn, FS_RemoveElement
<1>3. 0 \notin Bad
  <2> DEFINE g == [s \in Small(0) |-> 0]
  <2>1. \A s \in Small(0) : s = {}
    BY <1>1, FS_EmptySet
  <2>2. Good(0, g)
    BY <2>1
  <2> QED BY <2>2
<1>4. ASSUME NEW n \in Nat, n + 1 \in Bad PROVE n \in Bad
  <2> SUFFICES ASSUME NEW g, Good(n, g) PROVE FALSE
    OBVIOUS
  <2> DEFINE h == [s \in Small(n + 1) |-> Value(g, s)]
  <2>1. ASSUME NEW s \in Small(n + 1), s # {} PROVE s \ {First(s)} \in Small(n)
    BY <1>1, <1>2, <2>1
  <2>2. h \in [Small(n + 1) -> Nat]
    BY <1>2, <2>1
  <2>3. \A s \in Small(n) : s \in Small(n + 1) /\ h[s] = g[s]
    BY <1>1
  <2>4. \A s \in Small(n + 1) : h[s] = Value(h, s)
    BY <2>1, <2>3
  <2>5. Good(n + 1, h)
    BY <2>2, <2>4
  <2> QED BY <2>5, <1>4
<1>5. Bad = {}
  <2> SUFFICES ASSUME Bad # {} PROVE FALSE
    OBVIOUS
  <2>1. PICK n \in Bad : \A m \in Bad : n <= m
    BY NaturalsHaveLeast
  <2>2. n \in Nat /\ n # 0
    BY <1>3
  <2>3. n - 1 \in Nat /\ (n - 1) + 1 = n
    BY <2>2
  <2>4. n - 1 \in Bad
    BY <1>4, <2>3
  <2>5. n <= n - 1
    BY <2>1, <2>4
  <2> HIDE DEF Bad
  <2> QED BY <2>2, <2>5
<1>6. PICK g : Good(Cardinality(S), g)
  BY <1>5, <1>1
<1>7. Small(Cardinality(S)) = SUBSET S
  BY FS_Subset
<1> QED BY <1>6, <1>7 DEF IsSum

LEMMA SumIsOne ==
    ASSUME NEW D, NEW count \in [D -> Nat], NEW S \in SUBSET D, IsFiniteSet(S),
           NEW g \in [SUBSET S -> Nat], IsSum(count, S, g)
    PROVE  \A T \in SUBSET S : SumOf(count, T) = g[T]
<1> SUFFICES ASSUME NEW T \in SUBSET S PROVE SumOf(count, T) = g[T]
  OBVIOUS
<1>1. IsFiniteSet(T)
  BY FS_Subset
<1> DEFINE h == CHOOSE f : IsSum(count, T, f)
           B == {s \in SUBSET T : h[s] # g[s]}
<1>2. SumOf(count, T) = h[T]
  BY DEF SumOf, IsSum, MapThenSumSet, MapThenFoldSet, First
<1>3. IsSum(count, T, h)
  <2>1. \E f : IsSum(count, T, f)
    <3>1. T \in SUBSET D
      OBVIOUS
    <3> QED BY <1>1, <3>1, SumIsThere
  <2> QED BY <2>1, Zenon
<1> HIDE DEF h
<1>4. ASSUME B # {} PROVE FALSE
  <2>1. PICK s \in B : \A x \in s : s \ {x} \notin B
    BY <1>1, <1>4, SmallestIsThere
  <2>2. h[s] = IF s = {} THEN 0 ELSE count[First(s)] + h[s \ {First(s)}]
    BY <1>3 DEF IsSum
  <2>3. g[s] = IF s = {} THEN 0 ELSE count[First(s)] + g[s \ {First(s)}]
    BY DEF IsSum
  <2>4. s # {} => h[s \ {First(s)}] = g[s \ {First(s)}]
    BY <2>1, FirstIsIn
  <2> QED BY <2>1, <2>2, <2>3, <2>4
<1>5. T \in SUBSET T
  OBVIOUS
<1> QED BY <1>2, <1>4, <1>5

LEMMA SumStep ==
    ASSUME NEW D, NEW count \in [D -> Nat], NEW T \in SUBSET D, IsFiniteSet(T)
    PROVE  /\ SumOf(count, T) \in Nat
           /\ T = {} => SumOf(count, T) = 0
           /\ T # {} => SumOf(count, T) = count[First(T)] + SumOf(count, T \ {First(T)})
<1>1. PICK g \in [SUBSET T -> Nat] : IsSum(count, T, g)
  BY SumIsThere
<1>2. \A s \in SUBSET T : SumOf(count, s) = g[s]
  BY <1>1, SumIsOne
<1>3. g[T] = IF T = {} THEN 0 ELSE count[First(T)] + g[T \ {First(T)}]
  BY <1>1 DEF IsSum
<1>4. T \in SUBSET T /\ T \ {First(T)} \in SUBSET T
  OBVIOUS
<1> QED BY <1>1, <1>2, <1>3, <1>4

\* Any element can be taken out of a sum.
LEMMA SumWithout ==
    ASSUME NEW D, NEW count \in [D -> Nat], NEW T \in SUBSET D, IsFiniteSet(T), NEW x \in T
    PROVE  SumOf(count, T) = count[x] + SumOf(count, T \ {x})
<1> DEFINE B == {s \in SUBSET T :
                   \E y \in s : SumOf(count, s) # count[y] + SumOf(count, s \ {y})}
<1>1. \A s \in SUBSET T : IsFiniteSet(s)
  BY FS_Subset
<1>2. ASSUME B # {} PROVE FALSE
  <2>1. PICK s \in B : \A y \in s : s \ {y} \notin B
    BY <1>2, SmallestIsThere
  <2>2. PICK y \in s : SumOf(count, s) # count[y] + SumOf(count, s \ {y})
    OBVIOUS
  <2> DEFINE f == First(s)
  <2>3. f \in s
    BY FirstIsIn
  <2>4. SumOf(count, s) = count[f] + SumOf(count, s \ {f})
    BY <1>1, SumStep
  <2> HIDE DEF f
  <2>5. f # y
    BY <2>2, <2>4
  <2>6. SumOf(count, s \ {f}) = count[y] + SumOf(count, (s \ {f}) \ {y})
    <3>1. s \ {f} \notin B /\ y \in s \ {f} /\ s \ {f} \in SUBSET T
      BY <2>1, <2>3, <2>5
    <3> QED BY <3>1
  <2>7. SumOf(count, s \ {y}) = count[f] + SumOf(count, (s \ {y}) \ {f})
    <3>1. s \ {y} \notin B /\ f \in s \ {y} /\ s \ {y} \in SUBSET T
      BY <2>1, <2>3, <2>5
    <3> QED BY <3>1
  <2>8. (s \ {f}) \ {y} = (s \ {y}) \ {f}
    OBVIOUS
  <2>9. count[f] \in Nat /\ count[y] \in Nat /\ SumOf(count, (s \ {y}) \ {f}) \in Nat
    <3>1. (s \ {y}) \ {f} \in SUBSET D /\ IsFiniteSet((s \ {y}) \ {f})
      BY <1>1
    <3> QED BY <3>1, <2>3, SumStep
  <2> DEFINE rest == SumOf(count, (s \ {y}) \ {f})
  <2>10. SumOf(count, s) = count[f] + (count[y] + rest)
    BY <2>4, <2>6, <2>8
  <2>11. count[y] + SumOf(count, s \ {y}) = count[y] + (count[f] + rest)
    BY <2>7
  <2>12. rest \in Nat /\ count[f] \in Nat /\ count[y] \in Nat
    BY <2>9
  <2> HIDE DEF rest, B
  <2> QED BY <2>2, <2>10, <2>11, <2>12
<1> QED BY <1>2

\* A sum depends on the numbers summed only.
LEMMA SumAgrees ==
    ASSUME NEW D, NEW c \in [D -> Nat], NEW E, NEW d \in [E -> Nat],
           NEW T \in SUBSET (D \cap E), IsFiniteSet(T), \A t \in T : c[t] = d[t]
    PROVE  SumOf(c, T) = SumOf(d, T)
<1> DEFINE B == {s \in SUBSET T : SumOf(c, s) # SumOf(d, s)}
<1>1. \A s \in SUBSET T : IsFiniteSet(s)
  BY FS_Subset
<1>2. ASSUME B # {} PROVE FALSE
  <2>1. PICK s \in B : \A y \in s : s \ {y} \notin B
    BY <1>2, SmallestIsThere
  <2>2. CASE s = {}
    BY <1>1, <2>1, <2>2, SumStep
  <2>3. CASE s # {}
    <3> DEFINE f == First(s)
    <3>1. f \in s
      BY <2>3, FirstIsIn
    <3>2. SumOf(c, s) = c[f] + SumOf(c, s \ {f})
      BY <1>1, <2>3, SumStep
    <3>3. SumOf(d, s) = d[f] + SumOf(d, s \ {f})
      BY <1>1, <2>3, SumStep
    <3>4. SumOf(c, s \ {f}) = SumOf(d, s \ {f})
      BY <2>1, <3>1
    <3> QED BY <2>1, <3>1, <3>2, <3>3, <3>4
  <2> QED BY <2>2, <2>3
<1> QED BY <1>2

\* One more of an element is one more in the sum.
LEMMA SumBumped ==
    ASSUME NEW D, NEW c \in [D -> Nat], NEW d \in [D -> Nat], NEW T \in SUBSET D,
           IsFiniteSet(T), NEW x \in D, d[x] = c[x] + 1, \A y \in D \ {x} : d[y] = c[y]
    PROVE  SumOf(d, T) = SumOf(c, T) + (IF x \in T THEN 1 ELSE 0)
<1>1. d \in [D -> Nat] /\ d[x] = c[x] + 1 /\ \A y \in D \ {x} : d[y] = c[y]
  OBVIOUS
<1>2. SumOf(c, T) \in Nat
  BY SumStep
<1>3. CASE x \notin T
  <2>1. \A t \in T : d[t] = c[t]
    BY <1>1, <1>3
  <2>2. SumOf(d, T) = SumOf(c, T)
    BY <1>1, <2>1, SumAgrees
  <2> QED BY <1>2, <1>3, <2>2
<1>4. CASE x \in T
  <2>1. T \ {x} \in SUBSET D /\ IsFiniteSet(T \ {x}) /\ \A t \in T \ {x} : d[t] = c[t]
    BY <1>1, FS_Subset
  <2>2. SumOf(d, T \ {x}) = SumOf(c, T \ {x})
    BY <1>1, <2>1, SumAgrees
  <2>3. SumOf(d, T) = d[x] + SumOf(d, T \ {x}) /\ SumOf(c, T) = c[x] + SumOf(c, T \ {x})
    BY <1>1, <1>4, SumWithout
  <2>4. SumOf(c, T \ {x}) \in Nat /\ c[x] \in Nat
    BY <2>1, SumStep
  <2>5. SumOf(d, T) = SumOf(c, T) + 1
    BY <1>1, <2>2, <2>3, <2>4
  <2> QED BY <1>4, <2>5
<1> QED BY <1>3, <1>4

\* The sum over two sets that share nothing.
LEMMA SumOfParts ==
    ASSUME NEW D, NEW c \in [D -> Nat], NEW T \in SUBSET D, NEW U \in SUBSET D,
           IsFiniteSet(T), IsFiniteSet(U), T \cap U = {}
    PROVE  SumOf(c, T \cup U) = SumOf(c, T) + SumOf(c, U)
<1> DEFINE B == {s \in SUBSET U : SumOf(c, T \cup s) # SumOf(c, T) + SumOf(c, s)}
<1>1. \A s \in SUBSET U : /\ IsFiniteSet(s) /\ IsFiniteSet(T \cup s)
                          /\ SumOf(c, s) \in Nat /\ SumOf(c, T) \in Nat
                          /\ SumOf(c, T \cup s) \in Nat
  <2> TAKE s \in SUBSET U
  <2>1. IsFiniteSet(s)
    BY FS_Subset
  <2>2. IsFiniteSet(T \cup s)
    BY <2>1, FS_Union
  <2> QED BY <2>1, <2>2, SumStep
<1>2. ASSUME B # {} PROVE FALSE
  <2>1. PICK s \in B : \A y \in s : s \ {y} \notin B
    BY <1>2, SmallestIsThere
  <2>2. CASE s = {}
    <3>1. SumOf(c, s) = 0 /\ T \cup s = T
      BY <1>1, <2>2, SumStep
    <3>2. SumOf(c, T) \in Nat
      BY <1>1
    <3> QED BY <2>1, <3>1, <3>2
  <2>3. CASE s # {}
    <3>1. PICK y \in s : TRUE
      BY <2>3
    <3>2. SumOf(c, s) = c[y] + SumOf(c, s \ {y})
      BY <1>1, SumWithout
    <3>3. SumOf(c, T \cup s) = c[y] + SumOf(c, (T \cup s) \ {y})
      <4>1. T \cup s \in SUBSET D /\ y \in T \cup s /\ IsFiniteSet(T \cup s)
        BY <1>1
      <4> QED BY <4>1, SumWithout
    <3>4. (T \cup s) \ {y} = T \cup (s \ {y})
      OBVIOUS
    <3>5. s \ {y} \in SUBSET U
      OBVIOUS
    <3>6. SumOf(c, T \cup (s \ {y})) = SumOf(c, T) + SumOf(c, s \ {y})
      BY <2>1, <3>5
    <3>7. c[y] \in Nat /\ SumOf(c, T) \in Nat /\ SumOf(c, s \ {y}) \in Nat
      BY <1>1, <3>5
    <3>8. SumOf(c, T \cup s) = SumOf(c, T) + SumOf(c, s)
      <4> HIDE DEF B
      <4> QED BY <3>2, <3>3, <3>4, <3>6, <3>7
    <3> QED BY <2>1, <3>8
  <2> QED BY <2>2, <2>3
<1>3. U \in SUBSET U
  OBVIOUS
<1> QED BY <1>2, <1>3

\* More elements, no less a sum.
LEMMA SumGrows ==
    ASSUME NEW D, NEW c \in [D -> Nat], NEW U \in SUBSET D, IsFiniteSet(U),
           NEW T \in SUBSET U
    PROVE  SumOf(c, T) <= SumOf(c, U) /\ SumOf(c, T) \in Nat /\ SumOf(c, U) \in Nat
<1>1. IsFiniteSet(T) /\ IsFiniteSet(U \ T) /\ T \cup (U \ T) = U /\ T \cap (U \ T) = {}
  BY FS_Subset
<1>2. SumOf(c, T \cup (U \ T)) = SumOf(c, T) + SumOf(c, U \ T)
  BY <1>1, SumOfParts
<1>3. SumOf(c, T) \in Nat /\ SumOf(c, U) \in Nat /\ SumOf(c, U \ T) \in Nat
  BY <1>1, SumStep
<1>4. SumOf(c, U) = SumOf(c, T) + SumOf(c, U \ T)
  BY <1>1, <1>2
<1> QED BY <1>3, <1>4

LEMMA SumOfZeros ==
    ASSUME NEW D, NEW c \in [D -> Nat], NEW T \in SUBSET D, IsFiniteSet(T),
           \A t \in T : c[t] = 0
    PROVE  SumOf(c, T) = 0
<1> DEFINE B == {s \in SUBSET T : SumOf(c, s) # 0}
<1>1. ASSUME B # {} PROVE FALSE
  <2>1. PICK s \in B : \A y \in s : s \ {y} \notin B
    BY <1>1, SmallestIsThere
  <2>2. IsFiniteSet(s)
    BY FS_Subset
  <2>3. s # {}
    BY <2>1, <2>2, SumStep
  <2>4. PICK y \in s : TRUE
    BY <2>3
  <2>5. SumOf(c, s) = c[y] + SumOf(c, s \ {y})
    BY <2>2, SumWithout
  <2>6. SumOf(c, s \ {y}) = 0 /\ c[y] = 0
    BY <2>1
  <2> QED BY <2>1, <2>5, <2>6
<1> QED BY <1>1

\* What satisfies the equation of a sum is the sum.
LEMMA SumFound ==
    ASSUME NEW D, NEW count \in [D -> Nat], NEW S \in SUBSET D, IsFiniteSet(S), NEW w, IsSum(count, S, w)
    PROVE  w[S] = SumOf(count, S)
<1>1. PICK g \in [SUBSET S -> Nat] : IsSum(count, S, g)
  BY SumIsThere
<1>2. SumOf(count, S) = g[S]
  BY <1>1, SumIsOne
<1> DEFINE B == {s \in SUBSET S : w[s] # g[s]}
<1>3. ASSUME B # {} PROVE FALSE
  <2>1. PICK s \in B : \A x \in s : s \ {x} \notin B
    BY <1>3, SmallestIsThere
  <2>2. w[s] = IF s = {} THEN 0 ELSE count[First(s)] + w[s \ {First(s)}]
    BY DEF IsSum
  <2>3. g[s] = IF s = {} THEN 0 ELSE count[First(s)] + g[s \ {First(s)}]
    BY <1>1 DEF IsSum
  <2>4. s # {} => w[s \ {First(s)}] = g[s \ {First(s)}]
    BY <2>1, FirstIsIn
  <2> QED BY <2>1, <2>2, <2>3, <2>4
<1>4. S \in SUBSET S
  OBVIOUS
<1> QED BY <1>2, <1>3, <1>4

\* No number is more than its counterpart, nor is the sum.
LEMMA SumLess ==
    ASSUME NEW D, NEW c \in [D -> Nat], NEW E, NEW d \in [E -> Nat],
           NEW T \in SUBSET (D \cap E), IsFiniteSet(T), \A t \in T : c[t] <= d[t]
    PROVE  SumOf(c, T) <= SumOf(d, T)
<1> DEFINE B == {s \in SUBSET T : ~(SumOf(c, s) <= SumOf(d, s))}
<1>1. \A s \in SUBSET T : IsFiniteSet(s) /\ s \in SUBSET D /\ s \in SUBSET E
  BY FS_Subset
<1>2. ASSUME B # {} PROVE FALSE
  <2>1. PICK s \in B : \A y \in s : s \ {y} \notin B
    BY <1>2, SmallestIsThere
  <2>2. CASE s = {}
    <3>1. SumOf(c, s) = 0 /\ SumOf(d, s) = 0
      BY <1>1, <2>2, SumStep
    <3> QED BY <2>1, <3>1
  <2>3. CASE s # {}
    <3>1. PICK f \in s : TRUE
      BY <2>3
    <3>2. SumOf(c, s) = c[f] + SumOf(c, s \ {f})
      BY <1>1, SumWithout
    <3>3. SumOf(d, s) = d[f] + SumOf(d, s \ {f})
      BY <1>1, SumWithout
    <3>4. SumOf(c, s \ {f}) <= SumOf(d, s \ {f})
      BY <2>1, <3>1
    <3>5. SumOf(c, s \ {f}) \in Nat /\ SumOf(d, s \ {f}) \in Nat
      <4>1. s \ {f} \in SUBSET D /\ s \ {f} \in SUBSET E /\ IsFiniteSet(s \ {f})
        BY <1>1
      <4> QED BY <4>1, SumStep
    <3>6. c[f] \in Nat /\ d[f] \in Nat /\ c[f] <= d[f]
      BY <3>1
    <3>7. SumOf(c, s) <= SumOf(d, s)
      <4> HIDE DEF B
      <4> QED BY <3>2, <3>3, <3>4, <3>5, <3>6
    <3> QED BY <2>1, <3>7
  <2> QED BY <2>2, <2>3
<1>3. T \in SUBSET T
  OBVIOUS
<1> QED BY <1>2, <1>3

\* The sum of sums.
LEMMA SumPlus ==
    ASSUME NEW D, NEW c \in [D -> Nat], NEW d \in [D -> Nat], NEW e \in [D -> Nat],
           NEW T \in SUBSET D, IsFiniteSet(T), \A t \in T : e[t] = c[t] + d[t]
    PROVE  SumOf(e, T) = SumOf(c, T) + SumOf(d, T)
<1> DEFINE B == {s \in SUBSET T : SumOf(e, s) # SumOf(c, s) + SumOf(d, s)}
<1>1. \A s \in SUBSET T : IsFiniteSet(s) /\ s \in SUBSET D
  BY FS_Subset
<1>2. ASSUME B # {} PROVE FALSE
  <2>1. PICK s \in B : \A y \in s : s \ {y} \notin B
    BY <1>2, SmallestIsThere
  <2>2. CASE s = {}
    <3>0. s \in SUBSET D /\ IsFiniteSet(s)
      BY <1>1
    <3>1. SumOf(c, s) = 0 /\ SumOf(d, s) = 0 /\ SumOf(e, s) = 0
      BY <2>2, <3>0, SumStep
    <3> QED BY <2>1, <3>1
  <2>3. CASE s # {}
    <3>1. PICK f \in s : TRUE
      BY <2>3
    <3>2. /\ SumOf(c, s) = c[f] + SumOf(c, s \ {f})
          /\ SumOf(d, s) = d[f] + SumOf(d, s \ {f})
          /\ SumOf(e, s) = e[f] + SumOf(e, s \ {f})
      BY <1>1, SumWithout
    <3>4. SumOf(e, s \ {f}) = SumOf(c, s \ {f}) + SumOf(d, s \ {f})
      BY <2>1, <3>1
    <3>5. SumOf(c, s \ {f}) \in Nat /\ SumOf(d, s \ {f}) \in Nat
      BY <1>1, SumStep
    <3>6. c[f] \in Nat /\ d[f] \in Nat /\ e[f] = c[f] + d[f]
      BY <3>1
    <3>7. SumOf(e, s) = SumOf(c, s) + SumOf(d, s)
      <4> HIDE DEF B
      <4> QED BY <3>2, <3>4, <3>5, <3>6
    <3> QED BY <2>1, <3>7
  <2> QED BY <2>2, <2>3
<1>3. T \in SUBSET T
  OBVIOUS
<1> QED BY <1>2, <1>3

\* Multiplication distributes over addition.
LEMMA Distributes == ASSUME NEW a \in Nat, NEW b \in Nat, NEW k \in Nat
                     PROVE  a * k \in Nat /\ (a + b) * k = a * k + b * k
OBVIOUS

\* The sum of multiples.
LEMMA SumScaled ==
    ASSUME NEW D, NEW c \in [D -> Nat], NEW d \in [D -> Nat], NEW k \in Nat,
           NEW T \in SUBSET D, IsFiniteSet(T), \A t \in T : d[t] = c[t] * k
    PROVE  SumOf(d, T) = SumOf(c, T) * k
<1> DEFINE B == {s \in SUBSET T : SumOf(d, s) # SumOf(c, s) * k}
<1>1. \A s \in SUBSET T : IsFiniteSet(s) /\ s \in SUBSET D
  BY FS_Subset
<1>2. ASSUME B # {} PROVE FALSE
  <2>1. PICK s \in B : \A y \in s : s \ {y} \notin B
    BY <1>2, SmallestIsThere
  <2>2. CASE s = {}
    <3>1. SumOf(c, s) = 0 /\ SumOf(d, s) = 0
      BY <1>1, <2>2, SumStep
    <3> QED BY <2>1, <3>1
  <2>3. CASE s # {}
    <3>1. PICK f \in s : TRUE
      BY <2>3
    <3>2. /\ SumOf(c, s) = c[f] + SumOf(c, s \ {f})
          /\ SumOf(d, s) = d[f] + SumOf(d, s \ {f})
      BY <1>1, SumWithout
    <3>4. SumOf(d, s \ {f}) = SumOf(c, s \ {f}) * k
      BY <2>1, <3>1
    <3>5. SumOf(c, s \ {f}) \in Nat /\ c[f] \in Nat
      BY <1>1, <3>1, SumStep
    <3>6. (c[f] + SumOf(c, s \ {f})) * k = c[f] * k + SumOf(c, s \ {f}) * k
      BY <3>5, Distributes
    <3>7. d[f] = c[f] * k
      BY <3>1
    <3> QED BY <2>1, <3>2, <3>4, <3>6, <3>7
  <2> QED BY <2>2, <2>3
<1>3. T \in SUBSET T
  OBVIOUS
<1> QED BY <1>2, <1>3

\* A sum of nothing but zeros, and only that, is zero.
LEMMA SumIsZero ==
    ASSUME NEW D, NEW c \in [D -> Nat], NEW T \in SUBSET D, IsFiniteSet(T)
    PROVE  SumOf(c, T) = 0 <=> \A t \in T : c[t] = 0
<1>1. ASSUME NEW t \in T, SumOf(c, T) = 0 PROVE c[t] = 0
  <2>1. SumOf(c, T) = c[t] + SumOf(c, T \ {t})
    BY SumWithout
  <2>2. SumOf(c, T \ {t}) \in Nat /\ c[t] \in Nat
    BY FS_Subset, SumStep
  <2> QED BY <1>1, <2>1, <2>2
<1> QED BY <1>1, SumOfZeros

\* The sum over all is that over the classes of the sums in each.
LEMMA SumByClass ==
    ASSUME NEW D, NEW c \in [D -> Nat], NEW T \in SUBSET D, IsFiniteSet(T),
           NEW C, NEW g \in [T -> C], \A k \in C : \E t \in T : g[t] = k,
           NEW d \in [C -> Nat], \A k \in C : d[k] = SumOf(c, {t \in T : g[t] = k})
    PROVE  IsFiniteSet(C) /\ SumOf(d, C) = SumOf(c, T)
<1> DEFINE of(K) == {t \in T : g[t] \in K}
           B == {K \in SUBSET C : SumOf(d, K) # SumOf(c, of(K))}
<1>1. IsFiniteSet(C)
  <2>1. g \in Surjection(T, C)
    BY DEF Surjection
  <2> QED BY <2>1, FS_Surjection
<1>2. \A K \in SUBSET C : /\ IsFiniteSet(K) /\ of(K) \in SUBSET T /\ IsFiniteSet(of(K))
                          /\ of(K) \in SUBSET D
  BY <1>1, FS_Subset
<1>3. ASSUME B # {} PROVE FALSE
  <2>1. PICK K \in B : \A y \in K : K \ {y} \notin B
    BY <1>1, <1>3, SmallestIsThere
  <2>2. CASE K = {}
    <3>1. of(K) = {}
      BY <2>2
    <3>2. SumOf(d, K) = 0
      BY <1>2, <2>2, SumStep
    <3>3. SumOf(c, of(K)) = 0
      BY <1>2, <3>1, SumStep
    <3> QED BY <2>1, <3>2, <3>3
  <2>3. CASE K # {}
    <3>1. PICK k \in K : TRUE
      BY <2>3
    <3> DEFINE one == {t \in T : g[t] = k}
               rest == of(K \ {k})
    <3>2. SumOf(d, K) = d[k] + SumOf(d, K \ {k})
      BY <1>2, SumWithout
    <3>3. SumOf(d, K \ {k}) = SumOf(c, rest)
      BY <2>1, <3>1
    <3>4. d[k] = SumOf(c, one)
      BY <3>1
    <3>5. of(K) = one \cup rest /\ one \cap rest = {}
      BY <3>1
    <3>6. one \in SUBSET D /\ rest \in SUBSET D /\ IsFiniteSet(one) /\ IsFiniteSet(rest)
      <4>1. one \in SUBSET T
        OBVIOUS
      <4> QED BY <1>2, <4>1, FS_Subset
    <3> HIDE DEF one, rest
    <3>7. SumOf(c, one \cup rest) = SumOf(c, one) + SumOf(c, rest)
      BY <3>5, <3>6, SumOfParts
    <3> QED BY <2>1, <3>2, <3>3, <3>4, <3>5, <3>7
  <2> QED BY <2>2, <2>3
<1>4. C \in SUBSET C /\ of(C) = T
  OBVIOUS
<1> QED BY <1>1, <1>3, <1>4

-----------------------------------------------------------------------------
(* Products over a finite set.                                               *)

ProductOf(count, T) == FoldSet(LAMBDA t, p : count[t] * p, 1, T)
IsProduct(count, S, g) ==
    g = [s \in SUBSET S |-> IF s = {} THEN 1 ELSE count[First(s)] * g[s \ {First(s)}]]

\* A product of counts is a count.
LEMMA Times == ASSUME NEW a \in Nat, NEW b \in Nat PROVE a * b \in Nat
OBVIOUS

\* The recursion of a product has a solution.
LEMMA ProductIsThere ==
    ASSUME NEW D, NEW count \in [D -> Nat], NEW S \in SUBSET D, IsFiniteSet(S)
    PROVE  \E g \in [SUBSET S -> Nat] : IsProduct(count, S, g)
<1> DEFINE Small(n) == {s \in SUBSET S : Cardinality(s) <= n}
           Value(g, s) == IF s = {} THEN 1 ELSE count[First(s)] * g[s \ {First(s)}]
           Good(n, g) == /\ g \in [Small(n) -> Nat]
                         /\ \A s \in Small(n) : g[s] = Value(g, s)
           Bad == {n \in Nat : ~\E g : Good(n, g)}
<1>1. \A s \in SUBSET S : IsFiniteSet(s) /\ Cardinality(s) \in Nat
  BY FS_Subset, FS_CardinalityType
<1>2. \A s \in SUBSET S : s # {} => /\ First(s) \in s /\ count[First(s)] \in Nat
                                    /\ s \ {First(s)} \in SUBSET S
                                    /\ Cardinality(s \ {First(s)}) = Cardinality(s) - 1
  BY <1>1, FirstIsIn, FS_RemoveElement
<1>3. 0 \notin Bad
  <2> DEFINE g == [s \in Small(0) |-> 1]
  <2>1. \A s \in Small(0) : s = {}
    BY <1>1, FS_EmptySet
  <2>2. Good(0, g)
    BY <2>1
  <2> QED BY <2>2
<1>4. ASSUME NEW n \in Nat, n + 1 \in Bad PROVE n \in Bad
  <2> SUFFICES ASSUME NEW g, Good(n, g) PROVE FALSE
    OBVIOUS
  <2> DEFINE h == [s \in Small(n + 1) |-> Value(g, s)]
  <2>1. ASSUME NEW s \in Small(n + 1), s # {} PROVE s \ {First(s)} \in Small(n)
    BY <1>1, <1>2, <2>1
  <2>2. h \in [Small(n + 1) -> Nat]
    <3>1. ASSUME NEW s \in Small(n + 1) PROVE Value(g, s) \in Nat
      <4>1. CASE s = {}
        BY <4>1
      <4>2. CASE s # {}
        <5>1. count[First(s)] \in Nat /\ g[s \ {First(s)}] \in Nat
          BY <1>2, <2>1, <4>2
        <5>2. count[First(s)] * g[s \ {First(s)}] \in Nat
          BY <5>1, Times
        <5> QED BY <4>2, <5>2
      <4> QED BY <4>1, <4>2
    <3> HIDE DEF Value, Small
    <3> QED BY <3>1
  <2>3. \A s \in Small(n) : s \in Small(n + 1) /\ h[s] = g[s]
    BY <1>1
  <2>4. \A s \in Small(n + 1) : h[s] = Value(h, s)
    BY <2>1, <2>3
  <2>5. Good(n + 1, h)
    BY <2>2, <2>4
  <2> QED BY <2>5, <1>4
<1>5. Bad = {}
  <2> SUFFICES ASSUME Bad # {} PROVE FALSE
    OBVIOUS
  <2>1. PICK n \in Bad : \A m \in Bad : n <= m
    BY NaturalsHaveLeast
  <2>2. n \in Nat /\ n # 0
    BY <1>3
  <2>3. n - 1 \in Nat /\ (n - 1) + 1 = n
    BY <2>2
  <2>4. n - 1 \in Bad
    BY <1>4, <2>3
  <2>5. n <= n - 1
    BY <2>1, <2>4
  <2> HIDE DEF Bad
  <2> QED BY <2>2, <2>5
<1>6. PICK g : Good(Cardinality(S), g)
  BY <1>5, <1>1
<1>7. Small(Cardinality(S)) = SUBSET S
  BY FS_Subset
<1> QED BY <1>6, <1>7 DEF IsProduct

\* And any solution gives the product, also of fewer elements.
LEMMA ProductIsOne ==
    ASSUME NEW D, NEW count \in [D -> Nat], NEW S \in SUBSET D, IsFiniteSet(S),
           NEW g \in [SUBSET S -> Nat], IsProduct(count, S, g), NEW T \in SUBSET S
    PROVE  ProductOf(count, T) = g[T]
<1>1. IsFiniteSet(T)
  BY FS_Subset
<1> DEFINE h == CHOOSE f : IsProduct(count, T, f)
<1>2. ProductOf(count, T) = h[T]
  BY DEF ProductOf, IsProduct, FoldSet, MapThenFoldSet, First
<1>3. IsProduct(count, T, h)
  <2>1. \E f : IsProduct(count, T, f)
    <3>1. T \in SUBSET D
      OBVIOUS
    <3> QED BY <1>1, <3>1, ProductIsThere
  <2> QED BY <2>1, Zenon
<1> HIDE DEF h
<1> DEFINE B == {s \in SUBSET T : h[s] # g[s]}
<1>4. ASSUME B # {} PROVE FALSE
  <2>1. PICK s \in B : \A x \in s : s \ {x} \notin B
    BY <1>1, <1>4, SmallestIsThere
  <2>2. h[s] = IF s = {} THEN 1 ELSE count[First(s)] * h[s \ {First(s)}]
    BY <1>3 DEF IsProduct
  <2>3. g[s] = IF s = {} THEN 1 ELSE count[First(s)] * g[s \ {First(s)}]
    BY DEF IsProduct
  <2>4. s # {} => h[s \ {First(s)}] = g[s \ {First(s)}]
    BY <2>1, FirstIsIn
  <2> QED BY <2>1, <2>2, <2>3, <2>4
<1>5. T \in SUBSET T
  OBVIOUS
<1> QED BY <1>2, <1>4, <1>5

\* A product by its recursion.
LEMMA ProductStep ==
    ASSUME NEW D, NEW count \in [D -> Nat], NEW T \in SUBSET D, IsFiniteSet(T)
    PROVE  /\ ProductOf(count, T) \in Nat
           /\ T = {} => ProductOf(count, T) = 1
           /\ T # {} => ProductOf(count, T) = count[First(T)] * ProductOf(count, T \ {First(T)})
<1>1. PICK g \in [SUBSET T -> Nat] : IsProduct(count, T, g)
  BY ProductIsThere
<1>2. ASSUME NEW s \in SUBSET T PROVE ProductOf(count, s) = g[s]
  BY <1>1, ProductIsOne, Z3
<1>3. g[T] = IF T = {} THEN 1 ELSE count[First(T)] * g[T \ {First(T)}]
  BY <1>1 DEF IsProduct
<1>4. T \in SUBSET T /\ T \ {First(T)} \in SUBSET T
  OBVIOUS
<1> QED BY <1>1, <1>2, <1>3, <1>4

\* Factors can be swapped.
LEMMA Commutes == ASSUME NEW a \in Nat, NEW b \in Nat, NEW c \in Nat PROVE a * (b * c) = b * (a * c)
<1>1. ASSUME NEW x \in Int, NEW y \in Int, NEW z \in Int PROVE x * (y * z) = y * (x * z)
  BY Z3
<1> QED BY <1>1

\* Any element can be taken out of a product.
LEMMA ProductWithout ==
    ASSUME NEW D, NEW count \in [D -> Nat], NEW T \in SUBSET D, IsFiniteSet(T), NEW x \in T
    PROVE  ProductOf(count, T) = count[x] * ProductOf(count, T \ {x})
<1> DEFINE B == {s \in SUBSET T :
                   \E y \in s : ProductOf(count, s) # count[y] * ProductOf(count, s \ {y})}
<1>1. \A s \in SUBSET T : IsFiniteSet(s)
  BY FS_Subset
<1>2. ASSUME B # {} PROVE FALSE
  <2>1. PICK s \in B : \A y \in s : s \ {y} \notin B
    BY <1>2, SmallestIsThere
  <2>2. PICK y \in s : ProductOf(count, s) # count[y] * ProductOf(count, s \ {y})
    OBVIOUS
  <2> DEFINE f == First(s)
  <2>3. f \in s
    BY FirstIsIn
  <2>4. ProductOf(count, s) = count[f] * ProductOf(count, s \ {f})
    BY <1>1, ProductStep
  <2> HIDE DEF f
  <2>5. f # y
    BY <2>2, <2>4
  <2>6. ProductOf(count, s \ {f}) = count[y] * ProductOf(count, (s \ {f}) \ {y})
    <3>1. s \ {f} \notin B /\ y \in s \ {f} /\ s \ {f} \in SUBSET T
      BY <2>1, <2>3, <2>5
    <3> QED BY <3>1
  <2>7. ProductOf(count, s \ {y}) = count[f] * ProductOf(count, (s \ {y}) \ {f})
    <3>1. s \ {y} \notin B /\ f \in s \ {y} /\ s \ {y} \in SUBSET T
      BY <2>1, <2>3, <2>5
    <3> QED BY <3>1
  <2>8. (s \ {f}) \ {y} = (s \ {y}) \ {f}
    OBVIOUS
  <2>9. count[f] \in Nat /\ count[y] \in Nat /\ ProductOf(count, (s \ {y}) \ {f}) \in Nat
    <3>1. (s \ {y}) \ {f} \in SUBSET D /\ IsFiniteSet((s \ {y}) \ {f})
      BY <1>1
    <3> QED BY <3>1, <2>3, ProductStep
  <2> DEFINE rest == ProductOf(count, (s \ {y}) \ {f})
  <2>10. ProductOf(count, s) = count[f] * (count[y] * rest)
    BY <2>4, <2>6, <2>8
  <2>11. count[y] * ProductOf(count, s \ {y}) = count[y] * (count[f] * rest)
    BY <2>7
  <2>12. rest \in Nat /\ count[f] \in Nat /\ count[y] \in Nat
    BY <2>9
  <2> HIDE DEF rest, B
  <2>13. count[f] * (count[y] * rest) = count[y] * (count[f] * rest)
    BY <2>12, Commutes
  <2> QED BY <2>2, <2>10, <2>11, <2>13
<1> QED BY <1>2

\* Larger factors, larger product.
LEMMA ProductsOrdered ==
    ASSUME NEW a \in Nat, NEW b \in Nat, NEW x \in Nat, NEW y \in Nat, a <= x, b <= y
    PROVE  a * b <= x * y
<1>1. a * b <= x * b
  OBVIOUS
<1>2. x * b <= x * y
  OBVIOUS
<1>3. a * b \in Int /\ x * b \in Int /\ x * y \in Int
  OBVIOUS
<1> QED BY <1>1, <1>2, <1>3

\* A product over things of different classes, none of which counts more than its
\* class, is no more than that over all classes, each of which counts 1 at least.
LEMMA ProductBound ==
    ASSUME NEW D, NEW c \in [D -> Nat], NEW T \in SUBSET D, IsFiniteSet(T),
           NEW F, IsFiniteSet(F), NEW d \in [F -> Nat], \A k \in F : d[k] >= 1,
           NEW g \in [T -> F], \A x, y \in T : g[x] = g[y] => x = y,
           \A x \in T : c[x] <= d[g[x]]
    PROVE  ProductOf(c, T) <= ProductOf(d, F)
<1> DEFINE B == {s \in SUBSET T : \E K \in SUBSET F : (\A x \in s : g[x] \in K)
                                    /\ ~(ProductOf(c, s) <= ProductOf(d, K))}
           Z == {K \in SUBSET F : ~(1 <= ProductOf(d, K))}
<1>1. \A s \in SUBSET T : IsFiniteSet(s) /\ s \in SUBSET D
  BY FS_Subset
<1>2. \A K \in SUBSET F : IsFiniteSet(K)
  BY FS_Subset
<1>3. ASSUME Z # {} PROVE FALSE
  <2>1. PICK K \in Z : \A x \in K : K \ {x} \notin Z
    BY <1>3, SmallestIsThere
  <2>2. CASE K = {}
    <3>1. ProductOf(d, K) = 1
      BY <1>2, <2>2, ProductStep
    <3> QED BY <2>1, <3>1
  <2>3. CASE K # {}
    <3>1. PICK k \in K : TRUE
      BY <2>3
    <3>2. ProductOf(d, K) = d[k] * ProductOf(d, K \ {k})
      BY <1>2, ProductWithout
    <3>3. 1 <= ProductOf(d, K \ {k}) /\ 1 <= d[k]
      BY <2>1, <3>1
    <3>4. ProductOf(d, K \ {k}) \in Nat /\ d[k] \in Nat
      <4>1. K \ {k} \in SUBSET F /\ IsFiniteSet(K \ {k})
        BY <1>2
      <4> QED BY <4>1, ProductStep
    <3>5. 1 * 1 <= d[k] * ProductOf(d, K \ {k})
      BY <3>3, <3>4, ProductsOrdered
    <3>6. 1 <= ProductOf(d, K)
      <4> HIDE DEF Z
      <4> QED BY <3>2, <3>5
    <3> QED BY <2>1, <3>6
  <2> QED BY <2>2, <2>3
<1>4. ASSUME B # {} PROVE FALSE
  <2>1. PICK s \in B : \A x \in s : s \ {x} \notin B
    BY <1>4, SmallestIsThere
  <2>2. PICK K \in SUBSET F : (\A x \in s : g[x] \in K) /\ ~(ProductOf(c, s) <= ProductOf(d, K))
    OBVIOUS
  <2>3. CASE s = {}
    <3>1. ProductOf(c, s) = 1
      BY <1>1, <2>3, ProductStep
    <3> QED BY <1>3, <2>2, <3>1
  <2>4. CASE s # {}
    <3>1. PICK x \in s : TRUE
      BY <2>4
    <3> DEFINE k == g[x]
    <3>2. k \in K /\ k \in F /\ x \in T /\ c[x] <= d[k]
      BY <2>2, <3>1
    <3>3. \A y \in s \ {x} : g[y] \in K \ {k}
      BY <2>2, <3>1
    <3>4. ProductOf(c, s \ {x}) <= ProductOf(d, K \ {k})
      <4>1. s \ {x} \in SUBSET T /\ s \ {x} \notin B /\ K \ {k} \in SUBSET F
        BY <2>1, <3>1
      <4> HIDE DEF k
      <4> QED BY <3>3, <4>1
    <3> HIDE DEF k
    <3>5. ProductOf(c, s) = c[x] * ProductOf(c, s \ {x})
      BY <1>1, ProductWithout
    <3>6. ProductOf(d, K) = d[k] * ProductOf(d, K \ {k})
      BY <1>2, <3>2, ProductWithout
    <3>7. ProductOf(c, s \ {x}) \in Nat /\ ProductOf(d, K \ {k}) \in Nat /\ c[x] \in Nat /\ d[k] \in Nat
      <4>1. s \ {x} \in SUBSET D /\ IsFiniteSet(s \ {x}) /\ K \ {k} \in SUBSET F /\ IsFiniteSet(K \ {k})
        BY <1>1, <1>2
      <4>2. ProductOf(c, s \ {x}) \in Nat
        BY <4>1, ProductStep
      <4>3. ProductOf(d, K \ {k}) \in Nat
        BY <4>1, ProductStep
      <4> QED BY <3>2, <4>2, <4>3
    <3>8. c[x] * ProductOf(c, s \ {x}) <= d[k] * ProductOf(d, K \ {k})
      BY <3>2, <3>4, <3>7, ProductsOrdered
    <3> QED BY <2>2, <3>5, <3>6, <3>8
  <2> QED BY <2>3, <2>4
<1>5. T \in SUBSET T /\ F \in SUBSET F /\ \A x \in T : g[x] \in F
  OBVIOUS
<1> QED BY <1>4, <1>5

\* What satisfies the equation of a product is the product.
LEMMA ProductFound ==
    ASSUME NEW D, NEW count \in [D -> Nat], NEW S \in SUBSET D, IsFiniteSet(S), NEW w, IsProduct(count, S, w)
    PROVE  w[S] = ProductOf(count, S)
<1>1. PICK g \in [SUBSET S -> Nat] : IsProduct(count, S, g)
  BY ProductIsThere
<1>2. ProductOf(count, S) = g[S]
  BY <1>1, ProductIsOne, Z3
<1> DEFINE B == {s \in SUBSET S : w[s] # g[s]}
<1>3. ASSUME B # {} PROVE FALSE
  <2>1. PICK s \in B : \A x \in s : s \ {x} \notin B
    BY <1>3, SmallestIsThere
  <2>2. w[s] = IF s = {} THEN 1 ELSE count[First(s)] * w[s \ {First(s)}]
    BY DEF IsProduct
  <2>3. g[s] = IF s = {} THEN 1 ELSE count[First(s)] * g[s \ {First(s)}]
    BY <1>1 DEF IsProduct
  <2>4. s # {} => w[s \ {First(s)}] = g[s \ {First(s)}]
    BY <2>1, FirstIsIn
  <2> QED BY <2>1, <2>2, <2>3, <2>4
<1>4. S \in SUBSET S
  OBVIOUS
<1> QED BY <1>2, <1>3, <1>4

\* A finite set of numbers has a largest one.
LEMMA LargestOfFew ==
    ASSUME NEW S \in SUBSET Nat, IsFiniteSet(S), S # {}
    PROVE  Max(S) \in S /\ \A x \in S : x <= Max(S)
<1> DEFINE Has(s) == \E m \in s : \A x \in s : m >= x
           B == {s \in SUBSET S : s # {} /\ ~Has(s)}
<1>1. ASSUME B # {} PROVE FALSE
  <2>1. PICK s \in B : \A y \in s : s \ {y} \notin B
    BY <1>1, SmallestIsThere
  <2>2. PICK f \in s : TRUE
    OBVIOUS
  <2>3. CASE s \ {f} = {}
    <3>1. s = {f} /\ f \in Nat
      BY <2>2, <2>3
    <3>2. Has(s)
      BY <3>1
    <3> QED BY <2>1, <3>2
  <2>4. CASE s \ {f} # {}
    <3>1. Has(s \ {f})
      <4> HIDE DEF Has
      <4> QED BY <2>1, <2>2, <2>4
    <3>2. PICK m \in s \ {f} : \A x \in s \ {f} : m >= x
      BY <3>1
    <3>3. m \in Nat /\ f \in Nat /\ \A x \in s : x \in Nat
      BY <2>2
    <3>4. Has(s)
      <4>1. CASE m >= f
        BY <3>2, <4>1
      <4>2. CASE ~(m >= f)
        <5>1. \A x \in s : f >= x
          BY <3>2, <3>3, <4>2
        <5> QED BY <2>2, <5>1
      <4> QED BY <4>1, <4>2
    <3> QED BY <2>1, <3>4
  <2> QED BY <2>3, <2>4
<1>2. Has(S)
  <2>1. S \in SUBSET S
    OBVIOUS
  <2> HIDE DEF Has
  <2> QED BY <1>1, <2>1
<1>3. Max(S) \in S /\ \A x \in S : Max(S) >= x
  BY <1>2 DEF Max
<1> QED BY <1>3

-----------------------------------------------------------------------------
(* The limit on login attempts, for any numbers of sources and any limits.    *)

Since(start) == {t \in LoginTimes : t >= start}
JustBefore(start) == {t \in LoginTimes : t > start - LoginWindow /\ t < start}
Lately(now) == {t \in LoginTimes : t > now - LoginWindow}

(* What a window knows of the attempts it admitted: it counts those since it  *)
(* began, all of them in its span; of those that can still be recent when it  *)
(* begins no more than the limit are left, for they are of one window before. *)
Windowed(w, count, limit, now) ==
    /\ count \in [LoginTimes -> Nat]
    /\ \A t \in LoginTimes : t > now => count[t] = 0
    /\ w # NoWindow =>
          /\ w \in [started : 0 .. now, seen : 0 .. now, attempts : 0 .. limit]
          /\ SumOf(count, Since(w.started)) = w.attempts
          /\ SumOf(count, JustBefore(w.started)) <= limit
          /\ \A t \in LoginTimes : t >= w.started + LoginWindow => count[t] = 0
    /\ w = NoWindow =>
          /\ \A t \in LoginTimes : t >= now => count[t] = 0
          /\ SumOf(count, Lately(now)) <= limit

LEMMA TimesAreFinite ==
    \A T \in SUBSET LoginTimes : IsFiniteSet(T)
<1>1. 0 \in Int /\ MaxLoginTime \in Int
  BY LimiterAssumption
<1>2. IsFiniteSet(LoginTimes)
  BY <1>1, FS_Interval DEF LoginTimes
<1> QED BY <1>2, FS_Subset

LEMMA SpansAreTimes ==
    ASSUME NEW t
    PROVE  Since(t) \in SUBSET LoginTimes /\ JustBefore(t) \in SUBSET LoginTimes
           /\ Lately(t) \in SUBSET LoginTimes
BY DEF Since, JustBefore, Lately

LEMMA WindowTicks ==
    ASSUME NEW w, NEW count, NEW limit \in Nat, NEW now \in Nat,
           Windowed(w, count, limit, now)
    PROVE  Windowed(w, count, limit, now + 1)
<1>1. count \in [LoginTimes -> Nat] /\ \A t \in LoginTimes : t > now => count[t] = 0
  BY DEF Windowed
<1>2. \A t \in LoginTimes : t > now + 1 => count[t] = 0
  BY <1>1 DEF LoginTimes
<1>3. ASSUME w # NoWindow
      PROVE  w \in [started : 0 .. now + 1, seen : 0 .. now + 1, attempts : 0 .. limit]
  <2>1. w \in [started : 0 .. now, seen : 0 .. now, attempts : 0 .. limit]
    BY <1>3 DEF Windowed
  <2>2. 0 .. now \subseteq 0 .. now + 1
    OBVIOUS
  <2> QED BY <2>1, <2>2
<1>4. ASSUME w = NoWindow
      PROVE  /\ \A t \in LoginTimes : t >= now + 1 => count[t] = 0
             /\ SumOf(count, Lately(now + 1)) <= limit
  <2>1. SumOf(count, Lately(now)) <= limit
    BY <1>4 DEF Windowed
  <2>2. Lately(now + 1) \in SUBSET Lately(now)
    BY LimiterAssumption DEF Lately, LoginTimes
  <2>3. /\ SumOf(count, Lately(now + 1)) <= SumOf(count, Lately(now))
        /\ SumOf(count, Lately(now + 1)) \in Nat /\ SumOf(count, Lately(now)) \in Nat
    BY <1>1, <2>2, SpansAreTimes, TimesAreFinite, SumGrows
  <2>4. \A t \in LoginTimes : t >= now + 1 => count[t] = 0
    BY <1>1 DEF LoginTimes
  <2> QED BY <2>1, <2>3, <2>4
<1> QED BY <1>1, <1>2, <1>3, <1>4 DEF Windowed

LEMMA WindowLapses ==
    ASSUME NEW w, NEW count, NEW limit \in Nat, NEW now \in Nat,
           Windowed(w, count, limit, now), w = NoWindow \/ now - w.started >= LoginWindow
    PROVE  Windowed(NoWindow, count, limit, now)
<1>1. CASE w = NoWindow
  BY <1>1
<1>2. CASE w # NoWindow
  <2>1. /\ w.started \in 0 .. now /\ w.attempts \in 0 .. limit
        /\ now >= w.started + LoginWindow
        /\ count \in [LoginTimes -> Nat] /\ \A t \in LoginTimes : t > now => count[t] = 0
        /\ SumOf(count, Since(w.started)) = w.attempts
        /\ \A t \in LoginTimes : t >= w.started + LoginWindow => count[t] = 0
    BY <1>2, LimiterAssumption DEF Windowed
  <2>2. \A t \in LoginTimes : t >= now => count[t] = 0
    BY <2>1, LimiterAssumption DEF LoginTimes
  <2>3. Lately(now) \in SUBSET Since(w.started)
    BY <2>1, LimiterAssumption DEF Lately, Since, LoginTimes
  <2>4. /\ SumOf(count, Lately(now)) <= SumOf(count, Since(w.started))
        /\ SumOf(count, Lately(now)) \in Nat
    BY <2>1, <2>3, SpansAreTimes, TimesAreFinite, SumGrows
  <2>5. SumOf(count, Lately(now)) <= limit
    BY <2>1, <2>4
  <2> QED BY <2>1, <2>2, <2>5 DEF Windowed
<1> QED BY <1>1, <1>2

LEMMA WindowOpens ==
    ASSUME NEW count, NEW limit \in Nat, NEW now \in Nat,
           Windowed(NoWindow, count, limit, now)
    PROVE  Windowed(Fresh(now), count, limit, now) /\ Fresh(now) # NoWindow
<1>1. /\ count \in [LoginTimes -> Nat] /\ \A t \in LoginTimes : t > now => count[t] = 0
      /\ \A t \in LoginTimes : t >= now => count[t] = 0
      /\ SumOf(count, Lately(now)) <= limit
  BY DEF Windowed
<1>2. /\ Fresh(now) \in [started : 0 .. now, seen : 0 .. now, attempts : 0 .. limit]
      /\ Fresh(now).started = now /\ Fresh(now).attempts = 0
  BY DEF Fresh
<1>3. SumOf(count, Since(now)) = 0
  <2>1. \A t \in Since(now) : count[t] = 0
    BY <1>1 DEF Since
  <2> QED BY <1>1, <2>1, SpansAreTimes, TimesAreFinite, SumOfZeros
<1>4. SumOf(count, JustBefore(now)) <= limit
  <2>1. JustBefore(now) \in SUBSET Lately(now)
    BY DEF JustBefore, Lately
  <2>2. /\ SumOf(count, JustBefore(now)) <= SumOf(count, Lately(now))
        /\ SumOf(count, JustBefore(now)) \in Nat /\ SumOf(count, Lately(now)) \in Nat
    BY <1>1, <2>1, SpansAreTimes, TimesAreFinite, SumGrows
  <2> QED BY <1>1, <2>2
<1>5. \A t \in LoginTimes : t >= now + LoginWindow => count[t] = 0
  BY <1>1, LimiterAssumption DEF LoginTimes
<1>6. Fresh(now) # NoWindow
  <2>1. NoWindow.started = -1
    BY DEF NoWindow
  <2>2. now # -1
    OBVIOUS
  <2> QED BY <1>2, <2>1, <2>2
<1> QED BY <1>1, <1>2, <1>3, <1>4, <1>5, <1>6 DEF Windowed

\* A window that is asked in vain only remembers when.
LEMMA WindowIsSeen ==
    ASSUME NEW w, NEW count, NEW limit \in Nat, NEW now \in Nat,
           Windowed(w, count, limit, now), w # NoWindow
    PROVE  /\ Windowed([w EXCEPT !.seen = now], count, limit, now)
           /\ [w EXCEPT !.seen = now] # NoWindow
<1> DEFINE v == [w EXCEPT !.seen = now]
<1>1. w \in [started : 0 .. now, seen : 0 .. now, attempts : 0 .. limit]
  BY DEF Windowed
<1>2. v \in [started : 0 .. now, seen : 0 .. now, attempts : 0 .. limit]
  BY <1>1
<1>3. v.started = w.started /\ v.attempts = w.attempts
  BY <1>1
<1>4. v # NoWindow
  <2>1. NoWindow.started = -1
    BY DEF NoWindow
  <2> HIDE DEF v
  <2>2. v.started \in 0 .. now
    BY <1>2
  <2>3. v.started # -1
    BY <2>2
  <2> QED BY <2>1, <2>3
<1> HIDE DEF v
<1>5. Windowed(v, count, limit, now)
  BY <1>2, <1>3, <1>4 DEF Windowed
<1> QED BY <1>4, <1>5 DEF v

LEMMA WindowAdmits ==
    ASSUME NEW w, NEW count, NEW limit \in Nat, NEW now \in LoginTimes,
           Windowed(w, count, limit, now), w # NoWindow,
           now - w.started < LoginWindow, w.attempts < limit
    PROVE  /\ Windowed([w EXCEPT !.attempts = @ + 1, !.seen = now],
                       [count EXCEPT ![now] = @ + 1], limit, now)
           /\ [w EXCEPT !.attempts = @ + 1, !.seen = now] # NoWindow
<1> DEFINE v == [w EXCEPT !.attempts = @ + 1, !.seen = now]
           more == [count EXCEPT ![now] = @ + 1]
<1>1. /\ w \in [started : 0 .. now, seen : 0 .. now, attempts : 0 .. limit]
      /\ count \in [LoginTimes -> Nat] /\ \A t \in LoginTimes : t > now => count[t] = 0
      /\ SumOf(count, Since(w.started)) = w.attempts
      /\ SumOf(count, JustBefore(w.started)) <= limit
      /\ \A t \in LoginTimes : t >= w.started + LoginWindow => count[t] = 0
  BY DEF Windowed
<1>2. now \in Nat /\ w.started \in Nat /\ w.started <= now /\ LoginWindow \in Nat
      /\ w.attempts \in Nat
  BY <1>1, LimiterAssumption DEF LoginTimes
<1>3. v.started = w.started /\ v.attempts = w.attempts + 1 /\ v.seen = now
      /\ v \in [started : 0 .. now, seen : 0 .. now, attempts : 0 .. limit]
  <2>1. w.attempts + 1 \in 0 .. limit /\ now \in 0 .. now
    BY <1>2
  <2> QED BY <1>1, <2>1
<1>4. more \in [LoginTimes -> Nat] /\ more[now] = count[now] + 1
      /\ \A t \in LoginTimes \ {now} : more[t] = count[t]
  BY <1>1
<1>5. \A T \in SUBSET LoginTimes :
          SumOf(more, T) = SumOf(count, T) + (IF now \in T THEN 1 ELSE 0)
  <2> HIDE DEF more
  <2> TAKE T \in SUBSET LoginTimes
  <2>1. IsFiniteSet(T)
    BY TimesAreFinite
  <2>2. count \in [LoginTimes -> Nat]
    BY <1>1
  <2> QED BY <1>4, <2>1, <2>2, SumBumped
<1>6. SumOf(more, Since(w.started)) = w.attempts + 1
  <2>1. now \in Since(w.started)
    BY <1>2 DEF Since
  <2> QED BY <1>1, <1>5, <2>1, SpansAreTimes
<1>7. SumOf(more, JustBefore(w.started)) <= limit
  <2>1. now \notin JustBefore(w.started)
    BY <1>2 DEF JustBefore
  <2>2. SumOf(count, JustBefore(w.started)) \in Nat
    BY <1>1, SpansAreTimes, TimesAreFinite, SumStep
  <2>3. SumOf(more, JustBefore(w.started)) = SumOf(count, JustBefore(w.started)) + 0
    BY <1>5, <2>1, SpansAreTimes
  <2> QED BY <1>1, <2>2, <2>3
<1>8. \A t \in LoginTimes : t > now => more[t] = 0
  <2> TAKE t \in LoginTimes
  <2>1. t > now => t # now
    BY DEF LoginTimes
  <2> QED BY <1>1, <1>4, <2>1
<1>9. \A t \in LoginTimes : t >= w.started + LoginWindow => more[t] = 0
  <2> TAKE t \in LoginTimes
  <2>1. t >= w.started + LoginWindow => t # now
    BY <1>2 DEF LoginTimes
  <2> QED BY <1>1, <1>4, <2>1
<1>10. v # NoWindow
  <2>1. NoWindow.started = -1
    BY DEF NoWindow
  <2>2. v.started # -1
    BY <1>2, <1>3
  <2> QED BY <2>1, <2>2
<1> HIDE DEF v, more
<1>11. Windowed(v, more, limit, now)
  BY <1>3, <1>4, <1>6, <1>7, <1>8, <1>9, <1>10 DEF Windowed
<1> QED BY <1>10, <1>11 DEF v, more

LEMMA WindowIsEmpty ==
    ASSUME NEW limit \in Nat, NEW now \in Nat
    PROVE  Windowed(NoWindow, NoAttempts, limit, now)
<1>1. NoAttempts \in [LoginTimes -> Nat] /\ \A t \in LoginTimes : NoAttempts[t] = 0
  BY DEF NoAttempts
<1>2. SumOf(NoAttempts, Lately(now)) = 0
  <2>1. \A t \in Lately(now) : NoAttempts[t] = 0
    BY <1>1, SpansAreTimes
  <2> QED BY <1>1, <2>1, SpansAreTimes, TimesAreFinite, SumOfZeros
<1> QED BY <1>1, <1>2 DEF Windowed

LEMMA WindowsBound ==
    ASSUME NEW w, NEW count, NEW limit \in Nat, NEW now \in Nat,
           Windowed(w, count, limit, now)
    PROVE  SumOf(count, Lately(now)) <= 2 * limit
<1>1. count \in [LoginTimes -> Nat]
  BY DEF Windowed
<1>2. SumOf(count, Lately(now)) \in Nat
  BY <1>1, SpansAreTimes, TimesAreFinite, SumStep
<1>3. CASE w = NoWindow
  <2>1. SumOf(count, Lately(now)) <= limit
    BY <1>3 DEF Windowed
  <2> QED BY <1>2, <2>1
<1>4. CASE w # NoWindow
  <2> DEFINE b == JustBefore(w.started)
             s == Since(w.started)
  <2>1. /\ w.started \in 0 .. now /\ w.attempts \in 0 .. limit
        /\ SumOf(count, s) = w.attempts /\ SumOf(count, b) <= limit
    BY <1>4 DEF Windowed
  <2>2. b \cap s = {} /\ Lately(now) \in SUBSET (b \cup s)
    BY <2>1, LimiterAssumption DEF JustBefore, Since, Lately, LoginTimes
  <2>3. b \in SUBSET LoginTimes /\ s \in SUBSET LoginTimes /\ b \cup s \in SUBSET LoginTimes
        /\ IsFiniteSet(b) /\ IsFiniteSet(s) /\ IsFiniteSet(b \cup s)
    BY SpansAreTimes, TimesAreFinite
  <2> HIDE DEF b, s
  <2>4. SumOf(count, b \cup s) = SumOf(count, b) + SumOf(count, s)
    BY <1>1, <2>2, <2>3, SumOfParts
  <2>5. SumOf(count, Lately(now)) <= SumOf(count, b \cup s)
    BY <1>1, <2>2, <2>3, SumGrows
  <2>6. SumOf(count, b) \in Nat /\ SumOf(count, s) \in Nat
    BY <1>1, <2>3, SumStep
  <2> QED BY <1>2, <2>1, <2>4, <2>5, <2>6
<1> QED BY <1>3, <1>4

-----------------------------------------------------------------------------
LimiterTyped ==
    /\ loginClock \in LoginTimes
    /\ sources = [s \in Sources |-> sources[s]]
    /\ failures \in [Sources -> [LoginTimes -> Nat]]

EveryoneWindowed == Windowed(globalTry, admitted, GlobalLimit, loginClock)
EachWindowed ==
    \A s \in Sources : Windowed(sources[s], failures[s], PerSourceLimit, loginClock)

LimiterInv ==
    LimiterTyped /\ EveryoneWindowed /\ EachWindowed
    /\ IsFiniteSet(Known(sources)) /\ TableIsBounded

LEMMA LimiterStarts == LimiterInit => LimiterInv
<1> SUFFICES ASSUME LimiterInit PROVE LimiterInv
  OBVIOUS
<1> USE DEF LimiterInit
<1>1. /\ loginClock \in LoginTimes /\ loginClock \in Nat
      /\ PerSourceLimit \in Nat /\ GlobalLimit \in Nat /\ MaxSources \in Nat
  BY LimiterAssumption DEF LoginTimes
<1>2. LimiterTyped
  <2>1. NoAttempts \in [LoginTimes -> Nat]
    BY DEF NoAttempts
  <2>2. sources = [s \in Sources |-> sources[s]]
    OBVIOUS
  <2> QED BY <1>1, <2>1, <2>2 DEF LimiterTyped
<1>3. EveryoneWindowed
  BY <1>1, WindowIsEmpty DEF EveryoneWindowed
<1>4. EachWindowed
  BY <1>1, WindowIsEmpty DEF EachWindowed
<1>5. Known(sources) = {}
  BY DEF Known
<1> QED BY <1>1, <1>2, <1>3, <1>4, <1>5, FS_EmptySet DEF LimiterInv, TableIsBounded

LEMMA LimiterKeeps == LimiterInv /\ [LimiterNext]_limiterVars => LimiterInv'
<1> SUFFICES ASSUME LimiterInv, [LimiterNext]_limiterVars PROVE LimiterInv'
  OBVIOUS
<1>1. /\ loginClock \in LoginTimes /\ loginClock \in Nat
      /\ PerSourceLimit \in Nat /\ GlobalLimit \in Nat /\ MaxSources \in Nat
      /\ GlobalLimit > 0 /\ PerSourceLimit > 0 /\ MaxSources > 0
      /\ LoginWindow \in Nat /\ LoginWindow > 0
  BY LimiterAssumption DEF LimiterInv, LimiterTyped, LoginTimes
<1>2. /\ sources = [s \in Sources |-> sources[s]]
      /\ failures \in [Sources -> [LoginTimes -> Nat]]
      /\ EveryoneWindowed /\ EachWindowed
      /\ IsFiniteSet(Known(sources)) /\ Cardinality(Known(sources)) <= MaxSources
  BY DEF LimiterInv, LimiterTyped, TableIsBounded
<1>3. ASSUME UNCHANGED limiterVars PROVE LimiterInv'
  <2> USE <1>3 DEF limiterVars
  <2>1. LimiterTyped' /\ EveryoneWindowed' /\ EachWindowed'
    BY DEF LimiterInv, LimiterTyped, EveryoneWindowed, EachWindowed
  <2>2. Known(sources') = Known(sources)
    BY DEF Known
  <2> QED BY <1>2, <2>1, <2>2 DEF LimiterInv, TableIsBounded
<1>4. ASSUME LoginTick PROVE LimiterInv'
  <2> USE <1>4 DEF LoginTick
  <2>1. loginClock' = loginClock + 1 /\ loginClock' \in LoginTimes
    BY <1>1, LimiterAssumption DEF LoginTimes
  <2>2. LimiterTyped'
    <3>1. sources' = [s \in Sources |-> sources'[s]]
      BY <1>2
    <3> QED BY <1>2, <2>1, <3>1 DEF LimiterTyped
  <2>3. Windowed(globalTry, admitted, GlobalLimit, loginClock + 1)
    BY <1>1, <1>2, WindowTicks DEF EveryoneWindowed
  <2>4. \A s \in Sources : Windowed(sources[s], failures[s], PerSourceLimit, loginClock + 1)
    BY <1>1, <1>2, WindowTicks DEF EachWindowed
  <2>5. EveryoneWindowed' /\ EachWindowed'
    BY <2>1, <2>3, <2>4 DEF EveryoneWindowed, EachWindowed
  <2>6. Known(sources') = Known(sources)
    BY DEF Known
  <2> QED BY <1>2, <2>2, <2>5, <2>6 DEF LimiterInv, TableIsBounded
<1>5. ASSUME NEW s \in Sources, Reset(s) PROVE LimiterInv'
  <2> USE <1>5 DEF Reset
  <2>1. LimiterTyped'
    <3>1. sources' = [k \in Sources |-> sources'[k]]
      BY <1>2
    <3>2. NoAttempts \in [LoginTimes -> Nat]
      BY DEF NoAttempts
    <3>3. failures' \in [Sources -> [LoginTimes -> Nat]]
      BY <1>2, <3>2
    <3> QED BY <1>1, <3>1, <3>3 DEF LimiterTyped
  <2>2. EveryoneWindowed'
    BY <1>2 DEF EveryoneWindowed
  <2>3. ASSUME NEW k \in Sources
        PROVE  Windowed(sources'[k], failures'[k], PerSourceLimit, loginClock')
    <3>1. CASE k = s
      <4>1. sources'[k] = NoWindow /\ failures'[k] = NoAttempts /\ loginClock' = loginClock
        BY <1>2, <3>1
      <4> QED BY <1>1, <4>1, WindowIsEmpty
    <3>2. CASE k # s
      <4>1. sources'[k] = sources[k] /\ failures'[k] = failures[k] /\ loginClock' = loginClock
        BY <1>2, <3>2
      <4> QED BY <1>2, <4>1 DEF EachWindowed
    <3> QED BY <3>1, <3>2
  <2>4. EachWindowed'
    BY <2>3 DEF EachWindowed
  <2>5. Known(sources') \in SUBSET Known(sources)
    BY <1>2 DEF Known
  <2>6. /\ IsFiniteSet(Known(sources')) /\ Cardinality(Known(sources')) <= MaxSources
    <3>1. /\ IsFiniteSet(Known(sources')) /\ Cardinality(Known(sources')) <= Cardinality(Known(sources))
      BY <1>2, <2>5, FS_Subset
    <3>2. Cardinality(Known(sources')) \in Nat /\ Cardinality(Known(sources)) \in Nat
      BY <1>2, <3>1, FS_CardinalityType
    <3> QED BY <1>1, <1>2, <3>1, <3>2
  <2> QED BY <2>1, <2>2, <2>4, <2>6 DEF LimiterInv, TableIsBounded
<1>6. ASSUME NEW s \in Sources, Allow(s) PROVE LimiterInv'
  <2>1. loginClock' = loginClock
    BY <1>6 DEF Allow
  <2>2. Windowed(CurrentGlobal, admitted, GlobalLimit, loginClock) /\ CurrentGlobal # NoWindow
        /\ loginClock - CurrentGlobal.started < LoginWindow
    <3>1. CASE globalTry = NoWindow \/ Over(globalTry)
      <4>1. CurrentGlobal = Fresh(loginClock) /\ Fresh(loginClock).started = loginClock
        BY <3>1 DEF CurrentGlobal, Fresh
      <4>2. globalTry = NoWindow \/ loginClock - globalTry.started >= LoginWindow
        BY <3>1 DEF Over
      <4>3. Windowed(NoWindow, admitted, GlobalLimit, loginClock)
        BY <1>1, <1>2, <4>2, WindowLapses DEF EveryoneWindowed
      <4>4. loginClock - loginClock < LoginWindow
        BY <1>1
      <4> QED BY <1>1, <4>1, <4>3, <4>4, WindowOpens
    <3>2. CASE ~(globalTry = NoWindow \/ Over(globalTry))
      <4>1. CurrentGlobal = globalTry
        BY <3>2 DEF CurrentGlobal
      <4>2. globalTry.started \in 0 .. loginClock
        BY <1>2, <3>2 DEF EveryoneWindowed, Windowed
      <4>3. loginClock - globalTry.started < LoginWindow
        BY <1>1, <3>2, <4>2 DEF Over
      <4> QED BY <1>2, <3>2, <4>1, <4>3 DEF EveryoneWindowed
    <3> QED BY <3>1, <3>2
  <2>3. /\ Unexpired = [k \in Sources |-> Unexpired[k]]
        /\ \A k \in Sources : Unexpired[k] = IF Over(sources[k]) THEN NoWindow ELSE sources[k]
    BY DEF Unexpired
  <2>4. ASSUME NEW k \in Sources
        PROVE  /\ Windowed(Unexpired[k], failures[k], PerSourceLimit, loginClock)
               /\ Unexpired[k] # NoWindow => loginClock - Unexpired[k].started < LoginWindow
    <3>1. Windowed(sources[k], failures[k], PerSourceLimit, loginClock)
      BY <1>2 DEF EachWindowed
    <3>2. CASE Over(sources[k])
      <4>1. loginClock - sources[k].started >= LoginWindow
        BY <3>2 DEF Over
      <4> QED BY <1>1, <2>3, <3>1, <3>2, <4>1, WindowLapses
    <3>3. CASE ~Over(sources[k])
      <4>1. sources[k] # NoWindow => sources[k].started \in 0 .. loginClock
        BY <3>1 DEF Windowed
      <4>2. sources[k] # NoWindow => loginClock - sources[k].started < LoginWindow
        BY <1>1, <3>3, <4>1 DEF Over
      <4> QED BY <2>3, <3>1, <3>3, <4>2
    <3> QED BY <3>2, <3>3
  <2>5. Known(Unexpired) \in SUBSET Known(sources)
    BY <2>3 DEF Known
  <2>6. /\ IsFiniteSet(Known(Unexpired)) /\ Cardinality(Known(Unexpired)) <= MaxSources
        /\ Cardinality(Known(Unexpired)) \in Nat
    <3>1. IsFiniteSet(Known(Unexpired))
          /\ Cardinality(Known(Unexpired)) <= Cardinality(Known(sources))
      BY <1>2, <2>5, FS_Subset
    <3>2. Cardinality(Known(Unexpired)) \in Nat /\ Cardinality(Known(sources)) \in Nat
      BY <1>2, <3>1, FS_CardinalityType
    <3> QED BY <1>1, <1>2, <3>1, <3>2
  <2>7. ASSUME CurrentGlobal.attempts >= GlobalLimit PROVE LimiterInv'
    <3>1. sources' = Unexpired /\ globalTry' = CurrentGlobal
          /\ admitted' = admitted /\ failures' = failures
      BY <1>6, <2>7 DEF Allow
    <3>2. LimiterTyped'
      <4>1. sources' = [k \in Sources |-> sources'[k]]
        BY <2>3, <3>1
      <4> QED BY <1>1, <1>2, <2>1, <3>1, <4>1 DEF LimiterTyped
    <3>3. EveryoneWindowed' /\ EachWindowed'
      BY <2>1, <2>2, <2>4, <3>1 DEF EveryoneWindowed, EachWindowed
    <3> QED BY <2>6, <3>1, <3>2, <3>3 DEF LimiterInv, TableIsBounded
  <2>8. ASSUME CurrentGlobal.attempts < GlobalLimit,
               NEW table \in Capacity(Unexpired, s)
        PROVE  /\ table = [k \in Sources |-> table[k]]
               /\ \A k \in Sources : table[k] \in {Unexpired[k], NoWindow}
               /\ IsFiniteSet(Known(table) \cup {s})
               /\ Cardinality(Known(table) \cup {s}) <= MaxSources
    <3>1. CASE Unexpired[s] # NoWindow
      <4>1. table = Unexpired
        BY <3>1 DEF Capacity
      <4>2. Known(table) \cup {s} = Known(Unexpired)
        BY <3>1, <4>1 DEF Known
      <4> QED BY <2>3, <2>6, <4>1, <4>2
    <3>2. CASE Unexpired[s] = NoWindow /\ Cardinality(Known(Unexpired)) < MaxSources
      <4>1. table = Unexpired
        BY <3>2 DEF Capacity
      <4>2. IsFiniteSet(Known(Unexpired) \cup {s})
            /\ Cardinality(Known(Unexpired) \cup {s}) = Cardinality(Known(Unexpired)) + 1
        <5>1. s \notin Known(Unexpired)
          BY <3>2 DEF Known
        <5> QED BY <2>6, <5>1, FS_AddElement
      <4>3. Cardinality(Known(Unexpired) \cup {s}) \in Nat
        BY <4>2, FS_CardinalityType
      <4>4. Cardinality(Known(Unexpired) \cup {s}) <= MaxSources
        BY <1>1, <2>6, <3>2, <4>2, <4>3
      <4> QED BY <2>3, <4>1, <4>2, <4>4
    <3>3. CASE Unexpired[s] = NoWindow /\ ~(Cardinality(Known(Unexpired)) < MaxSources)
      <4>1. PICK o \in Known(Unexpired) : table = [Unexpired EXCEPT ![o] = NoWindow]
        BY <2>8, <3>3 DEF Capacity
      <4>2. o \in Sources
        BY DEF Known
      <4>3. table = [k \in Sources |-> IF k = o THEN NoWindow ELSE Unexpired[k]]
        BY <2>3, <4>1, <4>2
      <4>4. Known(table) = Known(Unexpired) \ {o}
        BY <4>3 DEF Known
      <4>5. IsFiniteSet(Known(table)) /\ Cardinality(Known(table)) = Cardinality(Known(Unexpired)) - 1
        <5> DEFINE K == Known(Unexpired)
        <5>1. IsFiniteSet(K) /\ o \in K
          BY <2>6
        <5> HIDE DEF K
        <5>2. IsFiniteSet(K \ {o}) /\ Cardinality(K \ {o}) = Cardinality(K) - 1
          BY <5>1, FS_RemoveElement
        <5> QED BY <4>4, <5>2 DEF K
      <4>6. IsFiniteSet(Known(table) \cup {s})
            /\ Cardinality(Known(table) \cup {s})
                 = IF s \in Known(table) THEN Cardinality(Known(table))
                   ELSE Cardinality(Known(table)) + 1
        BY <4>5, FS_AddElement
      <4>7. Cardinality(Known(table) \cup {s}) <= MaxSources
        BY <1>1, <2>6, <4>5, <4>6
      <4> QED BY <4>3, <4>6, <4>7
    <3> QED BY <3>1, <3>2, <3>3
  <2> DEFINE kept(table, k) ==
               IF Unexpired[k] # NoWindow /\ table[k] = NoWindow THEN NoAttempts ELSE failures[k]
             opened(table) == IF table[s] = NoWindow THEN Fresh(loginClock) ELSE table[s]
  <2>9. ASSUME NEW table, \A k \in Sources : table[k] \in {Unexpired[k], NoWindow},
               NEW k \in Sources
        PROVE  /\ Windowed(table[k], kept(table, k), PerSourceLimit, loginClock)
               /\ table[k] # NoWindow => loginClock - table[k].started < LoginWindow
               /\ kept(table, k) \in [LoginTimes -> Nat]
    <3>1. CASE Unexpired[k] # NoWindow /\ table[k] = NoWindow
      <4>1. kept(table, k) = NoAttempts
        BY <3>1
      <4>2. Windowed(table[k], NoAttempts, PerSourceLimit, loginClock)
        BY <1>1, <3>1, WindowIsEmpty
      <4>3. NoAttempts \in [LoginTimes -> Nat]
        BY DEF NoAttempts
      <4> QED BY <3>1, <4>1, <4>2, <4>3
    <3>2. CASE ~(Unexpired[k] # NoWindow /\ table[k] = NoWindow)
      <4>1. kept(table, k) = failures[k] /\ table[k] = Unexpired[k]
        BY <2>9, <3>2
      <4>2. failures[k] \in [LoginTimes -> Nat]
        BY <1>2
      <4> HIDE DEF kept
      <4> QED BY <2>4, <4>1, <4>2
    <3> QED BY <3>1, <3>2
  <2>10. ASSUME CurrentGlobal.attempts < GlobalLimit,
                NEW table \in Capacity(Unexpired, s)
         PROVE  /\ Windowed(opened(table), failures[s], PerSourceLimit, loginClock)
                /\ opened(table) # NoWindow
                /\ loginClock - opened(table).started < LoginWindow
    <3>1. /\ Windowed(table[s], kept(table, s), PerSourceLimit, loginClock)
          /\ table[s] # NoWindow => loginClock - table[s].started < LoginWindow
      BY <2>8, <2>9, <2>10
    <3>2. table[s] = Unexpired[s]
      <4>1. CASE Unexpired[s] = NoWindow
        BY <2>8, <2>10, <4>1
      <4>2. CASE Unexpired[s] # NoWindow
        BY <4>2 DEF Capacity
      <4> QED BY <4>1, <4>2
    <3>3. kept(table, s) = failures[s]
      BY <3>2
    <3>4. CASE table[s] = NoWindow
      <4>1. opened(table) = Fresh(loginClock) /\ Fresh(loginClock).started = loginClock
        BY <3>4 DEF Fresh
      <4>2. loginClock - loginClock < LoginWindow
        BY <1>1
      <4> HIDE DEF opened, kept
      <4> QED BY <1>1, <3>1, <3>3, <3>4, <4>1, <4>2, WindowOpens
    <3>5. CASE table[s] # NoWindow
      <4>1. opened(table) = table[s]
        BY <3>5
      <4> HIDE DEF opened, kept
      <4> QED BY <3>1, <3>3, <3>5, <4>1
    <3> QED BY <3>4, <3>5
  <2>11. ASSUME NEW table \in Capacity(Unexpired, s), CurrentGlobal.attempts < GlobalLimit,
                NEW w, w # NoWindow, sources' = [table EXCEPT ![s] = w]
         PROVE  /\ sources' = [k \in Sources |-> IF k = s THEN w ELSE table[k]]
                /\ IsFiniteSet(Known(sources')) /\ Cardinality(Known(sources')) <= MaxSources
    <3>1. table = [k \in Sources |-> table[k]]
      BY <2>8, <2>11
    <3>2. sources' = [k \in Sources |-> IF k = s THEN w ELSE table[k]]
      BY <2>11, <3>1
    <3>3. Known(sources') = Known(table) \cup {s}
      BY <2>11, <3>2 DEF Known
    <3> QED BY <2>8, <2>11, <3>2, <3>3
  <2>12. ASSUME ~(CurrentGlobal.attempts >= GlobalLimit),
                NEW table \in Capacity(Unexpired, s),
                opened(table).attempts >= PerSourceLimit,
                sources' = [table EXCEPT ![s] = [opened(table) EXCEPT !.seen = loginClock]],
                globalTry' = CurrentGlobal, UNCHANGED <<admitted, failures>>
         PROVE  LimiterInv'
    <3>1. CurrentGlobal.attempts < GlobalLimit
      <4>1. CurrentGlobal.attempts \in 0 .. GlobalLimit
        BY <2>2 DEF Windowed
      <4> QED BY <1>1, <2>12, <4>1
    <3>0. table = Unexpired
      <4>1. table[s] # NoWindow
        <5>1. Fresh(loginClock).attempts = 0
          BY DEF Fresh
        <5>2. ~(0 >= PerSourceLimit)
          BY <1>1
        <5> QED BY <2>12, <5>1, <5>2
      <4>2. table[s] \in {Unexpired[s], NoWindow}
        BY <2>8, <3>1
      <4>3. Unexpired[s] # NoWindow
        BY <4>1, <4>2
      <4> QED BY <4>3 DEF Capacity
    <3> DEFINE w == [opened(table) EXCEPT !.seen = loginClock]
    <3>2. Windowed(w, failures[s], PerSourceLimit, loginClock) /\ w # NoWindow
      <4> HIDE DEF opened
      <4> QED BY <1>1, <2>10, <3>1, WindowIsSeen
    <3>2a. sources' = [table EXCEPT ![s] = w]
      BY <2>12
    <3> HIDE DEF w, opened
    <3>3. /\ sources' = [k \in Sources |-> IF k = s THEN w ELSE table[k]]
          /\ IsFiniteSet(Known(sources')) /\ Cardinality(Known(sources')) <= MaxSources
      BY <2>11, <3>1, <3>2, <3>2a
    <3>4. LimiterTyped'
      <4>1. sources' = [k \in Sources |-> sources'[k]]
        BY <3>3
      <4> QED BY <1>1, <1>2, <2>1, <2>12, <4>1 DEF LimiterTyped
    <3>5. EveryoneWindowed'
      BY <2>1, <2>2, <2>12 DEF EveryoneWindowed
    <3>6. ASSUME NEW k \in Sources
          PROVE  Windowed(sources'[k], failures'[k], PerSourceLimit, loginClock')
      <4>1. failures'[k] = failures[k] /\ loginClock' = loginClock
        BY <2>1, <2>12
      <4>2. CASE k = s
        <5>1. sources'[k] = w
          BY <3>3, <4>2
        <5> QED BY <3>2, <4>1, <4>2, <5>1
      <4>3. CASE k # s
        <5>1. sources'[k] = table[k]
          BY <3>3, <4>3
        <5>2. Windowed(Unexpired[k], failures[k], PerSourceLimit, loginClock)
          BY <2>4
        <5> QED BY <3>0, <4>1, <5>1, <5>2
      <4> QED BY <4>2, <4>3
    <3>7. EachWindowed'
      BY <3>6 DEF EachWindowed
    <3> QED BY <3>3, <3>4, <3>5, <3>7 DEF LimiterInv, TableIsBounded
  <2>13. ASSUME ~(CurrentGlobal.attempts >= GlobalLimit),
                NEW table \in Capacity(Unexpired, s),
                ~(opened(table).attempts >= PerSourceLimit),
                Admit(s, table, opened(table))
         PROVE  LimiterInv'
    <3>1. CurrentGlobal.attempts < GlobalLimit
      <4>1. CurrentGlobal.attempts \in 0 .. GlobalLimit
        BY <2>2 DEF Windowed
      <4> QED BY <1>1, <2>13, <4>1
    <3> DEFINE w == [opened(table) EXCEPT !.attempts = @ + 1, !.seen = loginClock]
               more == [failures[s] EXCEPT ![loginClock] = @ + 1]
               g == [CurrentGlobal EXCEPT !.attempts = @ + 1, !.seen = loginClock]
               all == [admitted EXCEPT ![loginClock] = @ + 1]
    <3>2. Windowed(w, more, PerSourceLimit, loginClock) /\ w # NoWindow
      <4> HIDE DEF opened
      <4>1. /\ Windowed(opened(table), failures[s], PerSourceLimit, loginClock)
            /\ opened(table) # NoWindow
            /\ loginClock - opened(table).started < LoginWindow
        BY <2>10, <3>1
      <4>2. opened(table).attempts \in 0 .. PerSourceLimit
        BY <4>1 DEF Windowed
      <4>3. opened(table).attempts < PerSourceLimit
        BY <1>1, <2>13, <4>2
      <4> QED BY <1>1, <4>1, <4>3, WindowAdmits
    <3>3. Windowed(g, all, GlobalLimit, loginClock)
      BY <1>1, <2>2, <3>1, WindowAdmits
    <3>4. /\ sources' = [table EXCEPT ![s] = w] /\ globalTry' = g /\ admitted' = all
          /\ failures' = [k \in Sources |-> IF k = s THEN more ELSE kept(table, k)]
      BY <2>13 DEF Admit
    <3>5. more \in [LoginTimes -> Nat]
      BY <3>2 DEF Windowed
    <3> HIDE DEF w, opened, g, all, more, kept
    <3>6. /\ sources' = [k \in Sources |-> IF k = s THEN w ELSE table[k]]
          /\ IsFiniteSet(Known(sources')) /\ Cardinality(Known(sources')) <= MaxSources
      BY <2>11, <3>1, <3>2, <3>4
    <3>7. \A k \in Sources : /\ Windowed(table[k], kept(table, k), PerSourceLimit, loginClock)
                             /\ kept(table, k) \in [LoginTimes -> Nat]
      BY <2>8, <2>9, <3>1
    <3>8. LimiterTyped'
      <4>1. sources' = [k \in Sources |-> sources'[k]]
        BY <3>6
      <4>2. failures' \in [Sources -> [LoginTimes -> Nat]]
        BY <3>4, <3>5, <3>7
      <4> QED BY <1>1, <2>1, <4>1, <4>2 DEF LimiterTyped
    <3>9. EveryoneWindowed'
      BY <2>1, <3>3, <3>4 DEF EveryoneWindowed
    <3>10. ASSUME NEW k \in Sources
           PROVE  Windowed(sources'[k], failures'[k], PerSourceLimit, loginClock')
      <4>1. CASE k = s
        <5>1. sources'[k] = w /\ failures'[k] = more
          BY <3>4, <3>6, <4>1
        <5> QED BY <2>1, <3>2, <5>1
      <4>2. CASE k # s
        <5>1. sources'[k] = table[k] /\ failures'[k] = kept(table, k)
          BY <3>4, <3>6, <4>2
        <5> QED BY <2>1, <3>7, <5>1
      <4> QED BY <4>1, <4>2
    <3>11. EachWindowed'
      BY <3>10 DEF EachWindowed
    <3> QED BY <3>6, <3>8, <3>9, <3>11 DEF LimiterInv, TableIsBounded
  <2>14. ASSUME ~(CurrentGlobal.attempts >= GlobalLimit) PROVE LimiterInv'
    <3>1. PICK table \in Capacity(Unexpired, s) :
             IF opened(table).attempts >= PerSourceLimit
             THEN /\ sources' = [table EXCEPT ![s] = [opened(table) EXCEPT !.seen = loginClock]]
                  /\ globalTry' = CurrentGlobal /\ UNCHANGED <<admitted, failures>>
             ELSE Admit(s, table, opened(table))
      BY <1>6, <2>14 DEF Allow
    <3> HIDE DEF opened
    <3>2. CASE opened(table).attempts >= PerSourceLimit
      BY <2>12, <2>14, <3>1, <3>2
    <3>3. CASE ~(opened(table).attempts >= PerSourceLimit)
      BY <2>13, <2>14, <3>1, <3>3
    <3> QED BY <3>2, <3>3
  <2>15. CASE CurrentGlobal.attempts >= GlobalLimit
    BY <2>7, <2>15
  <2> QED BY <2>14, <2>15
<1> QED BY <1>3, <1>4, <1>5, <1>6 DEF LimiterNext

LEMMA LimiterFits == LimiterInv => GuessingIsBounded
<1> SUFFICES ASSUME LimiterInv PROVE GuessingIsBounded
  OBVIOUS
<1>1. loginClock \in Nat /\ GlobalLimit \in Nat /\ PerSourceLimit \in Nat
  BY LimiterAssumption DEF LimiterInv, LimiterTyped, LoginTimes
<1>2. \A count : Recent(count) = SumOf(count, Lately(loginClock))
  BY DEF Recent, SumOf, Lately
<1>3. SumOf(admitted, Lately(loginClock)) <= 2 * GlobalLimit
  BY <1>1, WindowsBound DEF LimiterInv, EveryoneWindowed
<1>4. \A s \in Sources : SumOf(failures[s], Lately(loginClock)) <= 2 * PerSourceLimit
  BY <1>1, WindowsBound DEF LimiterInv, EachWindowed
<1>5. AttemptsAreBounded
  BY <1>2, <1>3, <1>4 DEF AttemptsAreBounded
<1> QED BY <1>5 DEF LimiterInv, GuessingIsBounded

(* Whatever sources try, succeed, or are forgotten: in any window of time no  *)
(* more than twice the limit of attempts goes through, for one source and for *)
(* all, and the table of sources keeps its size (loginLimiter.allow, reset).  *)
THEOREM GuessingStaysBounded == LimiterSpec => []GuessingIsBounded
<1>1. LimiterSpec => []LimiterInv
  BY LimiterStarts, LimiterKeeps, PTL DEF LimiterSpec
<1> QED BY <1>1, LimiterFits, PTL

-----------------------------------------------------------------------------
(* The local ranking, for any months, keys and days.                          *)

Cells == RankedDays \X RankedKeys
CellsOf(m, k) == {q \in Cells : Month(q[1]) = m /\ q[2] = k}
Complete(rows) == [p \in Cells |-> ValueAt(rows, p)]
MonthCount(rows, m, k) == SumOf(Complete(rows), CellsOf(m, k))

LocalTyped ==
    /\ rankedDay \in RankedDays
    /\ eventsOf \in [Cells -> Nat]
    /\ round = [pc |-> round.pc, day |-> round.day, late |-> round.late]
    /\ round.pc \in {"idle", "state", "settle", "today"}
    /\ memory = [loaded |-> memory.loaded, settled |-> memory.settled, day |-> memory.day,
                 seen |-> memory.seen]
    /\ storedSettled \in Int /\ -1 <= storedSettled /\ storedSettled < rankedDay

(* a round works on a day that has begun and is not settled, and nothing is   *)
(* counted of a later one                                                     *)
RoundFits ==
    /\ round.pc # "idle" =>
          /\ round.day \in RankedDays /\ round.day <= rankedDay /\ storedSettled < round.day
          /\ \A p \in DOMAIN lastCounted : p[1] <= round.day
    /\ round.pc \in {"settle", "today"} => memory.loaded
    /\ memory.loaded => memory.settled = storedSettled /\ storedSettled >= 0

(* The rows of days are what was counted last, as long as they are there; as  *)
(* long as the leaderboard shows a month its row is the sum of its days, rows *)
(* that were pruned included; and a day that is not settled has its row.      *)
TablesFit ==
    /\ lastCounted \in [DOMAIN lastCounted -> Nat] /\ DOMAIN lastCounted \subseteq Cells
    /\ dayStats \in [DOMAIN dayStats -> Nat] /\ monthStats \in [DOMAIN monthStats -> Nat]
    /\ DOMAIN monthStats \subseteq Int \X RankedKeys
    /\ \A p \in DOMAIN lastCounted : p[1] <= rankedDay
    /\ \A p \in DOMAIN dayStats : p \in DOMAIN lastCounted /\ dayStats[p] = lastCounted[p]
    /\ ~missedDay =>
          /\ \A p \in DOMAIN lastCounted : p[1] > storedSettled => p \in DOMAIN dayStats
          /\ \A m \in Int, k \in RankedKeys : m >= Month(rankedDay) - 1 =>
                ValueAt(monthStats, <<m, k>>) = MonthCount(lastCounted, m, k)

LocalInv == LocalTyped /\ RoundFits /\ TablesFit

LEMMA MonthsGrow ==
    ASSUME NEW a \in Int, NEW b \in Int, a <= b
    PROVE  Month(a) \in Int /\ Month(b) \in Int /\ Month(a) <= Month(b)
<1> DEFINE n == MonthDays
           q == (a - 1) \div n
           r == (b - 1) \div n
<1>1. n \in Nat /\ n > 0
  BY LocalRankingAssumption
<1>2. q \in Int /\ q * n <= a - 1
  BY <1>1
<1>3. r \in Int /\ b - 1 < (r + 1) * n
  BY <1>1
<1>4. q <= r
  <2> HIDE DEF q, r, n
  <2> SUFFICES ASSUME q >= r + 1 PROVE FALSE
    BY <1>2, <1>3
  <2>1. q * n >= (r + 1) * n
    BY <1>1, <1>2, <1>3
  <2>2. q * n \in Int /\ (r + 1) * n \in Int
    BY <1>1, <1>2, <1>3
  <2> QED BY <1>2, <1>3, <2>1, <2>2
<1> QED BY <1>2, <1>3, <1>4 DEF Month

LEMMA CellsAreFinite ==
    ASSUME NEW m, NEW k \in RankedKeys
    PROVE  CellsOf(m, k) \in SUBSET Cells /\ IsFiniteSet(CellsOf(m, k))
<1>1. IsFiniteSet(RankedDays)
  BY LocalRankingAssumption, FS_Interval DEF RankedDays
<1>2. IsFiniteSet({k})
  BY FS_Singleton
<1>3. IsFiniteSet(RankedDays \X {k})
  BY <1>1, <1>2, FS_Product
<1>4. CellsOf(m, k) \in SUBSET (RankedDays \X {k})
  BY DEF CellsOf, Cells
<1>5. IsFiniteSet(CellsOf(m, k))
  BY <1>3, <1>4, FS_Subset
<1> QED BY <1>5 DEF CellsOf

LEMMA CompleteIsTyped ==
    ASSUME NEW rows, rows \in [DOMAIN rows -> Nat]
    PROVE  /\ Complete(rows) \in [Cells -> Nat]
           /\ \A p \in Cells : Complete(rows)[p] = ValueAt(rows, p)
           /\ \A p : ValueAt(rows, p) \in Nat
<1>1. \A p : ValueAt(rows, p) \in Nat
  BY DEF ValueAt
<1> QED BY <1>1 DEF Complete

\* Rows that are absent count nothing.
LEMMA AbsentCountNothing ==
    ASSUME NEW rows, rows \in [DOMAIN rows -> Nat], DOMAIN rows \subseteq Cells,
           NEW m, NEW k \in RankedKeys
    PROVE  SumOf(rows, {q \in DOMAIN rows : Month(q[1]) = m /\ q[2] = k})
              = MonthCount(rows, m, k)
<1> DEFINE T == {q \in DOMAIN rows : Month(q[1]) = m /\ q[2] = k}
           S == CellsOf(m, k)
           V == Complete(rows)
<1>1. S \in SUBSET Cells /\ IsFiniteSet(S)
  BY CellsAreFinite
<1>2. V \in [Cells -> Nat] /\ \A p \in Cells : V[p] = ValueAt(rows, p)
  BY CompleteIsTyped
<1>3. T \in SUBSET S
  BY DEF CellsOf
<1>4. T \in SUBSET (DOMAIN rows \cap Cells) /\ \A q \in T : rows[q] = V[q]
  BY <1>2 DEF ValueAt
<1>5. \A q \in S \ T : V[q] = 0
  BY <1>2 DEF CellsOf, ValueAt
<1>6. IsFiniteSet(T) /\ IsFiniteSet(S \ T) /\ T \cap (S \ T) = {} /\ T \cup (S \ T) = S
  BY <1>1, <1>3, FS_Subset
<1> HIDE DEF T, S, V
<1>7. SumOf(rows, T) = SumOf(V, T)
  BY <1>2, <1>4, <1>6, SumAgrees
<1>8. SumOf(V, S \ T) = 0
  <2>1. S \ T \in SUBSET Cells
    BY <1>1
  <2> QED BY <1>2, <1>5, <1>6, <2>1, SumOfZeros
<1>9. SumOf(V, T \cup (S \ T)) = SumOf(V, T) + SumOf(V, S \ T)
  <2>1. T \in SUBSET Cells /\ S \ T \in SUBSET Cells
    BY <1>1, <1>3
  <2> QED BY <1>2, <1>6, <2>1, SumOfParts
<1>10. SumOf(V, T) \in Nat
  <2>1. T \in SUBSET Cells
    BY <1>1, <1>3
  <2> QED BY <1>2, <1>6, <2>1, SumStep
<1>11. SumOf(V, S) = SumOf(V, T)
  BY <1>6, <1>8, <1>9, <1>10
<1> QED BY <1>7, <1>11 DEF MonthCount, T, S, V

\* A month changes by what one of its days changes.
LEMMA MonthChangesByADay ==
    ASSUME NEW old, old \in [DOMAIN old -> Nat], NEW new, new \in [DOMAIN new -> Nat],
           NEW d \in RankedDays, NEW k \in RankedKeys, NEW m,
           \A q \in Cells : q[1] # d => ValueAt(new, q) = ValueAt(old, q)
    PROVE  /\ MonthCount(old, m, k) \in Nat /\ MonthCount(new, m, k) \in Nat
           /\ m # Month(d) => MonthCount(new, m, k) = MonthCount(old, m, k)
           /\ m = Month(d) =>
                /\ ValueAt(old, <<d, k>>) <= MonthCount(old, m, k)
                /\ MonthCount(new, m, k)
                     = MonthCount(old, m, k) - ValueAt(old, <<d, k>>) + ValueAt(new, <<d, k>>)
<1> DEFINE V == Complete(old)
           W == Complete(new)
           S == CellsOf(m, k)
           x == <<d, k>>
<1>1. S \in SUBSET Cells /\ IsFiniteSet(S)
  BY CellsAreFinite
<1>2. V \in [Cells -> Nat] /\ \A p \in Cells : V[p] = ValueAt(old, p)
  BY CompleteIsTyped
<1>3. W \in [Cells -> Nat] /\ \A p \in Cells : W[p] = ValueAt(new, p)
  BY CompleteIsTyped
<1>4. x \in Cells /\ (m = Month(d) => x \in S)
  BY DEF Cells, CellsOf
<1>5. \A q \in S : q \in Cells /\ (q[1] = d => q = x /\ m = Month(d))
  BY DEF Cells, CellsOf
<1>6. \A q \in S : (q # x \/ m # Month(d)) => V[q] = W[q]
  BY <1>2, <1>3, <1>5
<1>7. MonthCount(old, m, k) = SumOf(V, S) /\ MonthCount(new, m, k) = SumOf(W, S)
  BY DEF MonthCount
<1>8. V[x] = ValueAt(old, x) /\ W[x] = ValueAt(new, x)
  BY <1>2, <1>3, <1>4
<1> HIDE DEF V, W, S
<1>9. SumOf(V, S) \in Nat /\ SumOf(W, S) \in Nat
  BY <1>1, <1>2, <1>3, SumStep
<1>10. ASSUME m # Month(d) PROVE SumOf(V, S) = SumOf(W, S)
  <2>1. \A q \in S : V[q] = W[q]
    BY <1>6, <1>10
  <2>2. S \in SUBSET (Cells \cap Cells)
    BY <1>1
  <2> QED BY <1>1, <1>2, <1>3, <2>1, <2>2, SumAgrees
<1>11. ASSUME m = Month(d)
       PROVE  V[x] <= SumOf(V, S) /\ SumOf(W, S) = SumOf(V, S) - V[x] + W[x]
  <2>1. x \in S
    BY <1>4, <1>11
  <2>2. SumOf(V, S) = V[x] + SumOf(V, S \ {x})
    BY <1>1, <1>2, <2>1, SumWithout
  <2>3. SumOf(W, S) = W[x] + SumOf(W, S \ {x})
    BY <1>1, <1>3, <2>1, SumWithout
  <2>4. S \ {x} \in SUBSET (Cells \cap Cells) /\ S \ {x} \in SUBSET Cells /\ IsFiniteSet(S \ {x})
    BY <1>1, FS_Subset
  <2>5. \A q \in S \ {x} : V[q] = W[q]
    BY <1>6
  <2>6. SumOf(V, S \ {x}) = SumOf(W, S \ {x})
    BY <1>2, <1>3, <2>4, <2>5, SumAgrees
  <2>7. SumOf(V, S \ {x}) \in Nat /\ V[x] \in Nat /\ W[x] \in Nat
    BY <1>2, <1>3, <1>4, <2>4, SumStep
  <2> QED BY <2>2, <2>3, <2>6, <2>7
<1> QED BY <1>7, <1>8, <1>9, <1>10, <1>11

LEMMA WrittenIsBoth ==
    ASSUME NEW f, f \in [DOMAIN f -> Nat], NEW g, g \in [DOMAIN g -> Nat]
    PROVE  /\ DOMAIN Written(f, g) = DOMAIN f \cup DOMAIN g
           /\ Written(f, g) \in [DOMAIN Written(f, g) -> Nat]
           /\ \A p : ValueAt(Written(f, g), p)
                       = IF p \in DOMAIN g THEN g[p] ELSE ValueAt(f, p)
           /\ \A p \in DOMAIN Written(f, g) :
                 Written(f, g)[p] = IF p \in DOMAIN g THEN g[p] ELSE f[p]
<1> DEFINE w == Written(f, g)
<1>1. /\ w = [p \in DOMAIN f \cup DOMAIN g |-> IF p \in DOMAIN g THEN g[p] ELSE f[p]]
  BY DEF Written
<1> HIDE DEF w
<1>2. DOMAIN w = DOMAIN f \cup DOMAIN g
  BY <1>1
<1>3. \A p \in DOMAIN w : w[p] = IF p \in DOMAIN g THEN g[p] ELSE f[p]
  BY <1>1
<1>4. w \in [DOMAIN w -> Nat]
  BY <1>1
<1>5. ASSUME NEW p PROVE ValueAt(w, p) = IF p \in DOMAIN g THEN g[p] ELSE ValueAt(f, p)
  BY <1>2, <1>3 DEF ValueAt
<1> QED BY <1>2, <1>3, <1>4, <1>5 DEF w

\* Replacing a day that is not settled leaves the tables in agreement.
LEMMA ReplacingFits ==
    ASSUME LocalInv, NEW d \in RankedDays, round.pc \in {"settle", "today"},
           storedSettled < d, d <= round.day,
           NEW prune \in BOOLEAN, NEW settled \in Int, storedSettled <= settled,
           storedSettled' = settled, rankedDay' = rankedDay,
           ReplaceDay(d, round.day, Aggregated(d), prune, settled)
    PROVE  TablesFit' /\ \A p \in DOMAIN lastCounted' : p[1] <= round.day
<1> DEFINE counts == Aggregated(d)
           dayRows == [p \in {<<d, k>> : k \in DOMAIN counts} |-> counts[p[2]]]
           days == Written(dayStats, dayRows)
           monthRows == [p \in {<<Month(d), k>> : k \in DOMAIN counts} |->
                           Contribution(ValueAt(monthStats, p), ValueAt(dayStats, <<d, p[2]>>),
                                        counts[p[2]])]
           months == Written(monthStats, monthRows)
           last == Written(lastCounted, dayRows)
           kept(f, periods) == [p \in {q \in DOMAIN f : ~prune \/ q[1] \in periods} |-> f[p]]
<1>1. /\ dayStats' = kept(days, KeptDays(round.day))
      /\ monthStats' = kept(months, KeptMonths(round.day))
      /\ lastCounted' = last
      /\ missedDay' = (missedDay \/ \E p \in DOMAIN days \ DOMAIN dayStats' : p[1] > settled)
  BY DEF ReplaceDay
<1>2. /\ DOMAIN counts \subseteq RankedKeys /\ counts \in [DOMAIN counts -> Nat]
  BY DEF LocalInv, LocalTyped, Aggregated, Cells
<1>3. /\ rankedDay \in Int /\ round.day \in Int /\ d \in Int /\ storedSettled \in Int
      /\ round.day <= rankedDay /\ round.day \in RankedDays
      /\ \A p \in DOMAIN lastCounted : p[1] <= round.day
  BY DEF LocalInv, LocalTyped, RoundFits, RankedDays
<1>4. /\ lastCounted \in [DOMAIN lastCounted -> Nat] /\ DOMAIN lastCounted \subseteq Cells
      /\ dayStats \in [DOMAIN dayStats -> Nat] /\ monthStats \in [DOMAIN monthStats -> Nat]
      /\ DOMAIN monthStats \subseteq Int \X RankedKeys
      /\ \A p \in DOMAIN dayStats : p \in DOMAIN lastCounted /\ dayStats[p] = lastCounted[p]
      /\ ~missedDay =>
          /\ \A p \in DOMAIN lastCounted : p[1] > storedSettled => p \in DOMAIN dayStats
          /\ \A m \in Int, k \in RankedKeys : m >= Month(rankedDay) - 1 =>
                ValueAt(monthStats, <<m, k>>) = MonthCount(lastCounted, m, k)
  BY DEF LocalInv, TablesFit
<1>5. /\ DOMAIN dayRows = {<<d, k>> : k \in DOMAIN counts}
      /\ dayRows \in [DOMAIN dayRows -> Nat] /\ DOMAIN dayRows \subseteq Cells
      /\ \A k \in DOMAIN counts : dayRows[<<d, k>>] = counts[k]
  BY <1>2 DEF Cells
<1>6. \A a, b, c \in Nat : Contribution(a, b, c) \in Nat
                        /\ (b <= a => Contribution(a, b, c) = a - b + c)
  <2> TAKE a, b, c \in Nat
  <2>1. Min({a, b}) = IF a <= b THEN a ELSE b
    BY DEF Min
  <2> QED BY <2>1 DEF Contribution
<1>7. \A p : ValueAt(monthStats, p) \in Nat /\ ValueAt(dayStats, p) \in Nat
  BY <1>4 DEF ValueAt
<1>8. /\ DOMAIN monthRows = {<<Month(d), k>> : k \in DOMAIN counts}
      /\ monthRows \in [DOMAIN monthRows -> Nat]
      /\ \A k \in DOMAIN counts :
            monthRows[<<Month(d), k>>]
              = Contribution(ValueAt(monthStats, <<Month(d), k>>), ValueAt(dayStats, <<d, k>>),
                             counts[k])
  <2>1. /\ DOMAIN monthRows = {<<Month(d), k>> : k \in DOMAIN counts}
        /\ \A k \in DOMAIN counts :
            monthRows[<<Month(d), k>>]
              = Contribution(ValueAt(monthStats, <<Month(d), k>>), ValueAt(dayStats, <<d, k>>),
                             counts[k])
    OBVIOUS
  <2>2. \A k \in DOMAIN counts : monthRows[<<Month(d), k>>] \in Nat
    BY <1>2, <1>6, <1>7, <2>1
  <2>3. \A p \in DOMAIN monthRows : monthRows[p] \in Nat
    BY <2>1, <2>2
  <2> QED BY <2>1, <2>3
<1> HIDE DEF counts, dayRows, monthRows
<1>9. /\ DOMAIN last = DOMAIN lastCounted \cup DOMAIN dayRows
      /\ last \in [DOMAIN last -> Nat]
      /\ \A p : ValueAt(last, p) = IF p \in DOMAIN dayRows THEN dayRows[p]
                                   ELSE ValueAt(lastCounted, p)
      /\ \A p \in DOMAIN last : last[p] = IF p \in DOMAIN dayRows THEN dayRows[p]
                                          ELSE lastCounted[p]
  BY <1>4, <1>5, WrittenIsBoth
<1>10. /\ DOMAIN days = DOMAIN dayStats \cup DOMAIN dayRows
       /\ days \in [DOMAIN days -> Nat]
       /\ \A p \in DOMAIN days : days[p] = IF p \in DOMAIN dayRows THEN dayRows[p]
                                           ELSE dayStats[p]
  BY <1>4, <1>5, WrittenIsBoth
<1>11. /\ DOMAIN months = DOMAIN monthStats \cup DOMAIN monthRows
       /\ months \in [DOMAIN months -> Nat]
       /\ \A p : ValueAt(months, p) = IF p \in DOMAIN monthRows THEN monthRows[p]
                                      ELSE ValueAt(monthStats, p)
  BY <1>4, <1>8, WrittenIsBoth
<1> HIDE DEF days, months, last
<1>12. /\ DOMAIN dayStats' = {q \in DOMAIN days : ~prune \/ q[1] \in KeptDays(round.day)}
       /\ dayStats' \in [DOMAIN dayStats' -> Nat]
       /\ \A p \in DOMAIN dayStats' : dayStats'[p] = days[p]
  BY <1>1, <1>10
<1>13. /\ DOMAIN monthStats' = {q \in DOMAIN months : ~prune \/ q[1] \in KeptMonths(round.day)}
       /\ monthStats' \in [DOMAIN monthStats' -> Nat]
       /\ \A p : ValueAt(monthStats', p)
                   = IF ~prune \/ p[1] \in KeptMonths(round.day) THEN ValueAt(months, p) ELSE 0
  <2>1. /\ DOMAIN monthStats' = {q \in DOMAIN months : ~prune \/ q[1] \in KeptMonths(round.day)}
        /\ monthStats' \in [DOMAIN monthStats' -> Nat]
        /\ \A p \in DOMAIN monthStats' : monthStats'[p] = months[p]
    BY <1>1, <1>11
  <2> QED BY <2>1 DEF ValueAt
<1>14. \A p \in DOMAIN last : p[1] <= round.day /\ p \in Cells
  BY <1>3, <1>4, <1>5, <1>9
<1>15. \A p \in DOMAIN dayStats' : p \in DOMAIN last /\ dayStats'[p] = last[p]
  BY <1>4, <1>9, <1>10, <1>12
<1>16. ASSUME ~missedDay', NEW p \in DOMAIN last, p[1] > settled
       PROVE  p \in DOMAIN dayStats'
  <2>1. p \in DOMAIN days
    <3>1. p[1] \in Int
      BY <1>14 DEF Cells, RankedDays
    <3>2. p[1] > storedSettled
      BY <1>3, <1>16, <3>1
    <3> QED BY <1>1, <1>4, <1>9, <1>10, <1>16, <3>2
  <2> QED BY <1>1, <1>16, <2>1
<1>17. ASSUME ~missedDay', NEW m \in Int, NEW k \in RankedKeys, m >= Month(rankedDay) - 1
       PROVE  ValueAt(monthStats', <<m, k>>) = MonthCount(last, m, k)
  <2>1. ~missedDay
    BY <1>1, <1>17
  <2>2. ValueAt(monthStats, <<m, k>>) = MonthCount(lastCounted, m, k)
    BY <1>4, <1>17, <2>1
  <2>3. \A q \in Cells : q[1] # d => ValueAt(last, q) = ValueAt(lastCounted, q)
    BY <1>5, <1>9
  <2>4. /\ MonthCount(lastCounted, m, k) \in Nat /\ MonthCount(last, m, k) \in Nat
        /\ m # Month(d) => MonthCount(last, m, k) = MonthCount(lastCounted, m, k)
        /\ m = Month(d) =>
             /\ ValueAt(lastCounted, <<d, k>>) <= MonthCount(lastCounted, m, k)
             /\ MonthCount(last, m, k)
                  = MonthCount(lastCounted, m, k) - ValueAt(lastCounted, <<d, k>>)
                      + ValueAt(last, <<d, k>>)
    BY <1>4, <1>9, <2>3, MonthChangesByADay
  <2>5. ValueAt(dayStats, <<d, k>>) = ValueAt(lastCounted, <<d, k>>)
    BY <1>4, <2>1 DEF ValueAt
  <2>6. ValueAt(months, <<m, k>>) = MonthCount(last, m, k)
    <3>1. CASE <<m, k>> \in DOMAIN monthRows
      <4>1. m = Month(d) /\ k \in DOMAIN counts
        BY <1>8, <3>1
      <4>2. ValueAt(months, <<m, k>>)
              = Contribution(ValueAt(monthStats, <<m, k>>), ValueAt(dayStats, <<d, k>>), counts[k])
        BY <1>8, <1>11, <3>1, <4>1
      <4>3. ValueAt(last, <<d, k>>) = counts[k] /\ counts[k] \in Nat
        BY <1>2, <1>5, <1>9, <4>1
      <4>4. ValueAt(lastCounted, <<d, k>>) \in Nat
        BY <1>4 DEF ValueAt
      <4>5. ValueAt(months, <<m, k>>)
              = MonthCount(lastCounted, m, k) - ValueAt(lastCounted, <<d, k>>) + counts[k]
        <5> DEFINE a == MonthCount(lastCounted, m, k)
                   b == ValueAt(lastCounted, <<d, k>>)
        <5>1. a \in Nat /\ b \in Nat /\ b <= a /\ counts[k] \in Nat
          BY <2>4, <4>1, <4>3, <4>4
        <5>2. ValueAt(months, <<m, k>>) = Contribution(a, b, counts[k])
          BY <2>2, <2>5, <4>2
        <5> HIDE DEF a, b
        <5>3. Contribution(a, b, counts[k]) = a - b + counts[k]
          BY <1>6, <5>1
        <5>4. ValueAt(months, <<m, k>>) = a - b + counts[k]
          BY <5>2, <5>3
        <5> QED BY <5>4 DEF a, b
      <4> QED BY <2>4, <4>1, <4>3, <4>5
    <3>2. CASE <<m, k>> \notin DOMAIN monthRows
      <4>1. ValueAt(months, <<m, k>>) = MonthCount(lastCounted, m, k)
        BY <1>11, <2>2, <3>2
      <4>2. CASE m # Month(d)
        BY <2>4, <4>1, <4>2
      <4>3. CASE m = Month(d)
        <5>1. <<d, k>> \notin DOMAIN dayRows
          BY <1>5, <1>8, <3>2, <4>3
        <5>2. ValueAt(last, <<d, k>>) = ValueAt(lastCounted, <<d, k>>)
          BY <1>9, <5>1
        <5>3. ValueAt(lastCounted, <<d, k>>) \in Nat
          BY <1>4 DEF ValueAt
        <5> QED BY <2>4, <4>1, <4>3, <5>2, <5>3
      <4> QED BY <4>2, <4>3
    <3> QED BY <3>1, <3>2
  <2>7. CASE ~prune \/ m \in KeptMonths(round.day)
    BY <1>13, <2>6, <2>7
  <2>8. CASE prune /\ m \notin KeptMonths(round.day)
    <3>1. ValueAt(monthStats', <<m, k>>) = 0
      BY <1>13, <2>8
    <3>2. Month(round.day) <= Month(rankedDay) /\ Month(round.day) \in Int
          /\ Month(rankedDay) \in Int
      BY <1>3, MonthsGrow
    <3>3. m > Month(round.day)
      BY <1>17, <2>8, <3>2 DEF KeptMonths
    <3>4. \A q \in CellsOf(m, k) : Complete(last)[q] = 0
      <4> TAKE q \in CellsOf(m, k)
      <4>1. q \in Cells /\ Month(q[1]) = m /\ q[1] \in Int
        BY DEF CellsOf, Cells, RankedDays
      <4>2. q \notin DOMAIN last
        <5> SUFFICES ASSUME q \in DOMAIN last PROVE FALSE
          OBVIOUS
        <5>1. q[1] <= round.day
          BY <1>14
        <5>2. Month(q[1]) <= Month(round.day)
          BY <1>3, <4>1, <5>1, MonthsGrow
        <5> QED BY <3>2, <3>3, <4>1, <5>2
      <4> QED BY <4>1, <4>2 DEF Complete, ValueAt
    <3>5. MonthCount(last, m, k) = 0
      <4>1. Complete(last) \in [Cells -> Nat]
        BY <1>9, CompleteIsTyped
      <4> QED BY <3>4, <4>1, CellsAreFinite, SumOfZeros DEF MonthCount
    <3> QED BY <3>1, <3>5
  <2> QED BY <2>7, <2>8
<1>18. \A p \in DOMAIN last : p[1] <= rankedDay
  <2> TAKE p \in DOMAIN last
  <2>1. p[1] \in Int /\ p[1] <= round.day
    BY <1>14 DEF Cells, RankedDays
  <2> QED BY <1>3, <2>1
<1>19. TablesFit'
  <2>1. /\ lastCounted' \in [DOMAIN lastCounted' -> Nat] /\ DOMAIN lastCounted' \subseteq Cells
        /\ dayStats' \in [DOMAIN dayStats' -> Nat] /\ monthStats' \in [DOMAIN monthStats' -> Nat]
    BY <1>1, <1>9, <1>12, <1>13, <1>14
  <2>2. /\ \A p \in DOMAIN lastCounted' : p[1] <= rankedDay'
        /\ DOMAIN monthStats' \subseteq Int \X RankedKeys
    <3>1. DOMAIN monthRows \subseteq Int \X RankedKeys
      BY <1>2, <1>3, <1>8, MonthsGrow
    <3>2. DOMAIN monthStats' \subseteq Int \X RankedKeys
      BY <1>4, <1>11, <1>13, <3>1
    <3> QED BY <1>1, <1>18, <3>2
  <2>3. \A p \in DOMAIN dayStats' : p \in DOMAIN lastCounted' /\ dayStats'[p] = lastCounted'[p]
    BY <1>1, <1>15
  <2>4. ~missedDay' => \A p \in DOMAIN lastCounted' : p[1] > storedSettled' => p \in DOMAIN dayStats'
    BY <1>1, <1>16
  <2>5. ~missedDay' => \A m \in Int, k \in RankedKeys : m >= Month(rankedDay') - 1 =>
                ValueAt(monthStats', <<m, k>>) = MonthCount(lastCounted', m, k)
    BY <1>1, <1>17
  <2> QED BY <2>1, <2>2, <2>3, <2>4, <2>5 DEF TablesFit
<1> QED BY <1>1, <1>14, <1>19

LEMMA LocalStarts == LocalInit => LocalInv
<1> SUFFICES ASSUME LocalInit PROVE LocalInv
  OBVIOUS
<1> USE DEF LocalInit
<1>1. NoRows \in [DOMAIN NoRows -> Nat] /\ DOMAIN NoRows = {}
  BY DEF NoRows
<1>2. LocalTyped
  BY LocalRankingAssumption DEF LocalTyped, Cells, RankedDays, NoRound, NoDay, Forgotten
<1>3. RoundFits
  BY DEF RoundFits, NoRound, Forgotten
<1>4. ASSUME NEW m \in Int, NEW k \in RankedKeys
      PROVE  ValueAt(NoRows, <<m, k>>) = MonthCount(NoRows, m, k)
  <2>1. Complete(NoRows) \in [Cells -> Nat] /\ \A q \in Cells : Complete(NoRows)[q] = 0
    BY <1>1, CompleteIsTyped DEF ValueAt
  <2>2. \A q \in CellsOf(m, k) : Complete(NoRows)[q] = 0
    BY <2>1, CellsAreFinite
  <2>3. MonthCount(NoRows, m, k) = 0
    BY <2>1, <2>2, CellsAreFinite, SumOfZeros DEF MonthCount
  <2> QED BY <1>1, <2>3 DEF ValueAt
<1>5. TablesFit
  BY <1>1, <1>4 DEF TablesFit
<1> QED BY <1>2, <1>3, <1>5 DEF LocalInv

\* As long as the tables and the settled day stay, only the day moves.
LEMMA TablesRest ==
    ASSUME LocalInv, UNCHANGED rankedTables, rankedDay' \in Int, rankedDay <= rankedDay'
    PROVE  TablesFit'
<1>1. rankedDay \in Int /\ \A p \in DOMAIN lastCounted : p[1] \in Int /\ p[1] <= rankedDay
  BY DEF LocalInv, LocalTyped, TablesFit, RankedDays, Cells
<1>2. \A p \in DOMAIN lastCounted : p[1] <= rankedDay'
  BY <1>1
<1>3. Month(rankedDay) <= Month(rankedDay') /\ Month(rankedDay) \in Int /\ Month(rankedDay') \in Int
  BY <1>1, MonthsGrow
<1>4. \A m \in Int : m >= Month(rankedDay') - 1 => m >= Month(rankedDay) - 1
  BY <1>3
<1> QED BY <1>2, <1>4 DEF LocalInv, TablesFit, rankedTables

LEMMA LocalKeeps == LocalInv /\ [LocalNext]_rankedVars => LocalInv'
<1> SUFFICES ASSUME LocalInv, [LocalNext]_rankedVars PROVE LocalInv'
  OBVIOUS
<1>1. /\ rankedDay \in RankedDays /\ rankedDay \in Int
      /\ eventsOf \in [Cells -> Nat]
      /\ round = [pc |-> round.pc, day |-> round.day, late |-> round.late]
      /\ round.pc \in {"idle", "state", "settle", "today"}
      /\ memory = [loaded |-> memory.loaded, settled |-> memory.settled, day |-> memory.day,
                   seen |-> memory.seen]
      /\ storedSettled \in Int /\ -1 <= storedSettled /\ storedSettled < rankedDay
      /\ round.pc # "idle" =>
          /\ round.day \in RankedDays /\ round.day <= rankedDay /\ storedSettled < round.day
          /\ \A p \in DOMAIN lastCounted : p[1] <= round.day
      /\ round.pc \in {"settle", "today"} => memory.loaded
      /\ memory.loaded => memory.settled = storedSettled /\ storedSettled >= 0
      /\ \A p \in DOMAIN lastCounted : p[1] <= rankedDay
      /\ \A d \in RankedDays : d \in Int /\ d >= 1
  BY DEF LocalInv, LocalTyped, RoundFits, TablesFit, RankedDays
<1>2. /\ NoRound = [pc |-> NoRound.pc, day |-> NoRound.day, late |-> NoRound.late]
      /\ NoRound.pc = "idle"
  BY DEF NoRound
<1>3. ASSUME UNCHANGED rankedVars PROVE LocalInv'
  <2> USE <1>3 DEF rankedVars
  <2>1. TablesFit'
    BY <1>1, TablesRest DEF rankedTables
  <2>2. LocalTyped' /\ RoundFits'
    BY DEF LocalInv, LocalTyped, RoundFits
  <2> QED BY <2>1, <2>2 DEF LocalInv
<1>4. ASSUME BeginRound PROVE LocalInv'
  <2> USE <1>4 DEF BeginRound, rankedTables
  <2>1. TablesFit'
    BY <1>1, TablesRest
  <2>2. LocalTyped' /\ RoundFits'
    BY <1>1 DEF LocalTyped, RoundFits
  <2> QED BY <2>1, <2>2 DEF LocalInv
<1>5. ASSUME EnsureState PROVE LocalInv'
  <2> USE <1>5 DEF EnsureState
  <2>1. round' = [round EXCEPT !.pc = IF round.late THEN "settle" ELSE "today"]
    OBVIOUS
  <2>2. /\ round'.pc \in {"settle", "today"} /\ round'.day = round.day
        /\ round' = [pc |-> round'.pc, day |-> round'.day, late |-> round'.late]
    <3> DEFINE q == IF round.late THEN "settle" ELSE "today"
    <3>1. q \in {"settle", "today"}
      OBVIOUS
    <3>2. round' = [round EXCEPT !.pc = q]
      BY <2>1
    <3> HIDE DEF q
    <3> QED BY <1>1, <3>1, <3>2
  <2>3. round.day \in Int /\ round.day >= 1 /\ storedSettled < round.day
    BY <1>1
  <2>4. /\ memory'.loaded /\ memory'.settled = storedSettled'
        /\ storedSettled' \in Int /\ storedSettled' >= 0 /\ storedSettled' < round.day
        /\ storedSettled <= storedSettled'
        /\ memory' = [loaded |-> memory'.loaded, settled |-> memory'.settled, day |-> memory'.day,
                      seen |-> memory'.seen]
    <3>1. CASE memory.loaded
      BY <1>1, <2>3, <3>1
    <3>2. CASE ~memory.loaded
      <4> DEFINE v == IF storedSettled = NoDay THEN round.day - 1 ELSE storedSettled
      <4>1. v \in Int /\ v >= 0 /\ v < round.day /\ storedSettled <= v
        BY <1>1, <2>3 DEF NoDay
      <4>2. memory' = [memory EXCEPT !.loaded = TRUE, !.settled = v] /\ storedSettled' = v
        BY <3>2
      <4> HIDE DEF v
      <4> QED BY <1>1, <4>1, <4>2
    <3> QED BY <3>1, <3>2
  <2>5. LocalTyped'
    <3>1. storedSettled' < rankedDay
      BY <1>1, <2>3, <2>4
    <3> QED BY <1>1, <2>2, <2>4, <3>1 DEF LocalTyped
  <2>6. RoundFits'
    BY <1>1, <2>2, <2>4 DEF RoundFits
  <2>7. TablesFit'
    <3>1. \A p \in DOMAIN lastCounted : p[1] > storedSettled' => p[1] > storedSettled
      <4> TAKE p \in DOMAIN lastCounted
      <4>1. p[1] \in Int
        BY DEF LocalInv, TablesFit, Cells, RankedDays
      <4> QED BY <1>1, <2>4, <4>1
    <3> QED BY <3>1 DEF LocalInv, TablesFit
  <2> QED BY <2>5, <2>6, <2>7 DEF LocalInv
<1>6. ASSUME SettleDay PROVE LocalInv'
  <2> DEFINE d == memory.settled + 1
  <2>1. /\ round.pc = "settle" /\ memory.settled < round.day - 1
        /\ storedSettled' = d
        /\ ReplaceDay(d, round.day, Aggregated(d), d = round.day - 1, d)
        /\ memory' = [memory EXCEPT !.settled = d]
        /\ rankedDay' = rankedDay /\ eventsOf' = eventsOf /\ round' = round
    BY <1>6 DEF SettleDay
  <2>2. d = storedSettled + 1 /\ d \in Int /\ d < round.day /\ d >= 1 /\ d \in RankedDays
        /\ round.day \in Int
    <3>1. d = storedSettled + 1 /\ d \in Int /\ round.day \in RankedDays /\ storedSettled >= 0
          /\ d < round.day /\ round.day \in Int
      BY <1>1, <2>1
    <3> HIDE DEF d
    <3>2. d >= 1
      BY <1>1, <3>1
    <3>3. d \in RankedDays
      BY <3>1, <3>2, LocalRankingAssumption DEF RankedDays
    <3> QED BY <3>1, <3>2, <3>3
  <2>3. (d = round.day - 1) \in BOOLEAN /\ storedSettled < d /\ storedSettled <= d /\ d <= round.day
    BY <1>1, <2>2
  <2> HIDE DEF d
  <2>4. TablesFit' /\ \A p \in DOMAIN lastCounted' : p[1] <= round.day
    BY <2>1, <2>2, <2>3, ReplacingFits
  <2>5. /\ memory'.settled = d /\ memory'.loaded = memory.loaded
        /\ memory' = [loaded |-> memory'.loaded, settled |-> memory'.settled, day |-> memory'.day,
                      seen |-> memory'.seen]
    BY <1>1, <2>1
  <2>6. LocalTyped'
    <3>1. d < rankedDay /\ -1 <= d
      BY <1>1, <2>1, <2>2
    <3> QED BY <1>1, <2>1, <2>2, <2>5, <3>1 DEF LocalTyped
  <2>7. RoundFits'
    BY <1>1, <2>1, <2>2, <2>4, <2>5 DEF RoundFits
  <2> QED BY <2>4, <2>6, <2>7 DEF LocalInv
<1>7. ASSUME EndSettling PROVE LocalInv'
  <2> USE <1>7 DEF EndSettling, rankedTables
  <2>1. TablesFit'
    BY <1>1, TablesRest
  <2>2. LocalTyped' /\ RoundFits'
    BY <1>1 DEF LocalTyped, RoundFits
  <2> QED BY <2>1, <2>2 DEF LocalInv
<1>8. ASSUME SnapshotToday PROVE LocalInv'
  <2> DEFINE counts == Aggregated(round.day)
  <2>1. /\ round.pc = "today" /\ round' = NoRound
        /\ rankedDay' = rankedDay /\ eventsOf' = eventsOf
        /\ \/ UNCHANGED <<memory, rankedTables>>
           \/ /\ ReplaceDay(round.day, round.day, counts, TRUE, storedSettled)
              /\ memory' = [memory EXCEPT !.day = round.day, !.seen = counts]
              /\ UNCHANGED storedSettled
    BY <1>8 DEF SnapshotToday
  <2>2. CASE UNCHANGED <<memory, rankedTables>>
    <3>1. TablesFit'
      BY <1>1, <2>1, <2>2, TablesRest
    <3>2. LocalTyped' /\ RoundFits'
      BY <1>1, <1>2, <2>1, <2>2 DEF LocalTyped, RoundFits, rankedTables
    <3> QED BY <3>1, <3>2 DEF LocalInv
  <2>3. CASE /\ ReplaceDay(round.day, round.day, counts, TRUE, storedSettled)
             /\ memory' = [memory EXCEPT !.day = round.day, !.seen = counts]
             /\ UNCHANGED storedSettled
    <3>1. /\ round.day \in RankedDays /\ storedSettled < round.day /\ round.day <= round.day
          /\ storedSettled \in Int /\ storedSettled <= storedSettled /\ TRUE \in BOOLEAN
          /\ storedSettled' = storedSettled /\ round.pc \in {"settle", "today"}
      BY <1>1, <2>1, <2>3
    <3>2. TablesFit' /\ \A p \in DOMAIN lastCounted' : p[1] <= round.day
      BY <1>1, <2>1, <2>3, <3>1, ReplacingFits
    <3> HIDE DEF counts
    <3>3. /\ memory'.settled = memory.settled /\ memory'.loaded = memory.loaded
          /\ memory' = [loaded |-> memory'.loaded, settled |-> memory'.settled,
                        day |-> memory'.day, seen |-> memory'.seen]
      BY <1>1, <2>3
    <3>4. LocalTyped' /\ RoundFits'
      BY <1>1, <1>2, <2>1, <2>3, <3>3 DEF LocalTyped, RoundFits
    <3> QED BY <3>2, <3>4 DEF LocalInv
  <2> QED BY <2>1, <2>2, <2>3
<1>9. ASSUME FailRound PROVE LocalInv'
  <2> USE <1>9 DEF FailRound, rankedTables
  <2>1. TablesFit'
    BY <1>1, TablesRest
  <2>2. LocalTyped' /\ RoundFits'
    BY <1>1, <1>2 DEF LocalTyped, RoundFits
  <2> QED BY <2>1, <2>2 DEF LocalInv
<1>10. ASSUME CrashRanking PROVE LocalInv'
  <2> USE <1>10 DEF CrashRanking, rankedTables
  <2>1. TablesFit'
    BY <1>1, TablesRest
  <2>2. LocalTyped' /\ RoundFits'
    BY <1>1, <1>2 DEF LocalTyped, RoundFits, Forgotten
  <2> QED BY <2>1, <2>2 DEF LocalInv
<1>11. ASSUME CommitRanked PROVE LocalInv'
  <2>1. PICK d \in {rankedDay, rankedDay - 1} \cap RankedDays :
           \E k \in RankedKeys : eventsOf' = [eventsOf EXCEPT ![<<d, k>>] = @ + 1]
    BY <1>11 DEF CommitRanked
  <2>2. PICK k \in RankedKeys : eventsOf' = [eventsOf EXCEPT ![<<d, k>>] = @ + 1]
    BY <2>1
  <2>3. /\ rankedDay' = rankedDay /\ UNCHANGED rankedTables
        /\ memory' = memory /\ round' = round
    BY <1>11 DEF CommitRanked
  <2>4. eventsOf' \in [Cells -> Nat]
    <3>1. <<d, k>> \in Cells /\ eventsOf[<<d, k>>] + 1 \in Nat
      BY <1>1, <2>1 DEF Cells
    <3> QED BY <1>1, <2>2, <3>1
  <2>5. TablesFit'
    BY <1>1, <2>3, TablesRest
  <2>6. LocalTyped' /\ RoundFits'
    BY <1>1, <2>3, <2>4 DEF LocalTyped, RoundFits, rankedTables
  <2> QED BY <2>5, <2>6 DEF LocalInv
<1>12. ASSUME RankedTick PROVE LocalInv'
  <2>1. rankedDay' \in RankedDays /\ rankedDay <= rankedDay' /\ rankedDay' \in Int
    BY <1>1, <1>12, LocalRankingAssumption DEF RankedTick, RankedDays
  <2>2. UNCHANGED rankedTables /\ eventsOf' = eventsOf /\ memory' = memory /\ round' = round
    BY <1>12 DEF RankedTick
  <2>3. TablesFit'
    BY <2>1, <2>2, TablesRest
  <2>4. storedSettled < rankedDay'
    BY <1>1, <2>1
  <2>5. round.pc # "idle" => round.day <= rankedDay'
    BY <1>1, <2>1
  <2>6. LocalTyped' /\ RoundFits'
    BY <1>1, <2>1, <2>2, <2>4, <2>5 DEF LocalTyped, RoundFits, rankedTables
  <2> QED BY <2>3, <2>6 DEF LocalInv
<1> QED
  BY <1>3, <1>4, <1>5, <1>6, <1>7, <1>8, <1>9, <1>10, <1>11, <1>12 DEF LocalNext

LEMMA LocalFits == LocalInv => MonthCountsSettledDaysOnce
<1> SUFFICES ASSUME LocalInv, ~missedDay PROVE MonthCountsDaysOnce
  BY DEF MonthCountsSettledDaysOnce
<1>1. rankedDay \in Int /\ Month(rankedDay) \in Int
  BY MonthsGrow DEF LocalInv, LocalTyped, RankedDays
<1> SUFFICES ASSUME NEW p \in DOMAIN monthStats, p[1] \in KeptMonths(rankedDay)
             PROVE  monthStats[p] = SumOf(lastCounted, {q \in DOMAIN lastCounted :
                                             Month(q[1]) = p[1] /\ q[2] = p[2]})
  BY DEF MonthCountsDaysOnce, SumOf
<1>2. p[1] \in Int /\ p[1] >= Month(rankedDay) - 1
  BY <1>1 DEF KeptMonths
<1>3. p[2] \in RankedKeys /\ p = <<p[1], p[2]>>
  BY DEF LocalInv, TablesFit
<1>4. monthStats[p] = ValueAt(monthStats, p)
  BY DEF ValueAt
<1>5. ValueAt(monthStats, <<p[1], p[2]>>) = MonthCount(lastCounted, p[1], p[2])
  BY <1>2, <1>3 DEF LocalInv, TablesFit
<1>6. SumOf(lastCounted, {q \in DOMAIN lastCounted : Month(q[1]) = p[1] /\ q[2] = p[2]})
        = MonthCount(lastCounted, p[1], p[2])
  BY <1>3, AbsentCountNothing DEF LocalInv, TablesFit
<1> QED BY <1>3, <1>4, <1>5, <1>6

(* However rounds fail, are repeated or crash, and whenever events arrive:    *)
(* unless a day lost its row before it was settled, each month that the       *)
(* leaderboard shows counts each of its days once, with what was counted last *)
(* (replaceLocalRankingDay, pruneLocalRankingPeriodsTx).                      *)
THEOREM MonthsStayRight == LocalSpec => []MonthCountsSettledDaysOnce
<1>1. LocalSpec => []LocalInv
  BY LocalStarts, LocalKeeps, PTL DEF LocalSpec
<1> QED BY <1>1, LocalFits, PTL

-----------------------------------------------------------------------------
(* The preview of prices.                                                    *)

\* Some are less than none of the others, whatever finite set they are of, when no
\* one is less than itself and those less than lesser ones are less.
LEMMA LeastIsThere ==
    ASSUME NEW S, IsFiniteSet(S), S # {}, NEW L \in SUBSET (S \X S), \A x \in S : <<x, x>> \notin L,
           \A x, y, z \in S : <<x, y>> \in L /\ <<y, z>> \in L => <<x, z>> \in L
    PROVE  \E x \in S : \A y \in S : <<y, x>> \notin L
<1> DEFINE Least(T) == \E x \in T : \A y \in T : <<y, x>> \notin L
           B == {T \in SUBSET S : T # {} /\ ~Least(T)}
<1>1. SUFFICES ASSUME B # {} PROVE FALSE
  <2>1. S \notin B
    BY <1>1
  <2> QED BY <2>1
<1>2. PICK T \in B : \A x \in T : T \ {x} \notin B
  <2>1. B \in SUBSET SUBSET S
    OBVIOUS
  <2> HIDE DEF B
  <2> QED BY <1>1, <2>1, SmallestIsThere
<1>3. T \in SUBSET S /\ T # {} /\ ~Least(T)
  OBVIOUS
<1>4. PICK x \in T : TRUE
  BY <1>3
<1>5. CASE T \ {x} = {}
  <2>1. T = {x}
    BY <1>4, <1>5
  <2> QED BY <1>3, <2>1
<1>6. CASE T \ {x} # {}
  <2>1. Least(T \ {x})
    BY <1>2, <1>3, <1>6
  <2>2. PICK m \in T \ {x} : \A y \in T \ {x} : <<y, m>> \notin L
    BY <2>1
  <2> HIDE DEF B
  <2>3. CASE <<x, m>> \notin L
    <3>1. \A y \in T : <<y, m>> \notin L
      BY <2>2, <2>3
    <3> QED BY <1>3, <3>1
  <2>4. CASE <<x, m>> \in L
    <3>1. ASSUME NEW y \in T PROVE <<y, x>> \notin L
      <4>1. CASE y = x
        BY <1>3, <4>1
      <4>2. CASE y # x
        <5>1. <<y, m>> \notin L
          BY <2>2, <4>2
        <5>2. y \in S /\ x \in S /\ m \in S
          BY <1>3
        <5> QED BY <2>4, <5>1, <5>2
      <4> QED BY <4>1, <4>2
    <3> QED BY <1>3, <3>1
  <2> QED BY <2>3, <2>4
<1> QED BY <1>5, <1>6

\* Criteria are compared one after the other.
Compared(a, b) ==
    \/ a[1] < b[1]
    \/ a[1] = b[1] /\ a[2] < b[2]
    \/ a[1] = b[1] /\ a[2] = b[2] /\ a[3] < b[3]
    \/ a[1] = b[1] /\ a[2] = b[2] /\ a[3] = b[3] /\ a[4] < b[4]
    \/ a[1] = b[1] /\ a[2] = b[2] /\ a[3] = b[3] /\ a[4] = b[4] /\ a[5] < b[5]

Quintuples == Int \X Int \X Int \X Int \X Int

\* That is how criteria are compared.
LEMMA ComparedIs ==
    ASSUME NEW a \in Quintuples, NEW b \in Quintuples
    PROVE  Before(a, b) <=> Compared(a, b)
<1>1. DOMAIN a = {1, 2, 3, 4, 5}
  <2>1. DOMAIN a = 1 .. 5
    BY DEF Quintuples
  <2> QED BY <2>1
<1>2. /\ 1 .. 1 - 1 = {} /\ 1 .. 2 - 1 = {1} /\ 1 .. 3 - 1 = {1, 2} /\ 1 .. 4 - 1 = {1, 2, 3}
      /\ 1 .. 5 - 1 = {1, 2, 3, 4}
  OBVIOUS
<1>3. Before(a, b) <=> \E i \in {1, 2, 3, 4, 5} : a[i] < b[i] /\ \A j \in 1 .. i - 1 : a[j] = b[j]
  BY <1>1 DEF Before
<1>4. Before(a, b) <=> \/ a[1] < b[1] /\ \A j \in 1 .. 1 - 1 : a[j] = b[j]
                       \/ a[2] < b[2] /\ \A j \in 1 .. 2 - 1 : a[j] = b[j]
                       \/ a[3] < b[3] /\ \A j \in 1 .. 3 - 1 : a[j] = b[j]
                       \/ a[4] < b[4] /\ \A j \in 1 .. 4 - 1 : a[j] = b[j]
                       \/ a[5] < b[5] /\ \A j \in 1 .. 5 - 1 : a[j] = b[j]
  BY <1>3
<1> QED BY <1>2, <1>4 DEF Compared

\* It is irreflexive and transitive.
LEMMA ComparedOrder ==
    ASSUME NEW a \in Quintuples, NEW b \in Quintuples, NEW c \in Quintuples
    PROVE  /\ ~Compared(a, a)
           /\ Compared(a, b) /\ Compared(b, c) => Compared(a, c)
<1>1. /\ a[1] \in Int /\ a[2] \in Int /\ a[3] \in Int /\ a[4] \in Int /\ a[5] \in Int
      /\ b[1] \in Int /\ b[2] \in Int /\ b[3] \in Int /\ b[4] \in Int /\ b[5] \in Int
      /\ c[1] \in Int /\ c[2] \in Int /\ c[3] \in Int /\ c[4] \in Int /\ c[5] \in Int
  BY DEF Quintuples
<1> QED BY <1>1 DEF Compared

\* A set of numbers that is not empty has its minimum.
LEMMA LeastNumber ==
    ASSUME NEW S \in SUBSET Nat, S # {}
    PROVE  Min(S) \in S
<1>1. PICK n \in S : \A m \in S : n <= m
  BY NaturalsHaveLeast
<1> QED BY <1>1 DEF Min

\* What is in a sequence has a position there.
LEMMA PositionIs ==
    ASSUME NEW seq \in Seq(STRING), NEW x, Contains(seq, x)
    PROVE  Position(seq, x) \in Nat
<1> DEFINE S == {i \in DOMAIN seq : seq[i] = x}
<1>1. S # {}
  BY DEF Contains
<1>2. S \in SUBSET Nat
  <2>1. DOMAIN seq = 1 .. Len(seq) /\ Len(seq) \in Nat
    OBVIOUS
  <2> QED BY <2>1
<1> QED BY <1>1, <1>2, LeastNumber DEF Position

\* Every provider has a rank.
LEMMA RankIs ==
    ASSUME NEW m, NEW p
    PROVE  ProviderRank(m, p) \in Int
<1> DEFINE official == IF m.word \in DOMAIN FamilyOf THEN Officials[FamilyOf[m.word]] ELSE <<>>
<1>1. official \in Seq(STRING) /\ ProviderOrder \in Seq(STRING)
  <2>1. /\ \A w \in DOMAIN FamilyOf : Officials[FamilyOf[w]] \in Seq(STRING)
        /\ ProviderOrder \in Seq(STRING)
    BY PreviewAssumption DEF PreviewAssumption
  <2>2. <<>> \in Seq(STRING)
    OBVIOUS
  <2> QED BY <2>1, <2>2
<1> HIDE DEF official
<1>2. ProviderRank(m, p) = IF Contains(official, p) THEN Position(official, p)
       ELSE 100 + (IF Contains(ProviderOrder, p) THEN Position(ProviderOrder, p) ELSE 100)
  BY DEF ProviderRank, official
<1>3. Contains(official, p) => Position(official, p) \in Nat
  BY <1>1, PositionIs
<1>4. Contains(ProviderOrder, p) => Position(ProviderOrder, p) \in Nat
  BY <1>1, PositionIs
<1> QED BY <1>2, <1>3, <1>4

(* The empty word, by a name the provers can do with.                         *)
NoWord == ""

\* The parts of names.
LEMMA NamesAre ==
    ASSUME NEW n, IsName(n)
    PROVE  /\ IsName(Lower(n)) /\ IsName(StripPrefix(n)) /\ IsName(NormalizedKey(n))
           /\ Lower(n).prefix = n.prefix /\ Lower(n).word = n.word
           /\ Lower(n).marks = n.marks /\ Lower(n).upper = FALSE
           /\ StripPrefix(n).prefix = NoWord /\ StripPrefix(n).word = n.word
           /\ StripPrefix(n).marks = n.marks /\ StripPrefix(n).upper = n.upper
           /\ NormalizedKey(n).prefix = n.prefix /\ NormalizedKey(n).word = n.word
           /\ NormalizedKey(n).marks = FALSE /\ NormalizedKey(n).upper = FALSE
<1> DEFINE p == n.prefix
           w == n.word
           k == n.marks
           u == n.upper
<1>1. n = [prefix |-> p, word |-> w, marks |-> k, upper |-> u]
  BY DEF IsName
<1> HIDE DEF p, w, k, u
<1>2. PICK f : f = FALSE
  OBVIOUS
<1>3. PICK g : g = NoWord
  OBVIOUS
<1>4. Lower(n) = [n EXCEPT !.upper = f] /\ NormalizedKey(n) = [n EXCEPT !.marks = f, !.upper = f]
  BY <1>2, Zenon DEF Lower, NormalizedKey
<1>5. StripPrefix(n) = [n EXCEPT !.prefix = g]
  BY <1>3, Zenon DEF StripPrefix, NoWord
<1>6. /\ IsName(Lower(n)) /\ Lower(n).prefix = p /\ Lower(n).word = w
      /\ Lower(n).marks = k /\ Lower(n).upper = f
  <2> DEFINE x == Lower(n)
  <2>1. x = [n EXCEPT !.upper = f]
    BY <1>4, Zenon
  <2> HIDE DEF x
  <2>2. /\ x = [prefix |-> x.prefix, word |-> x.word, marks |-> x.marks, upper |-> x.upper]
        /\ x.prefix = p /\ x.word = w /\ x.marks = k /\ x.upper = f
    BY ONLY <1>1, <2>1
  <2> QED BY <2>2, Zenon DEF x, IsName
<1>7. /\ IsName(NormalizedKey(n)) /\ NormalizedKey(n).prefix = p /\ NormalizedKey(n).word = w
      /\ NormalizedKey(n).marks = f /\ NormalizedKey(n).upper = f
  <2> DEFINE x == NormalizedKey(n)
  <2>1. x = [n EXCEPT !.marks = f, !.upper = f]
    BY <1>4, Zenon
  <2> HIDE DEF x
  <2>2. /\ x = [prefix |-> x.prefix, word |-> x.word, marks |-> x.marks, upper |-> x.upper]
        /\ x.prefix = p /\ x.word = w /\ x.marks = f /\ x.upper = f
    BY ONLY <1>1, <2>1
  <2> QED BY <2>2, Zenon DEF x, IsName
<1>8. /\ IsName(StripPrefix(n)) /\ StripPrefix(n).prefix = g /\ StripPrefix(n).word = w
      /\ StripPrefix(n).marks = k /\ StripPrefix(n).upper = u
  <2> DEFINE x == StripPrefix(n)
  <2>1. x = [n EXCEPT !.prefix = g]
    BY <1>5, Zenon
  <2> HIDE DEF x
  <2>2. /\ x = [prefix |-> x.prefix, word |-> x.word, marks |-> x.marks, upper |-> x.upper]
        /\ x.prefix = g /\ x.word = w /\ x.marks = k /\ x.upper = u
    BY ONLY <1>1, <2>1
  <2> QED BY <2>2, Zenon DEF x, IsName
<1> QED BY <1>2, <1>3, <1>6, <1>7, <1>8, Zenon DEF p, w, k, u

\* Names with the same parts are the same.
LEMMA SameNames ==
    ASSUME NEW n, IsName(n), NEW m, IsName(m), n.prefix = m.prefix, n.word = m.word,
           n.marks = m.marks, n.upper = m.upper
    PROVE  n = m
BY Zenon DEF IsName

\* What is found by a key is named like it, and what is named like it is found.
LEMMA KeysFind ==
    ASSUME NEW e, IsName(e.id), IsName(e.name), NEW n, IsName(n), n.word # NoWord
    PROVE  /\ Lower(n) \in ExactKeys(e) => \E x \in {e.id, e.name} : x.word = n.word /\ x.marks = n.marks
           /\ NormalizedKey(n) \in NormalizedKeys(e) => \E x \in {e.id, e.name} : x.word = n.word
           /\ (\E x \in {e.id, e.name} : x.word = n.word /\ x.marks = n.marks)
                => Lower(StripPrefix(n)) \in ExactKeys(e)
           /\ (\E x \in {e.id, e.name} : x.word = n.word)
                => NormalizedKey(StripPrefix(n)) \in NormalizedKeys(e)
<1> DEFINE X == {e.id, e.name, StripPrefix(e.id), StripPrefix(e.name)}
<1>1. ASSUME NEW y \in X
      PROVE  IsName(y) /\ \E x \in {e.id, e.name} : x.word = y.word /\ x.marks = y.marks
  <2>1. ASSUME NEW x \in {e.id, e.name}
        PROVE  IsName(StripPrefix(x)) /\ StripPrefix(x).word = x.word /\ StripPrefix(x).marks = x.marks
    <3>1. IsName(x)
      OBVIOUS
    <3> QED BY ONLY <3>1, NamesAre, Zenon
  <2>2. PICK x \in {e.id, e.name} : y = x \/ y = StripPrefix(x)
    OBVIOUS
  <2>3. IsName(x)
    OBVIOUS
  <2>4. IsName(y) /\ y.word = x.word /\ y.marks = x.marks
    BY ONLY <2>1, <2>2, <2>3
  <2> QED BY ONLY <2>2, <2>4
<1>2. ExactKeys(e) = {Lower(y) : y \in X} \ {Unnamed} /\ NormalizedKeys(e) = {NormalizedKey(y) : y \in X} \ {Unnamed}
  BY DEF ExactKeys, NormalizedKeys
<1>3. \A x \in {e.id, e.name} : StripPrefix(x) \in X /\ IsName(x)
  OBVIOUS
<1> HIDE DEF X
<1>4. ASSUME Lower(n) \in ExactKeys(e) PROVE \E x \in {e.id, e.name} : x.word = n.word /\ x.marks = n.marks
  <2>1. PICK y \in X : Lower(n) = Lower(y)
    BY ONLY <1>2, <1>4
  <2>2. y.word = n.word /\ y.marks = n.marks
    <3>1. Lower(n).word = n.word /\ Lower(n).marks = n.marks
      BY NamesAre
    <3>2. Lower(y).word = y.word /\ Lower(y).marks = y.marks
      BY <1>1, NamesAre
    <3> QED BY <2>1, <3>1, <3>2
  <2> QED BY <1>1, <2>2
<1>5. ASSUME NormalizedKey(n) \in NormalizedKeys(e) PROVE \E x \in {e.id, e.name} : x.word = n.word
  <2>1. PICK y \in X : NormalizedKey(n) = NormalizedKey(y)
    BY <1>2, <1>5
  <2>2. y.word = n.word
    <3>1. NormalizedKey(n).word = n.word
      BY NamesAre
    <3>2. NormalizedKey(y).word = y.word
      BY <1>1, NamesAre
    <3> QED BY <2>1, <3>1, <3>2
  <2> QED BY <1>1, <2>2
<1>6. ASSUME NEW x \in {e.id, e.name}, x.word = n.word
      PROVE  NormalizedKey(StripPrefix(n)) \in NormalizedKeys(e)
  <2> DEFINE a == StripPrefix(n)
             b == StripPrefix(x)
  <2>1. IsName(a) /\ IsName(b) /\ a.prefix = NoWord /\ b.prefix = NoWord /\ a.word = n.word /\ b.word = n.word
    BY <1>3, <1>6, NamesAre
  <2> HIDE DEF a, b
  <2>2. /\ IsName(NormalizedKey(a)) /\ NormalizedKey(a).prefix = NoWord /\ NormalizedKey(a).word = n.word
        /\ NormalizedKey(a).marks = FALSE /\ NormalizedKey(a).upper = FALSE
    BY <2>1, NamesAre, Zenon
  <2>3. /\ IsName(NormalizedKey(b)) /\ NormalizedKey(b).prefix = NoWord /\ NormalizedKey(b).word = n.word
        /\ NormalizedKey(b).marks = FALSE /\ NormalizedKey(b).upper = FALSE
    BY <2>1, NamesAre, Zenon
  <2>4. NormalizedKey(a) = NormalizedKey(b)
    BY <2>2, <2>3, SameNames, Zenon
  <2>5. NormalizedKey(a) # Unnamed
    <3>1. Unnamed.word = NoWord
      BY Zenon DEF Unnamed, NoWord
    <3> QED BY <2>2, <3>1
  <2> QED BY <1>2, <1>3, <2>4, <2>5 DEF a, b
<1>7. ASSUME NEW x \in {e.id, e.name}, x.word = n.word, x.marks = n.marks
      PROVE  Lower(StripPrefix(n)) \in ExactKeys(e)
  <2> DEFINE a == StripPrefix(n)
             b == StripPrefix(x)
  <2>1. /\ IsName(a) /\ IsName(b) /\ a.prefix = NoWord /\ b.prefix = NoWord /\ a.word = n.word /\ b.word = n.word
        /\ a.marks = n.marks /\ b.marks = n.marks
    BY <1>3, <1>7, NamesAre
  <2> HIDE DEF a, b
  <2>2. /\ IsName(Lower(a)) /\ Lower(a).prefix = NoWord /\ Lower(a).word = n.word
        /\ Lower(a).marks = n.marks /\ Lower(a).upper = FALSE
    BY <2>1, NamesAre, Zenon
  <2>3. /\ IsName(Lower(b)) /\ Lower(b).prefix = NoWord /\ Lower(b).word = n.word
        /\ Lower(b).marks = n.marks /\ Lower(b).upper = FALSE
    BY <2>1, NamesAre, Zenon
  <2>4. Lower(a) = Lower(b)
    BY <2>2, <2>3, SameNames, Zenon
  <2>5. Lower(a) # Unnamed
    <3>1. Unnamed.word = NoWord
      BY Zenon DEF Unnamed, NoWord
    <3> QED BY <2>2, <3>1
  <2> QED BY <1>2, <1>3, <2>4, <2>5 DEF a, b
<1> QED BY <1>4, <1>5, <1>6, <1>7

\* A candidate.
CandidateOf(m, catalog, c) ==
    /\ c = CatalogMatch(c.entry, c.score) /\ c.entry \in catalog
    /\ c.score \in {100, 96, 92, 90}
    /\ Resembles(m, c.entry)
    /\ c.score = 100 => SpelledAlike(m, c.entry)

\* The parts of a candidate.
LEMMA MatchIs ==
    ASSUME NEW e, NEW score
    PROVE  LET c == CatalogMatch(e, score) IN c.entry = e /\ c.score = score /\ c = CatalogMatch(c.entry, c.score)
BY DEF CatalogMatch

\* Each candidate is one of the catalog, named like the model; each entry so named is
\* one, and has the highest score when it is spelled like the model.
LEMMA CandidatesAre ==
    ASSUME NEW m \in UsedNames, NEW catalog \in PublicCatalogs
    PROVE  /\ \A c \in FindCandidates(m, catalog) : CandidateOf(m, catalog, c)
           /\ \A e \in catalog : Resembles(m, e) => \E c \in FindCandidates(m, catalog) : c.entry = e
           /\ \A e \in catalog : SpelledAlike(m, e) =>
                \E c \in FindCandidates(m, catalog) : c.entry = e /\ c.score = 100
<1> DEFINE k == StripPrefix(m)
           exact(n, score) == {CatalogMatch(e, score) : e \in {c \in catalog : Lower(n) \in ExactKeys(c)}}
           similar(n, score) == {CatalogMatch(e, score) :
                                   e \in {c \in catalog : NormalizedKey(n) \in NormalizedKeys(c)}}
           F == FindCandidates(m, catalog)
<1>1. /\ IsName(m) /\ m.word # NoWord
      /\ \A e \in catalog : IsName(e.id) /\ IsName(e.name)
  BY ONLY PreviewAssumption, m \in UsedNames, catalog \in PublicCatalogs, Zenon
     DEF PreviewAssumption, NoWord
<1>2. IsName(k) /\ k.word = m.word /\ k.marks = m.marks /\ StripPrefix(k) = k
  <2>1. IsName(k) /\ k.word = m.word /\ k.marks = m.marks /\ k.prefix = NoWord
    BY <1>1, NamesAre
  <2>2. IsName(StripPrefix(k)) /\ StripPrefix(k).prefix = NoWord /\ StripPrefix(k).word = k.word
        /\ StripPrefix(k).marks = k.marks /\ StripPrefix(k).upper = k.upper
    BY <2>1, NamesAre, Zenon
  <2> HIDE DEF k
  <2> QED BY <2>1, <2>2, SameNames, Zenon
<1>3. /\ k # m => F = exact(k, 100) \cup similar(k, 96) \cup exact(m, 92) \cup similar(m, 90)
      /\ k = m => F = exact(m, 100) \cup similar(m, 92)
  BY DEF FindCandidates
<1> HIDE DEF k, F
<1>4. ASSUME NEW n, IsName(n), n.word = m.word, n.marks = m.marks, NEW score \in {100, 96, 92, 90}, NEW c \in exact(n, score)
      PROVE  CandidateOf(m, catalog, c)
  <2>1. PICK e \in catalog : Lower(n) \in ExactKeys(e) /\ c = CatalogMatch(e, score)
    BY <1>4
  <2>2. \E x \in {e.id, e.name} : x.word = n.word /\ x.marks = n.marks
    BY <1>1, <1>4, <2>1, KeysFind
  <2>3. Resembles(m, e) /\ SpelledAlike(m, e)
    <3>1. Unnamed.word = NoWord
      BY Zenon DEF Unnamed, NoWord
    <3>2. PICK x \in {e.id, e.name} : x.word = n.word /\ x.marks = n.marks
      BY <2>2
    <3>3. x # Unnamed
      BY <1>1, <1>4, <3>1, <3>2
    <3>4. x.word = m.word /\ x.marks = m.marks
      BY <1>4, <3>2
    <3> QED BY <3>3, <3>4 DEF Resembles, SpelledAlike
  <2>4. c.entry = e /\ c.score = score /\ c = CatalogMatch(c.entry, c.score)
    BY <2>1, MatchIs
  <2> QED BY <2>3, <2>4 DEF CandidateOf
<1>5. ASSUME NEW n, IsName(n), n.word = m.word, NEW score \in {96, 92, 90}, NEW c \in similar(n, score)
      PROVE  CandidateOf(m, catalog, c)
  <2>1. PICK e \in catalog : NormalizedKey(n) \in NormalizedKeys(e) /\ c = CatalogMatch(e, score)
    BY <1>5
  <2>2. \E x \in {e.id, e.name} : x.word = n.word
    BY <1>1, <1>5, <2>1, KeysFind
  <2>3. Resembles(m, e)
    <3>1. Unnamed.word = NoWord
      BY Zenon DEF Unnamed, NoWord
    <3>2. PICK x \in {e.id, e.name} : x.word = n.word
      BY <2>2
    <3>3. x # Unnamed
      BY <1>1, <1>5, <3>1, <3>2
    <3>4. x.word = m.word
      BY <1>5, <3>2
    <3> QED BY <3>3, <3>4 DEF Resembles
  <2>4. c.entry = e /\ c.score = score /\ c = CatalogMatch(c.entry, c.score)
    BY <2>1, MatchIs
  <2> QED BY <2>3, <2>4 DEF CandidateOf
<1>6. ASSUME NEW c \in F PROVE CandidateOf(m, catalog, c)
  <2>1. CASE k # m
    <3>1. c \in exact(k, 100) \/ c \in similar(k, 96) \/ c \in exact(m, 92) \/ c \in similar(m, 90)
      BY <1>3, <2>1
    <3> HIDE DEF exact, similar
    <3>2. IsName(k) /\ k.word = m.word /\ k.marks = m.marks /\ IsName(m)
      BY <1>1, <1>2
    <3>3. c \in exact(k, 100) \/ c \in exact(m, 92) => CandidateOf(m, catalog, c)
      BY ONLY <1>4, <3>2
    <3>4. c \in similar(k, 96) \/ c \in similar(m, 90) => CandidateOf(m, catalog, c)
      BY ONLY <1>5, <3>2
    <3> QED BY ONLY <3>1, <3>3, <3>4
  <2>2. CASE k = m
    <3>1. c \in exact(m, 100) \/ c \in similar(m, 92)
      BY <1>3, <2>2
    <3> HIDE DEF exact, similar
    <3> QED BY <1>1, <1>4, <1>5, <3>1
  <2> QED BY <2>1, <2>2
<1>7. ASSUME NEW e \in catalog, Resembles(m, e) PROVE \E c \in F : c.entry = e
  <2>1. NormalizedKey(k) \in NormalizedKeys(e)
    BY <1>1, <1>7, KeysFind DEF Resembles, k
  <2>2. \E score : CatalogMatch(e, score) \in F
    BY <1>3, <2>1
  <2> QED BY <2>2, MatchIs
<1>8. ASSUME NEW e \in catalog, SpelledAlike(m, e) PROVE \E c \in F : c.entry = e /\ c.score = 100
  <2>1. Lower(k) \in ExactKeys(e)
    BY <1>1, <1>8, KeysFind DEF SpelledAlike, k
  <2>2. CatalogMatch(e, 100) \in F
    BY <1>3, <2>1
  <2> QED BY <2>2, MatchIs
<1> QED BY <1>6, <1>7, <1>8 DEF F

\* Catalogs are finite.
LEMMA CatalogsAreFinite == \A k \in PublicCatalogs : IsFiniteSet(k)
<1> SUFFICES ASSUME NEW k \in PublicCatalogs PROVE IsFiniteSet(k)
  OBVIOUS
<1>1. \A catalog \in PublicCatalogs :
         /\ IsFiniteSet(catalog)
         /\ \A e \in catalog : IsName(e.id) /\ IsName(e.name) /\ e.updated \in Int
         /\ \A d, e \in catalog : d.provider = e.provider /\ d.id = e.id => d = e
  BY ONLY PreviewAssumption, Zenon DEF PreviewAssumption
<1> QED BY ONLY <1>1, k \in PublicCatalogs, Zenon

\* The time of an update is a number.
LEMMA UpdatesAreNumbers == \A k \in PublicCatalogs : \A e \in k : e.updated \in Int
<1> SUFFICES ASSUME NEW k \in PublicCatalogs, NEW e \in k PROVE e.updated \in Int
  OBVIOUS
<1>1. \A catalog \in PublicCatalogs :
         /\ IsFiniteSet(catalog)
         /\ \A e1 \in catalog : IsName(e1.id) /\ IsName(e1.name) /\ e1.updated \in Int
         /\ \A d, e1 \in catalog : d.provider = e1.provider /\ d.id = e1.id => d = e1
  BY ONLY PreviewAssumption, Zenon DEF PreviewAssumption
<1> QED BY ONLY <1>1, k \in PublicCatalogs, e \in k, Zenon

\* There are finitely many candidates for a model.
LEMMA CandidatesFew ==
    ASSUME NEW m \in UsedNames, NEW catalog \in PublicCatalogs
    PROVE  IsFiniteSet(FindCandidates(m, catalog))
<1> DEFINE Scores == 90 .. 100
           P == catalog \X Scores
           A == {CatalogMatch(p[1], p[2]) : p \in P}
           f == [p \in P |-> CatalogMatch(p[1], p[2])]
<1>1. IsFiniteSet(P)
  <2>1. IsFiniteSet(catalog)
    BY ONLY CatalogsAreFinite, catalog \in PublicCatalogs, Zenon
  <2>2. IsFiniteSet(Scores)
    <3>1. 90 \in Int /\ 100 \in Int
      OBVIOUS
    <3> QED BY ONLY <3>1, FS_Interval
  <2> QED BY <2>1, <2>2, FS_Product
<1>2. f \in Surjection(P, A)
  <2>1. f \in [P -> A] /\ \A a \in A : \E p \in P : f[p] = a
    OBVIOUS
  <2> QED BY <2>1 DEF Surjection
<1>3. IsFiniteSet(A)
  BY <1>1, <1>2, FS_Surjection
<1>4. ASSUME NEW c \in FindCandidates(m, catalog) PROVE c \in A
  <2>1. c = CatalogMatch(c.entry, c.score) /\ c.entry \in catalog /\ c.score \in {100, 96, 92, 90}
    BY CandidatesAre DEF CandidateOf
  <2> DEFINE p == <<c.entry, c.score>>
  <2>2. p \in P /\ p[1] = c.entry /\ p[2] = c.score
    BY <2>1
  <2> QED BY <2>1, <2>2
<1> HIDE DEF A
<1> QED BY <1>3, <1>4, FS_Subset

\* The criteria are numbers, of which the first two tell the score and the plan.
LEMMA CriteriaAre ==
    ASSUME NEW m, NEW catalog \in PublicCatalogs, NEW c, CandidateOf(m, catalog, c)
    PROVE  /\ Criteria(m, c) \in Quintuples
           /\ Criteria(m, c)[1] = -c.score /\ c.score \in Nat
           /\ Criteria(m, c)[2] = IF PlanZero(c) THEN 1 ELSE 0
<1> DEFINE a == -c.score
           b == IF PlanZero(c) THEN 1 ELSE 0
           r == ProviderRank(m, c.entry.provider)
           d == IF c.entry.deprecated THEN 1 ELSE 0
           u == -c.entry.updated
<1>1. c.score \in {100, 96, 92, 90} /\ c.entry \in catalog
  BY DEF CandidateOf
<1>2. c.entry.updated \in Int
  BY <1>1, UpdatesAreNumbers
<1>3. a \in Int /\ b \in Int /\ d \in Int /\ u \in Int
  BY <1>1, <1>2
<1>4. r \in Int
  BY RankIs
<1>5. Criteria(m, c) = <<a, b, r, d, u>>
  BY DEF Criteria
<1> HIDE DEF a, b, r, d, u
<1>6. Criteria(m, c) \in Quintuples /\ Criteria(m, c)[1] = a /\ Criteria(m, c)[2] = b
  BY <1>3, <1>4, <1>5 DEF Quintuples
<1>7. c.score \in Nat
  BY <1>1
<1> QED BY <1>6, <1>7 DEF a, b

\* Some candidate is as good as any.
LEMMA BestIsThere ==
    ASSUME NEW m \in UsedNames, NEW catalog \in PublicCatalogs,
           NEW T \in SUBSET FindCandidates(m, catalog), T # {}
    PROVE  \E c \in T : \A d \in T : ~CandidateLess(m, d, c)
<1> DEFINE L == {p \in T \X T : CandidateLess(m, p[1], p[2])}
<1>1. IsFiniteSet(T)
  BY CandidatesFew, FS_Subset
<1>2. \A c \in T : Criteria(m, c) \in Quintuples
  BY CandidatesAre, CriteriaAre
<1>3. \A c, d \in T : <<c, d>> \in L <=> Compared(Criteria(m, c), Criteria(m, d))
  <2> TAKE c, d \in T
  <2>1. <<c, d>> \in L <=> CandidateLess(m, c, d)
    OBVIOUS
  <2>2. CandidateLess(m, c, d) <=> Compared(Criteria(m, c), Criteria(m, d))
    BY <1>2, ComparedIs DEF CandidateLess
  <2> QED BY <2>1, <2>2
<1>4. L \in SUBSET (T \X T)
  OBVIOUS
<1>a. \A c, d \in T : <<c, d>> \in L <=> CandidateLess(m, c, d)
  OBVIOUS
<1> HIDE DEF L
<1>5. \A c \in T : <<c, c>> \notin L
  BY <1>2, <1>3, ComparedOrder
<1>6. \A c, d, e \in T : <<c, d>> \in L /\ <<d, e>> \in L => <<c, e>> \in L
  BY <1>2, <1>3, ComparedOrder
<1>7. \E c \in T : \A d \in T : <<d, c>> \notin L
  BY <1>1, <1>4, <1>5, <1>6, LeastIsThere
<1> QED BY <1>7, <1>a

\* Who is not behind another has as good a score, and a plan of price zero only if the
\* other one has it.
LEMMA NotBehind ==
    ASSUME NEW m, NEW catalog \in PublicCatalogs, NEW c, CandidateOf(m, catalog, c),
           NEW d, CandidateOf(m, catalog, d), ~CandidateLess(m, d, c)
    PROVE  /\ c.score >= d.score
           /\ c.score = d.score /\ PlanZero(c) => PlanZero(d)
<1> DEFINE a == Criteria(m, c)
           b == Criteria(m, d)
<1>1. /\ a \in Quintuples /\ a[1] = -c.score /\ c.score \in Nat /\ a[2] = IF PlanZero(c) THEN 1 ELSE 0
      /\ b \in Quintuples /\ b[1] = -d.score /\ d.score \in Nat /\ b[2] = IF PlanZero(d) THEN 1 ELSE 0
  BY CriteriaAre
<1>2. ~Compared(b, a)
  BY <1>1, ComparedIs DEF CandidateLess
<1> HIDE DEF a, b
<1>3. ~(b[1] < a[1]) /\ ~(b[1] = a[1] /\ b[2] < a[2])
  BY <1>2 DEF Compared
<1>4. c.score >= d.score
  BY <1>1, <1>3
<1>5. c.score = d.score /\ PlanZero(c) => PlanZero(d)
  BY <1>1, <1>3
<1> QED BY <1>4, <1>5

\* Of the candidates with one entry the best is among those that are left.
LEMMA UniqueKeeps ==
    ASSUME NEW m \in UsedNames, NEW catalog \in PublicCatalogs, NEW c \in FindCandidates(m, catalog)
    PROVE  \E u \in Unique(m, FindCandidates(m, catalog)) : u.entry = c.entry /\ u.score >= c.score
<1> DEFINE F == FindCandidates(m, catalog)
           T == {d \in F : c.entry.provider = d.entry.provider /\ c.entry.id = d.entry.id}
<1>1. T \in SUBSET FindCandidates(m, catalog) /\ T # {} /\ c \in T
  OBVIOUS
<1> HIDE DEF T
<1>2. PICK u \in T : \A d \in T : ~CandidateLess(m, d, u)
  BY <1>1, BestIsThere
<1>3. u \in F /\ c.entry.provider = u.entry.provider /\ c.entry.id = u.entry.id
  BY DEF T
<1>4. CandidateOf(m, catalog, c) /\ CandidateOf(m, catalog, u)
  BY <1>3, CandidatesAre
<1>5. u.entry = c.entry
  <2>1. u.entry \in catalog /\ c.entry \in catalog
    BY <1>4 DEF CandidateOf
  <2> QED BY <1>3, <2>1, PreviewAssumption DEF PreviewAssumption
<1>6. u.score >= c.score
  BY <1>1, <1>2, <1>4, NotBehind
<1>7. u \in Unique(m, F)
  <2>1. ASSUME NEW d \in F, u.entry.provider = d.entry.provider, u.entry.id = d.entry.id
        PROVE  ~CandidateLess(m, d, u)
    <3>1. d \in T
      BY <1>3, <2>1 DEF T
    <3> QED BY <1>2, <3>1
  <2> HIDE DEF F
  <2> QED BY <1>3, <2>1 DEF Unique
<1> QED BY <1>5, <1>6, <1>7

\* What is offered for a model is the best there is.
LEMMA OfferIsBest ==
    ASSUME NEW m \in UsedNames, NEW catalog \in PublicCatalogs
    PROVE  LET match == MatchFromCandidates(m, Unique(m, FindCandidates(m, catalog)))
               priced == {e \in catalog : HasPrice(e) /\ Resembles(m, e)}
               alike == {e \in priced : SpelledAlike(m, e)}
           IN /\ match # <<>> => match[1].entry \in priced
              /\ priced # {} => match # <<>>
              /\ alike # {} => match[1].entry \in alike
              /\ match # <<>> /\ PlanZero(match[1]) =>
                   \A c \in FindCandidates(m, catalog) :
                     HasPrice(c.entry) /\ c.score >= match[1].score => PlanZero(c)
<1> DEFINE F == FindCandidates(m, catalog)
           U == Unique(m, F)
           P == {c \in U : HasPrice(c.entry)}
           best == CHOOSE c \in P : \A d \in P : ~CandidateLess(m, d, c)
           match == MatchFromCandidates(m, U)
           priced == {e \in catalog : HasPrice(e) /\ Resembles(m, e)}
           alike == {e \in priced : SpelledAlike(m, e)}
<1>1. U \in SUBSET F
  BY DEF Unique
<1>2. P \in SUBSET F /\ \A c \in P : HasPrice(c.entry) /\ c \in U
  BY <1>1
<1>3. match = IF P = {} THEN <<>> ELSE <<best>>
  BY DEF MatchFromCandidates
<1>4. \A c \in F : CandidateOf(m, catalog, c)
  BY CandidatesAre
<1>5. ASSUME P # {} PROVE best \in P /\ \A d \in P : ~CandidateLess(m, d, best)
  <2>1. \E c \in P : \A d \in P : ~CandidateLess(m, d, c)
    BY <1>2, <1>5, BestIsThere
  <2> HIDE DEF P
  <2> QED BY <2>1
<1>6. \A c \in F : HasPrice(c.entry) => \E u \in P : u.entry = c.entry /\ u.score >= c.score
  <2> TAKE c \in F
  <2> HAVE HasPrice(c.entry)
  <2>1. PICK u \in U : u.entry = c.entry /\ u.score >= c.score
    BY UniqueKeeps
  <2>2. u \in P
    BY <2>1
  <2> QED BY <2>1, <2>2
<1> HIDE DEF U, P, best, match
<1>7. ASSUME match # <<>> PROVE match[1] = best /\ P # {} /\ best \in F /\ best \in P
  <2>1. P # {} /\ match = <<best>>
    BY <1>3, <1>7
  <2> QED BY <1>2, <1>5, <2>1
<1>8. ASSUME match # <<>> PROVE match[1].entry \in priced
  <2>1. CandidateOf(m, catalog, best) /\ HasPrice(best.entry)
    BY <1>2, <1>4, <1>7, <1>8
  <2> QED BY <1>7, <1>8, <2>1 DEF CandidateOf
<1>9. ASSUME NEW e \in priced PROVE match # <<>>
  <2>1. PICK c \in F : c.entry = e
    BY CandidatesAre
  <2>2. P # {}
    BY <1>6, <2>1
  <2> QED BY <1>3, <2>2
<1>10. ASSUME NEW e \in alike PROVE match[1].entry \in alike
  <2>1. PICK c \in F : c.entry = e /\ c.score = 100
    BY CandidatesAre
  <2>2. PICK u \in P : u.entry = e /\ u.score >= 100
    BY <1>6, <2>1
  <2>3. match # <<>>
    BY <1>9
  <2>4. best \in P /\ best \in F /\ match[1] = best /\ ~CandidateLess(m, u, best)
    BY <1>5, <1>7, <2>3
  <2>5. CandidateOf(m, catalog, best) /\ CandidateOf(m, catalog, u)
    BY <1>2, <1>4, <2>4
  <2>6. best.score >= u.score
    BY <2>4, <2>5, NotBehind
  <2>7. best.score = 100
    <3>1. best.score \in {100, 96, 92, 90} /\ u.score \in {100, 96, 92, 90}
      BY <2>5 DEF CandidateOf
    <3> QED BY <2>2, <2>6, <3>1
  <2>8. SpelledAlike(m, best.entry)
    BY <2>5, <2>7 DEF CandidateOf
  <2>9. best.entry \in priced
    BY <1>8, <2>3, <2>4
  <2> QED BY <2>4, <2>8, <2>9
<1>11. ASSUME match # <<>>, PlanZero(match[1]), NEW c \in F, HasPrice(c.entry), c.score >= match[1].score
       PROVE  PlanZero(c)
  <2>1. match[1] = best /\ best \in P /\ best \in F /\ \A d \in P : ~CandidateLess(m, d, best)
    BY <1>5, <1>7, <1>11
  <2>2. PICK u \in P : u.entry = c.entry /\ u.score >= c.score
    BY <1>6, <1>11
  <2>3. CandidateOf(m, catalog, best) /\ CandidateOf(m, catalog, u) /\ CandidateOf(m, catalog, c)
    BY <1>2, <1>4, <2>1
  <2>4. /\ best.score >= u.score
        /\ best.score = u.score /\ PlanZero(best) => PlanZero(u)
    BY <2>1, <2>3, NotBehind
  <2>5. best.score = u.score
    <3>1. best.score \in {100, 96, 92, 90} /\ u.score \in {100, 96, 92, 90} /\ c.score \in {100, 96, 92, 90}
      BY <2>3 DEF CandidateOf
    <3> QED BY <1>11, <2>1, <2>2, <2>4, <3>1
  <2>6. PlanZero(u)
    BY <1>11, <2>1, <2>4, <2>5
  <2> QED BY <2>2, <2>6 DEF PlanZero
<1>12. /\ match # <<>> => match[1].entry \in priced
       /\ priced # {} => match # <<>>
       /\ alike # {} => match[1].entry \in alike
       /\ match # <<>> /\ PlanZero(match[1]) =>
            \A c \in F : HasPrice(c.entry) /\ c.score >= match[1].score => PlanZero(c)
  <2> HIDE DEF priced, alike, F
  <2>1. priced # {} => match # <<>>
    BY <1>9
  <2>2. alike # {} => match[1].entry \in alike
    BY <1>10
  <2>3. match # <<>> /\ PlanZero(match[1]) =>
            \A c \in F : HasPrice(c.entry) /\ c.score >= match[1].score => PlanZero(c)
    BY <1>11
  <2> QED BY <1>8, <2>1, <2>2, <2>3
<1> QED BY <1>12 DEF match, U

PreviewInv == previewFetched => publicCatalog \in PublicCatalogs

\* Nothing is fetched at the start.
LEMMA PreviewStarts == PreviewInit => PreviewInv
BY DEF PreviewInit, PreviewInv

\* What is fetched is a catalog.
LEMMA PreviewKeeps == PreviewInv /\ [FetchPublicCatalog]_previewVars => PreviewInv'
BY DEF PreviewInv, FetchPublicCatalog, previewVars

\* So what a preview offers is the best.
LEMMA OffersAreBest == PreviewInv => PreviewOffersBest
<1> SUFFICES ASSUME PreviewInv, previewFetched, NEW m \in UsedNames
             PROVE  LET match == Preview(UsedNames, publicCatalog)[m]
                        priced == {e \in publicCatalog : HasPrice(e) /\ Resembles(m, e)}
                        alike == {e \in priced : SpelledAlike(m, e)}
                    IN /\ match # <<>> => match[1].entry \in priced
                       /\ priced # {} => match # <<>>
                       /\ alike # {} => match[1].entry \in alike
                       /\ match # <<>> /\ PlanZero(match[1]) =>
                            \A c \in FindCandidates(m, publicCatalog) :
                              HasPrice(c.entry) /\ c.score >= match[1].score => PlanZero(c)
  BY DEF PreviewOffersBest
<1>1. publicCatalog \in PublicCatalogs
  BY DEF PreviewInv
<1>2. Preview(UsedNames, publicCatalog)[m]
        = MatchFromCandidates(m, Unique(m, FindCandidates(m, publicCatalog)))
  BY DEF Preview
<1> QED BY <1>1, <1>2, OfferIsBest

=============================================================================
