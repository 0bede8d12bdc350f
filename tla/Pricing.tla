------------------------------- MODULE Pricing -------------------------------
(* Model prices and their rules: changes are made one at a time, committed to *)
(* the tables together with the check that all of it still compiles, and then *)
(* published as one immutable snapshot; a page of statistics keeps the        *)
(* snapshot it started with and prices groups of events with it.              *)
(* Amounts are counted in units of MaxSegment tokens at most; beyond          *)
(* MaxFinite a cost is no finite number any more.                             *)
EXTENDS Integers, FiniteSets, FiniteSetsExt, SequencesExt

CONSTANTS PriceInputs,     \* what may be saved: [model, prices, multiplier], the
                           \* last one a sequence, empty when it is not given
          RuleInputs,      \* sets of rules [field, value, multiplier] to be saved
          PricedKinds,     \* kinds of events: [dims, tokens, total], dims a function
                           \* from model, model_alias and the RuleFields to values
          RuleFields,      \* dimensions that are read only when a rule needs them
          MaxSegment, MaxFinite,
          MaxPricedRows, MaxPriceChanges   \* bounds: events, accepted changes

VARIABLES
    priceTable,      \* model -> [prices, multiplier, rules], of those that are priced
    priceCatalog,    \* the published snapshot
    priceChange,     \* what a change has committed and not yet published
    pricedRows,      \* usage events: [id, kind]
    pricedPage,      \* a page that is computed: [stage, resolver, groups, read]
    priceChanges     \* changes accepted so far

pricingVars == <<priceTable, priceCatalog, priceChange, pricedRows, pricedPage, priceChanges>>

Segments4 == {"input", "output", "read", "write"}
AllFields == {"model", "model_alias"} \cup RuleFields
NoPrices == [m \in {} |-> 0]

(* Requests and sets of rules are finite; tokens of stored events are counted *)
(* from 0 on (tokenprocessor).                                                *)
ASSUME PricingAssumption ==
    /\ IsFiniteSet(PriceInputs) /\ IsFiniteSet(RuleFields)
    /\ \A i \in PriceInputs : i.prices \in [Segments4 -> Int] /\ i.multiplier \in Seq(Int)
    /\ \A rules \in RuleInputs : IsFiniteSet(rules) /\ \A r \in rules : r.multiplier \in Int
    /\ \A k \in PricedKinds : k.tokens \in [Segments4 -> Nat] /\ k.total \in Nat
    /\ MaxSegment \in Nat /\ MaxFinite \in Nat

-----------------------------------------------------------------------------
(* Snapshots                                                                 *)

(* the largest multiplier that rules of one field can add *)
LargestOf(rules, field) == Max({1} \cup {r.multiplier : r \in {q \in rules : q.field = field}})
RuleBound(rules) == FoldSet(LAMBDA f, product : LargestOf(rules, f) * product, 1, AllFields)
WorstCase(c) == MapThenSumSet(LAMBDA s : c.prices[s] * MaxSegment, Segments4)

(* whatever is counted, its cost is a finite number *)
WorstCaseFinite(c) ==
    LET factor == c.multiplier * RuleBound(c.rules)
    IN c.multiplier > 0 => /\ RuleBound(c.rules) <= MaxFinite /\ factor <= MaxFinite
                           /\ WorstCase(c) <= MaxFinite
                           /\ WorstCase(c) * factor <= MaxFinite

Compilable(table) == \A m \in DOMAIN table : WorstCaseFinite(table[m])

(* rules that change nothing are left out *)
ActiveRules(c) == {r \in c.rules : r.multiplier # 1}
CompileSnapshot(table) ==
    [models |-> [m \in DOMAIN table |-> [table[m] EXCEPT !.rules = ActiveRules(table[m])]],
     fields |-> {r.field : r \in UNION {ActiveRules(table[m]) : m \in DOMAIN table}}]

-----------------------------------------------------------------------------
(* The cost of tokens of one kind                                            *)

Positive(n) == IF n > 0 THEN n ELSE 0
Uncached(t) == Positive(Positive(t.input) - Positive(t.read) - Positive(t.write))

MatchedModel(snapshot, dims) ==
    CASE dims["model"] \in DOMAIN snapshot.models -> <<dims["model"]>>
      [] dims["model"] \notin DOMAIN snapshot.models
         /\ dims["model_alias"] \in DOMAIN snapshot.models -> <<dims["model_alias"]>>
      [] OTHER -> <<>>

RuleMultiplier(rules, dims) ==
    FoldSet(LAMBDA r, product : r.multiplier * product, 1,
            {r \in rules : dims[r.field] = r.value})

BaseCost(c, t) == Uncached(t) * c.prices["input"] + Positive(t.output) * c.prices["output"]
                    + Positive(t.read) * c.prices["read"] + Positive(t.write) * c.prices["write"]

RequiresPricing(t) == \E s \in Segments4 : t[s] > 0

Calculate(snapshot, dims, t) ==
    LET matched == MatchedModel(snapshot, dims)
        c == snapshot.models[matched[1]]
    IN IF matched = <<>> THEN [available |-> ~RequiresPricing(t), cost |-> 0]
       ELSE [available |-> TRUE,
             cost |-> IF c.multiplier = 0 THEN 0
                      ELSE BaseCost(c, t) * c.multiplier * RuleMultiplier(c.rules, dims)]

-----------------------------------------------------------------------------
(* Groups: the aggregation keeps one row for all dimensions of an hour; a page *)
(* reads them summed up over the dimensions no rule needs, each row's uncached *)
(* input computed before the sum                                               *)

SumTokens(events) == [s \in Segments4 |-> MapThenSumSet(LAMBDA e : e.kind.tokens[s], events)]

(* dimensions that are not read are empty *)
ReadDims(dims, fields) ==
    [f \in AllFields |-> IF f \in {"model", "model_alias"} \cup fields THEN dims[f] ELSE ""]

Grouped(events, fields) ==
    {[dims |-> d, tokens |-> SumTokens({e \in events : ReadDims(e.kind.dims, fields) = d})] :
        d \in {ReadDims(e.kind.dims, fields) : e \in events}}

HourlyRows(events) == Grouped(events, RuleFields)

Projected(rows, fields) ==
    LET of(d) == {r \in rows : ReadDims(r.dims, fields) = d}
        sum(d, amount(_)) == MapThenSumSet(LAMBDA r : amount(r.tokens), of(d))
        tokens(d) == [output |-> sum(d, LAMBDA t : Positive(t.output)),
                      read |-> sum(d, LAMBDA t : Positive(t.read)),
                      write |-> sum(d, LAMBDA t : Positive(t.write)),
                      input |-> sum(d, LAMBDA t : Uncached(t) + Positive(t.read)
                                                    + Positive(t.write))]
    IN {[dims |-> d, tokens |-> tokens(d)] : d \in {ReadDims(r.dims, fields) : r \in rows}}

PriceOfGroups(snapshot, groups) ==
    LET result(g) == Calculate(snapshot, g.dims, g.tokens)
    IN [available |-> \A g \in groups : result(g).available,
        cost |-> MapThenSumSet(LAMBDA g : result(g).cost, groups)]

(* The usage of a quota window is summed up without looking at single rows.   *)
(* Tokens of a model without a price make it incomplete, and so do those that *)
(* old rows counted in total only, which a page takes for none.               *)
TotalOf(events) == MapThenSumSet(LAMBDA e : e.kind.total, events)

PriceOfWindow(snapshot, events) ==
    LET fields == snapshot.fields
        groups == Grouped(events, fields)
        total(g) == TotalOf({e \in events : ReadDims(e.kind.dims, fields) = g.dims})
        price == PriceOfGroups(snapshot, groups)
    IN [available |-> /\ price.available
                      /\ \A g \in groups : total(g) > 0 => MatchedModel(snapshot, g.dims) # <<>>,
        cost |-> price.cost]

PriceOfEvents(snapshot, events) ==
    LET result(e) == Calculate(snapshot, e.kind.dims, e.kind.tokens)
    IN [available |-> \A e \in events : result(e).available,
        cost |-> MapThenSumSet(LAMBDA e : result(e).cost, events)]

-----------------------------------------------------------------------------
NoPage == [stage |-> "closed", resolver |-> CompileSnapshot(NoPrices), groups |-> {}, read |-> {}]

PricingInit ==
    /\ priceTable = NoPrices /\ priceCatalog = CompileSnapshot(NoPrices) /\ priceChange = <<>>
    /\ pricedRows = {} /\ pricedPage = NoPage /\ priceChanges = 0

(* one change at a time: tables and check in a transaction, the mutex kept    *)
(* until the result is published; what does not compile is rolled back        *)
MutatePricing(table) ==
    /\ priceChange = <<>> /\ priceChanges < MaxPriceChanges
    /\ Compilable(table)
    /\ priceTable' = table /\ priceChange' = <<CompileSnapshot(table)>>
    /\ priceChanges' = priceChanges + 1
    /\ UNCHANGED <<priceCatalog, pricedRows, pricedPage>>

AcceptedPrice(i) ==
    /\ i.model # "" /\ \A s \in Segments4 : i.prices[s] >= 0
    /\ i.multiplier # <<>> => i.multiplier[1] >= 0

(* a model that is priced already keeps its rules *)
UpsertPrice(table, i) ==
    LET rules == IF i.model \in DOMAIN table THEN table[i.model].rules ELSE {}
        row == [prices |-> i.prices, rules |-> rules,
                multiplier |-> IF i.multiplier = <<>> THEN 1 ELSE i.multiplier[1]]
    IN [m \in DOMAIN table \cup {i.model} |-> IF m = i.model THEN row ELSE table[m]]

UpdatePricingBatch ==
    \E batch \in (SUBSET PriceInputs) \ {{}} :
        /\ \A i \in batch : AcceptedPrice(i)
        /\ \A i, j \in batch : i.model = j.model => i = j
        /\ MutatePricing(FoldSet(LAMBDA i, table : UpsertPrice(table, i), priceTable, batch))

(* its rules go with it *)
DeletePricing ==
    \E m \in {i.model : i \in PriceInputs} :
        MutatePricing([n \in DOMAIN priceTable \ {m} |-> priceTable[n]])

AcceptedRules(rules) ==
    /\ \A r \in rules : r.field \in AllFields /\ r.value # "" /\ r.multiplier >= 0
    /\ \A r, q \in rules : r.field = q.field /\ r.value = q.value => r = q

ReplacePricingRules ==
    \E m \in DOMAIN priceTable, rules \in RuleInputs :
        /\ AcceptedRules(rules)
        /\ MutatePricing([priceTable EXCEPT ![m].rules = rules])

PublishPricing ==
    /\ priceChange # <<>>
    /\ priceCatalog' = priceChange[1] /\ priceChange' = <<>>
    /\ UNCHANGED <<priceTable, pricedRows, pricedPage, priceChanges>>

(* the process ends, also before a change is published, and starts again *)
RestartPricing ==
    /\ Compilable(priceTable)
    /\ priceCatalog' = CompileSnapshot(priceTable) /\ priceChange' = <<>> /\ pricedPage' = NoPage
    /\ UNCHANGED <<priceTable, pricedRows, priceChanges>>

CommitPricedRow ==
    /\ Cardinality(pricedRows) < MaxPricedRows
    /\ \E kind \in PricedKinds :
        pricedRows' = pricedRows \cup {[id |-> Cardinality(pricedRows) + 1, kind |-> kind]}
    /\ UNCHANGED <<priceTable, priceCatalog, priceChange, pricedPage, priceChanges>>

OpenPage ==
    /\ pricedPage.stage = "closed"
    /\ pricedPage' = [NoPage EXCEPT !.stage = "open", !.resolver = priceCatalog]
    /\ UNCHANGED <<priceTable, priceCatalog, priceChange, pricedRows, priceChanges>>

(* Mutant: the rows are read by the fields of the prices of this moment. *)
ReadByCurrentFields(page) ==
    [page EXCEPT !.stage = "read", !.read = pricedRows,
                 !.groups = Projected(HourlyRows(pricedRows), priceCatalog.fields)]

ReadGroups(page) ==
    [page EXCEPT !.stage = "read", !.read = pricedRows,
                 !.groups = Projected(HourlyRows(pricedRows), page.resolver.fields)]

ReadPricedPage ==
    /\ pricedPage.stage = "open"
    /\ pricedPage' = ReadGroups(pricedPage)
    /\ UNCHANGED <<priceTable, priceCatalog, priceChange, pricedRows, priceChanges>>

ClosePage ==
    /\ pricedPage.stage = "read" /\ pricedPage' = NoPage
    /\ UNCHANGED <<priceTable, priceCatalog, priceChange, pricedRows, priceChanges>>

PricingNext ==
    \/ UpdatePricingBatch \/ DeletePricing \/ ReplacePricingRules \/ PublishPricing
    \/ RestartPricing \/ CommitPricedRow \/ OpenPage \/ ReadPricedPage \/ ClosePage

-----------------------------------------------------------------------------
(* No input has fewer tokens than were read from and written to the cache.    *)
Regular(events) ==
    \A e \in events : LET t == e.kind.tokens IN t.input >= t.read + t.write

(* A page shows what its events cost, one by one, at the prices of the moment *)
(* it was opened, however they are grouped and whatever is saved meanwhile; a *)
(* price is missing when it is for one of them, and for a quota window also   *)
(* when one of them has tokens of any kind and no model that is priced. Where *)
(* events have less input than cache, groups make up for it in part: they     *)
(* cost less, never more.                                                     *)
PagesPriceOnce ==
    pricedPage.stage = "read" =>
        LET page == PriceOfGroups(pricedPage.resolver, pricedPage.groups)
            window == PriceOfWindow(pricedPage.resolver, pricedPage.read)
            single == PriceOfEvents(pricedPage.resolver, pricedPage.read)
            matched(e) == MatchedModel(pricedPage.resolver, e.kind.dims) # <<>>
        IN /\ page.available = single.available
           /\ window.available = /\ single.available
                                 /\ \A e \in pricedPage.read : e.kind.total > 0 => matched(e)
           /\ Regular(pricedPage.read) => page.cost = single.cost /\ window.cost = single.cost
           /\ window.cost <= page.cost /\ page.cost <= single.cost

(* What is published is what is stored, but for the change being made; what   *)
(* is stored can be compiled, so that the process starts again; and no event  *)
(* that can be counted costs more than a number can hold.                     *)
PricesArePublished ==
    /\ IF priceChange = <<>> THEN priceCatalog = CompileSnapshot(priceTable)
       ELSE priceChange[1] = CompileSnapshot(priceTable)
    /\ Compilable(priceTable)
    /\ \A kind \in PricedKinds :
         (\A s \in Segments4 : kind.tokens[s] <= MaxSegment) =>
             Calculate(priceCatalog, kind.dims, kind.tokens).cost <= MaxFinite
=============================================================================
