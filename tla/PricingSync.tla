----------------------------- MODULE PricingSync -----------------------------
(* The preview of a price synchronisation: for every model in use the public  *)
(* catalog is searched for entries of the same or a similar name, and of the  *)
(* entries found the best one that has a price is offered.                    *)
(* A name is [prefix, word, marks, upper]: what stands before the last slash, *)
(* the rest, and whether it has punctuation marks or capital letters.         *)
EXTENDS Integers, FiniteSets, FiniteSetsExt, SequencesExt

CONSTANTS UsedNames,       \* names of models in use
          PublicCatalogs,  \* what the fetch may return: sets of entries [provider,
                           \* id, name, input, output, read, updated, deprecated],
                           \* amounts as sequences that are empty when missing
          FamilyOf,        \* word -> family of models
          Officials,       \* family -> its official providers, best first
          ProviderOrder,   \* all other providers, best first
          PlanProviders    \* providers whose price of a plan may be zero

VARIABLES publicCatalog,   \* what the preview has fetched
          previewFetched

previewVars == <<publicCatalog, previewFetched>>

Unnamed == [prefix |-> "", word |-> "", marks |-> FALSE, upper |-> FALSE]
IsName(n) == n = [prefix |-> n.prefix, word |-> n.word, marks |-> n.marks, upper |-> n.upper]

(* What is left of a used model's name behind its last slash is never empty   *)
(* (stripPricingModelPrefix), and the catalog keeps the models of a provider  *)
(* by their ids.                                                              *)
ASSUME PreviewAssumption ==
    /\ \A m \in UsedNames : IsName(m) /\ m.word # ""
    /\ \A catalog \in PublicCatalogs :
         /\ IsFiniteSet(catalog)
         /\ \A e \in catalog : IsName(e.id) /\ IsName(e.name) /\ e.updated \in Int
         /\ \A d, e \in catalog : d.provider = e.provider /\ d.id = e.id => d = e
    /\ \A w \in DOMAIN FamilyOf : Officials[FamilyOf[w]] \in Seq(STRING)
    /\ ProviderOrder \in Seq(STRING)

-----------------------------------------------------------------------------
(* Names                                                                     *)

Lower(n) == [n EXCEPT !.upper = FALSE]
StripPrefix(n) == [n EXCEPT !.prefix = ""]
NormalizedKey(n) == [n EXCEPT !.marks = FALSE, !.upper = FALSE]

(* the keys an entry is found by *)
ExactKeys(e) == {Lower(n) : n \in {e.id, e.name, StripPrefix(e.id), StripPrefix(e.name)}}
                  \ {Unnamed}
NormalizedKeys(e) == {NormalizedKey(n) : n \in {e.id, e.name, StripPrefix(e.id),
                                                 StripPrefix(e.name)}} \ {Unnamed}

-----------------------------------------------------------------------------
(* Candidates                                                                *)

CatalogMatch(e, score) == [entry |-> e, score |-> score]

FindCandidates(model, catalog) ==
    LET exact(n, score) == {CatalogMatch(e, score) : e \in {c \in catalog : Lower(n) \in ExactKeys(c)}}
        similar(n, score) == {CatalogMatch(e, score) :
                                e \in {c \in catalog : NormalizedKey(n) \in NormalizedKeys(c)}}
        suffix == StripPrefix(model)
    IN IF suffix # model
       THEN exact(suffix, 100) \cup similar(suffix, 96) \cup exact(model, 92) \cup similar(model, 90)
       ELSE exact(model, 100) \cup similar(model, 92)

(* a plan that is paid for otherwise *)
PlanZero(c) == /\ c.entry.provider \in PlanProviders
               /\ c.entry.input = <<0>> /\ c.entry.output = <<0>>

Position(seq, x) == Min({i \in DOMAIN seq : seq[i] = x})

(* official providers of the family first *)
ProviderRank(model, provider) ==
    LET official == IF model.word \in DOMAIN FamilyOf THEN Officials[FamilyOf[model.word]] ELSE <<>>
    IN IF Contains(official, provider) THEN Position(official, provider)
       ELSE 100 + (IF Contains(ProviderOrder, provider) THEN Position(ProviderOrder, provider) ELSE 100)

(* the criteria in their order, smaller is better; names decide at last        *)
Criteria(model, c) ==
    <<-c.score, IF PlanZero(c) THEN 1 ELSE 0, ProviderRank(model, c.entry.provider),
      IF c.entry.deprecated THEN 1 ELSE 0, -c.entry.updated>>

Before(a, b) == \E i \in DOMAIN a : a[i] < b[i] /\ \A j \in 1 .. i - 1 : a[j] = b[j]

CandidateLess(model, a, b) == Before(Criteria(model, a), Criteria(model, b))

(* of the candidates for one model of one provider the best remains           *)
Unique(model, found) ==
    LET same(a, b) == a.entry.provider = b.entry.provider /\ a.entry.id = b.entry.id
    IN {c \in found : ~\E d \in found : same(c, d) /\ CandidateLess(model, d, c)}

HasPrice(e) == /\ e.input # <<>> /\ e.output # <<>>
               /\ e.input[1] >= 0 /\ e.output[1] >= 0
               /\ e.read # <<>> => e.read[1] >= 0

(* the first one in their order that has a price *)
MatchFromCandidates(model, candidates) ==
    LET priced == {c \in candidates : HasPrice(c.entry)}
    IN IF priced = {} THEN <<>>
       ELSE <<CHOOSE c \in priced : \A d \in priced : ~CandidateLess(model, d, c)>>

Preview(models, catalog) ==
    [m \in models |-> MatchFromCandidates(m, Unique(m, FindCandidates(m, catalog)))]

-----------------------------------------------------------------------------
PreviewInit == publicCatalog = {} /\ previewFetched = FALSE

FetchPublicCatalog ==
    /\ ~previewFetched
    /\ publicCatalog' \in PublicCatalogs /\ previewFetched' = TRUE

-----------------------------------------------------------------------------
(* A name that is the entry's but for its prefix, marks and capital letters.  *)
Resembles(model, e) == \E n \in {e.id, e.name} : n.word = model.word /\ n # Unnamed
SpelledAlike(model, e) == \E n \in {e.id, e.name} : /\ n.word = model.word
                                                    /\ n.marks = model.marks

(* Every model that an entry with a price is named like gets a price, and of  *)
(* an entry that is spelled like it if there is one with a price. A plan of   *)
(* price zero is offered only when no other entry of the same standing has a  *)
(* price.                                                                     *)
PreviewOffersBest ==
    previewFetched =>
        \A m \in UsedNames :
            LET match == Preview(UsedNames, publicCatalog)[m]
                priced == {e \in publicCatalog : HasPrice(e) /\ Resembles(m, e)}
                alike == {e \in priced : SpelledAlike(m, e)}
            IN /\ match # <<>> => match[1].entry \in priced
               /\ priced # {} => match # <<>>
               /\ alike # {} => match[1].entry \in alike
               /\ match # <<>> /\ PlanZero(match[1]) =>
                    \A c \in FindCandidates(m, publicCatalog) :
                        HasPrice(c.entry) /\ c.score >= match[1].score => PlanZero(c)
=============================================================================
