---------------------------- MODULE RealtimeQuery ---------------------------
(* The live page: the last minutes in buckets, each point summed up over a    *)
(* window that slides over them, response times as percentiles and as single  *)
(* particles, and who used most. Times count back from the end of the page,   *)
(* which is time 0. Names are numbers, so that they can be sorted; 0 is none. *)
EXTENDS Integers, Sequences, FiniteSets, FiniteSetsExt, SequencesExt

CONSTANTS LiveWindows,     \* [span, aggregation]: of a bucket, and of a point
          LiveBuckets,     \* buckets a page shows
          LiveReach,       \* how far back the recent events reach
          LiveKeys,        \* API keys a page can be held to
          LiveAuthFiles, LiveProviders,   \* credentials that are known
          TopItems,        \* so many lead a list
          MaxParticles,    \* so many single responses are shown
          LiveKinds,       \* kinds of events
          LiveAges,        \* ages of events, beyond the reach too
          MaxLiveRows      \* bound: number of events

NoName == 0

LiveAggregation(w) == Max({1, (w.aggregation + w.span - 1) \div w.span})
LiveStart(w) == -LiveBuckets * w.span

(* buckets before the page that its first points still need *)
LiveWarmup(w) == LiveAggregation(w) - 1

LiveReadStart(w) == LiveStart(w) - LiveWarmup(w) * w.span

(* The live page asks the recent events without asking how far back they go  *)
ASSUME LiveReachAssumption ==
    /\ LiveBuckets \in Nat \ {0} /\ MaxParticles \in Nat \ {0}
    /\ \A w \in LiveWindows : LiveReadStart(w) > -LiveReach

VARIABLE liveRows    \* committed events, in the order of their commits

LiveInit == liveRows = <<>>

LiveNext ==
    /\ Len(liveRows) < MaxLiveRows
    /\ \E age \in LiveAges, kind \in LiveKinds :
        liveRows' = Append(liveRows, [at |-> -age, kind |-> kind])

-----------------------------------------------------------------------------
OfLiveKey(i, key) == key \in {NoName, liveRows[i].kind.key}

LoadedLive(w, key) ==
    {i \in DOMAIN liveRows :
        /\ OfLiveKey(i, key) /\ liveRows[i].at >= -LiveReach
        /\ liveRows[i].at >= LiveReadStart(w) /\ liveRows[i].at < 0}

LiveIndex(w, at) ==
    Min({(at - LiveReadStart(w)) \div w.span, LiveBuckets + LiveWarmup(w) - 1})

VisibleLive(w, key) == {i \in LoadedLive(w, key) : liveRows[i].at >= LiveStart(w)}

HasTokens(i) == ~liveRows[i].kind.failed /\ liveRows[i].kind.tokens > 0
IsTimed(i) ==
    LET k == liveRows[i].kind
    IN ~k.failed /\ k.generate /\ k.ttft > 0 /\ k.latency > 0

TokensOf(rows) == MapThenSumSet(LAMBDA i : liveRows[i].kind.tokens, {i \in rows : HasTokens(i)})

-----------------------------------------------------------------------------
(* The points                                                                *)

RollingRows(w, key, index) ==
    {i \in LoadedLive(w, key) :
        LiveIndex(w, liveRows[i].at) \in Max({0, index - LiveAggregation(w) + 1}) .. index}

(* the smallest value that so many percent do not exceed *)
LivePercentile(values, percent) ==
    LET n == Len(values)
        rank == (percent * n + 99) \div 100
    IN IF n = 0 THEN NoName ELSE SortSeq(values, <)[Max({1, Min({rank, n})})]

LivePoint(w, key, index) ==
    LET rows == RollingRows(w, key, index)
        timed == SetToSeq({i \in rows : IsTimed(i)})
        ttft == [j \in DOMAIN timed |-> liveRows[timed[j]].kind.ttft]
        latency == [j \in DOMAIN timed |-> liveRows[timed[j]].kind.latency]
    IN [requests |-> Cardinality(rows), tokens |-> TokensOf(rows), timed |-> Len(timed),
        ttft |-> <<LivePercentile(ttft, 50), LivePercentile(ttft, 95)>>,
        latency |-> <<LivePercentile(latency, 50), LivePercentile(latency, 95)>>]

LivePoints(w, key) ==
    [j \in 1 .. LiveBuckets |-> LivePoint(w, key, LiveWarmup(w) + j - 1)]

-----------------------------------------------------------------------------
(* The particles: bucket by bucket, thinned out when they are too many       *)

AllParticles(w, key) ==
    LET earlier(i, j) == LET a == LiveIndex(w, liveRows[i].at)
                             b == LiveIndex(w, liveRows[j].at)
                         IN a < b \/ (a = b /\ i < j)
        rows == SetToSortSeq({i \in VisibleLive(w, key) : IsTimed(i)}, earlier)
    IN [j \in DOMAIN rows |->
           [at |-> liveRows[rows[j]].at, ms |-> liveRows[rows[j]].kind.latency, count |-> 1]]

CountOfParticles(particles) ==
    FoldLeft(LAMBDA sum, p : sum + (IF p.count <= 0 THEN 1 ELSE p.count), 0, particles)

(* neighbours in time make a group, shown by the one in its middle *)
SampledParticles(particles) ==
    LET n == Len(particles)
        sorted == SortSeq(particles, LAMBDA a, b : a.at < b.at \/ (a.at = b.at /\ a.ms < b.ms))
        bound(g) == (g * n) \div MaxParticles
        group(g) == SubSeq(sorted, bound(g - 1) + 1, Max({bound(g), bound(g - 1) + 1}))
    IN [g \in 1 .. MaxParticles |->
           [group(g)[Len(group(g)) \div 2 + 1] EXCEPT !.count = CountOfParticles(group(g))]]

LiveParticles(w, key) ==
    LET particles == AllParticles(w, key)
    IN IF Len(particles) <= MaxParticles THEN particles ELSE SampledParticles(particles)

-----------------------------------------------------------------------------
(* Who used most                                                             *)

(* the credential of an event: one that is known, or what the event says it is *)
LiveTarget(kind) ==
    LET key == IF kind.auth # NoName THEN kind.auth ELSE kind.label
    IN CASE kind.auth # NoName /\ kind.auth \in LiveAuthFiles -> <<"file", kind.auth>>
         [] kind.auth # NoName /\ kind.auth \in LiveProviders \ LiveAuthFiles ->
                <<"provider", kind.auth>>
         [] OTHER -> IF key = NoName THEN <<"none", NoName>> ELSE <<kind.fallback, key>>

(* rows by the name each of them has *)
LiveTop(nameOf) ==
    LET of(name) == {i \in DOMAIN nameOf : nameOf[i] = name}
        names == {n \in Range(nameOf) : TokensOf(of(n)) > 0}
        before(a, b) == LET s == TokensOf(of(a))
                            t == TokensOf(of(b))
                        IN s > t \/ (s = t /\ a < b)
        sorted == SetToSortSeq(names, before)
        item(n) == [name |-> n, tokens |-> TokensOf(of(n)), requests |-> Cardinality(of(n)),
                    outOf |-> TokensOf(UNION {of(m) : m \in names})]
    IN [j \in 1 .. Min({Len(sorted), TopItems}) |-> item(sorted[j])]

(* a viewer is shown the models alone *)
LivePage(w, viewer, key) ==
    LET held == IF viewer # NoName THEN viewer ELSE key
        rows == VisibleLive(w, held)
        targets(sort) == {i \in rows : LiveTarget(liveRows[i].kind)[1] = sort}
        named(targeted) == [i \in targeted |-> LiveTarget(liveRows[i].kind)[2]]
        hidden(list) == IF viewer = NoName THEN list ELSE <<>>
    IN [points |-> LivePoints(w, held), particles |-> LiveParticles(w, held),
        models |-> LiveTop([i \in rows |-> liveRows[i].kind.model]),
        apiKeys |-> hidden(LiveTop([i \in rows |-> liveRows[i].kind.key])),
        authFiles |-> hidden(LiveTop(named(targets("file")))),
        aiProviders |-> hidden(LiveTop(named(targets("provider"))))]

-----------------------------------------------------------------------------
(* what the page of a window shows to a viewer is compared with the rows      *)
LiveRowsOf(viewer, from, to) ==
    {i \in DOMAIN liveRows : /\ OfLiveKey(i, viewer)
                             /\ liveRows[i].at >= from /\ liveRows[i].at < to}

IsPercentile(v, percent, values) ==
    /\ 100 * Quantify(DOMAIN values, LAMBDA i : values[i] <= v) >= percent * Cardinality(DOMAIN values)
    /\ 100 * Quantify(DOMAIN values, LAMBDA i : values[i] < v) < percent * Cardinality(DOMAIN values)

PointShows(point, stretch) ==
    LET values == [i \in {i \in stretch : IsTimed(i)} |-> liveRows[i].kind.latency]
    IN /\ point.requests = Cardinality(stretch) /\ point.tokens = TokensOf(stretch)
       /\ point.timed > 0 => /\ IsPercentile(point.latency[1], 50, values)
                             /\ IsPercentile(point.latency[2], 95, values)

ParticlesShow(particles, shown) ==
    LET count == CountOfParticles(particles)
    IN /\ count = Quantify(shown, IsTimed) /\ Len(particles) <= MaxParticles
       /\ count > Len(particles) =>
            \A j \in 1 .. Len(particles) - 1 : particles[j].at <= particles[j + 1].at

ModelsLead(models, shown) ==
    \A j \in DOMAIN models :
        LET of(name) == {i \in shown : liveRows[i].kind.model = name}
            listed == {models[n].name : n \in 1 .. j}
        IN /\ models[j].outOf = TokensOf(shown)
           /\ models[j].requests = Cardinality(of(models[j].name))
           /\ \A i \in shown : liveRows[i].kind.model \notin listed =>
                TokensOf(of(liveRows[i].kind.model)) <= models[j].tokens

TokensListed(list) == MapThenSumSet(LAMBDA j : list[j].tokens, DOMAIN list)

CredentialsShow(authFiles, aiProviders, shown) ==
    Max({Len(authFiles), Len(aiProviders)}) < TopItems =>
        TokensListed(authFiles) + TokensListed(aiProviders)
          = TokensOf({i \in shown : LiveTarget(liveRows[i].kind)[1] # "none"})

PageShows(page, w, viewer, shown) ==
    /\ \A j \in 1 .. LiveBuckets :
         LET end == LiveStart(w) + j * w.span
         IN PointShows(page.points[j], LiveRowsOf(viewer, end - LiveAggregation(w) * w.span, end))
    /\ ParticlesShow(page.particles, shown)
    /\ ModelsLead(page.models, shown)
    /\ viewer = NoName => CredentialsShow(page.authFiles, page.aiProviders, shown)

(* Every point sums up just the events of the stretch of time that ends with  *)
(* its bucket, the first points as well as the last; a percentile is a value  *)
(* that so many of the responses do not exceed and the least such. Thinned    *)
(* out particles still stand for every response and stay in order of time.    *)
(* A list leads with those who used most, ties and failed requests included,  *)
(* and its shares are of everything used, shown or not.                       *)
LivePageAgrees ==
    \A w \in LiveWindows, viewer \in {NoName} \cup LiveKeys :
        PageShows(LivePage(w, viewer, NoName), w, viewer, LiveRowsOf(viewer, LiveStart(w), 0))
=============================================================================
