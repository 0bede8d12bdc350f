---------------------------- MODULE LatencyStats ----------------------------
(* How long responses take: rows by hour and by day that hold a count, the    *)
(* greatest value, a sketch (values counted in bins that grow by a factor)    *)
(* and a few samples, merged as events are aggregated page by page and again  *)
(* when a window of them is asked for. A page is prepared from the rows read  *)
(* outside of the transaction that writes it. The time to the first token is  *)
(* handled as the whole latency, and left out.                                *)
EXTENDS AnalysisQuery

CONSTANTS TimedKinds,        \* kinds of events: [key, timed, ms]
          TimedAges,         \* ages of an event at its commit
          SamplePriority,    \* id -> a number of its own, by hashing
          MaxSamplePoints,   \* samples a row keeps
          HourRetentionDays, \* days the rows of hours are kept
          MaxTimedEvents,    \* bound: number of events
          FirstLatencyTime, MaxLatencyTime    \* bound: the time

(* the rows of days are kept as long as a custom range reaches back *)
DayRetentionDays == MaxCustomDays

VARIABLES
    timedEvents,     \* committed events, the index is the id
    latencyCursor,   \* those up to this id are in the rows
    latencyRows,     \* [type, start, key, count, most, bins, samples]
    prepared,        \* a page ready to be written, or none
    latencyClock

latencyVars == <<timedEvents, latencyCursor, latencyRows, prepared, latencyClock>>

NothingPrepared == [next |-> 0, rows |-> {}, updated |-> {}]

-----------------------------------------------------------------------------
(* Sketches and samples. The bins grow by a factor of 2.                      *)

BinOf(ms) == CHOOSE k \in 0 .. ms : 2 ^ k >= ms /\ (k = 0 \/ 2 ^ (k - 1) < ms)

(* what 2 * 2^k / (2 + 1) is rounded to, and 1 at least *)
RepresentativeOf(k) == Max({1, (2 ^ (k + 2) + 3) \div 6})

MergeBins(a, b) ==
    LET at(bins, k) == IF k \in DOMAIN bins THEN bins[k] ELSE 0
    IN [k \in DOMAIN a \cup DOMAIN b |-> at(a, k) + at(b, k)]

SketchP95(count, bins) ==
    LET rank == (count * 95 + 99) \div 100
        upTo(k) == MapThenSumSet(LAMBDA j : bins[j], {j \in DOMAIN bins : j <= k})
    IN IF count = 0 THEN 0
       ELSE RepresentativeOf(Min({k \in DOMAIN bins : upTo(k) >= rank}))

(* those of the lowest priority stay *)
TrimSamples(samples) ==
    {i \in samples : Quantify(samples, LAMBDA j : SamplePriority[j] < SamplePriority[i])
                        < MaxSamplePoints}

EmptyRow == [count |-> 0, most |-> 0, bins |-> <<>>, samples |-> {}]

MergeRows(a, b) ==
    [count |-> a.count + b.count, most |-> Max({a.most, b.most}), bins |-> MergeBins(a.bins, b.bins),
     samples |-> TrimSamples(a.samples \cup b.samples)]

RowOfEvent(id) ==
    [count |-> 1, most |-> timedEvents[id].ms, bins |-> (BinOf(timedEvents[id].ms) :> 1),
     samples |-> {id}]

MergeAll(rows) == FoldSet(MergeRows, EmptyRow, rows)

-----------------------------------------------------------------------------
(* Aggregation                                                               *)

(* the first bucket that is kept *)
RetentionCutoff(type, now) ==
    IF type = "hour" THEN HourOf(now - HourRetentionDays * DayTicks)
    ELSE DayOf(now) - (DayRetentionDays - 1) * DayTicks

LatencyBucket(type, t) == IF type = "hour" THEN HourOf(t) ELSE DayOf(t)

LatencyRowsOf(ids, now) ==
    LET places == {[type |-> type, start |-> LatencyBucket(type, timedEvents[id].at),
                    key |-> OrUnknown(timedEvents[id].key)] :
                       type \in {"hour", "day"}, id \in {i \in ids : timedEvents[i].timed}}
        at(p) == {id \in ids : timedEvents[id].timed /\ OrUnknown(timedEvents[id].key) = p.key
                                 /\ LatencyBucket(p.type, timedEvents[id].at) = p.start}
    IN {[place |-> p, row |-> MergeAll({RowOfEvent(id) : id \in at(p)})] :
            p \in {q \in places : q.start >= RetentionCutoff(q.type, now)}}

LatencyInit ==
    /\ timedEvents = <<>> /\ latencyCursor = 0 /\ latencyRows = {}
    /\ prepared = NothingPrepared /\ latencyClock = FirstLatencyTime

CommitTimed ==
    /\ Len(timedEvents) < MaxTimedEvents
    /\ \E age \in TimedAges, kind \in TimedKinds :
        timedEvents' = Append(timedEvents, [at |-> latencyClock - age, key |-> kind.key,
                                            timed |-> kind.timed, ms |-> kind.ms])
    /\ UNCHANGED <<latencyCursor, latencyRows, prepared, latencyClock>>

(* read the rows that are there and merge the page into them *)
PreparePage ==
    /\ prepared = NothingPrepared
    /\ \E next \in latencyCursor + 1 .. Len(timedEvents) :
        LET incoming == LatencyRowsOf(latencyCursor + 1 .. next, latencyClock)
            existing(p) == {r \in latencyRows : r.place = p}
        IN prepared' = [next |-> next,
                        rows |-> {[r EXCEPT !.row = MergeAll({s.row : s \in existing(r.place)} \cup {@})] :
                                     r \in incoming},
                        updated |-> {r.place : r \in latencyRows} \cap {r.place : r \in incoming}]
    /\ UNCHANGED <<timedEvents, latencyCursor, latencyRows, latencyClock>>

(* rows and cursor together; nothing is written when a row has gone *)
WritePage ==
    /\ prepared # NothingPrepared
    /\ IF prepared.updated \subseteq {r.place : r \in latencyRows}
       THEN /\ latencyRows' = {r \in latencyRows : r.place \notin prepared.updated} \cup prepared.rows
            /\ latencyCursor' = prepared.next
       ELSE UNCHANGED <<latencyRows, latencyCursor>>
    /\ prepared' = NothingPrepared
    /\ UNCHANGED <<timedEvents, latencyClock>>

CleanupLatency ==
    /\ latencyRows' = {r \in latencyRows :
                          r.place.start >= RetentionCutoff(r.place.type, latencyClock)}
    /\ latencyRows' # latencyRows
    /\ UNCHANGED <<timedEvents, latencyCursor, prepared, latencyClock>>

LatencyTick ==
    /\ latencyClock < MaxLatencyTime /\ latencyClock' = latencyClock + 1
    /\ UNCHANGED <<timedEvents, latencyCursor, latencyRows, prepared>>

LatencyNext == CommitTimed \/ PreparePage \/ WritePage \/ CleanupLatency \/ LatencyTick

-----------------------------------------------------------------------------
(* The diagnostics of a window                                               *)

LatencyType(w) ==
    IF (w.range = "custom" /\ w.unit = "day") \/ w.end - w.start > DayTicks THEN "day" ELSE "hour"

LatencyRange(w) ==
    LET type == LatencyType(w)
        bounds == CASE type = "hour" -> <<NextHour(w.start), NextHour(w.end)>>
                    [] w.range = "custom" -> <<NextDay(w.start), NextDay(w.end)>>
                    [] OTHER -> <<DayOf(w.start), DayOf(w.end) + DayTicks>>
    IN [type |-> type, start |-> bounds[1], end |-> bounds[2]]

Diagnostics(range, key) ==
    LET rows == {r \in latencyRows : r.place.type = range.type /\ key \in {AnyKey, r.place.key}
                                       /\ Inside(r.place.start, range.start, range.end, FALSE)}
        merged == FoldSet(LAMBDA r, sum : MergeRows(r.row, sum), EmptyRow, rows)
    IN [total |-> merged.count, points |-> merged.samples, most |-> merged.most,
        sampled |-> merged.count > Cardinality(merged.samples),
        p95 |-> SketchP95(merged.count, merged.bins)]

(* A window finds every response aggregated that its hours or days hold, in   *)
(* whichever pages and rows they came, and though rows were cleaned away      *)
(* while a page was prepared: their number, the longest, the same samples     *)
(* that one pass over all of them would have kept, and a 95th percentile off  *)
(* by no more than the width of a bin. It takes in what the window holds but  *)
(* for less than an hour at its start.                                        *)
LatencyAgrees ==
    /\ \A w \in WindowsAt(latencyClock) :
        LET range == LatencyRange(w)
        IN /\ range.start <= NextHour(w.start) /\ range.start > w.start - DayTicks
           /\ range.end >= w.end /\ range.end <= w.end + DayTicks
    /\ \A range \in {LatencyRange(w) : w \in WindowsAt(latencyClock)},
       key \in {AnyKey, Unknown} \cup ViewedKeys :
        LET d == Diagnostics(range, key)
            these == {id \in 1 .. latencyCursor :
                        LET e == timedEvents[id]
                        IN e.timed /\ key \in {AnyKey, OrUnknown(e.key)}
                             /\ Inside(e.at, range.start, range.end, FALSE)}
            sorted == SortSeq(SetToSeq(these),
                              LAMBDA i, j : timedEvents[i].ms < timedEvents[j].ms)
            exact == timedEvents[sorted[(95 * Len(sorted) + 99) \div 100]].ms
            off == IF d.p95 > exact THEN d.p95 - exact ELSE exact - d.p95
        IN /\ d.total = Cardinality(these)
           /\ d.points = TrimSamples(these) /\ (d.sampled <=> d.points # these)
           /\ these # {} => d.most = Max({timedEvents[id].ms : id \in these}) /\ 6 * off <= 2 * exact + 3
=============================================================================
