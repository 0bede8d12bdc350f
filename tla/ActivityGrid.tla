---------------------------- MODULE ActivityGrid ----------------------------
(* The grid of activity: every event is counted in one block of each grain,   *)
(* a page shows the last HeatmapBlocks blocks of the grain its range calls    *)
(* for. Blocks of the short grain divide the calendar day, which may be an    *)
(* hour shorter or longer, those of the medium and long grain divide time     *)
(* from its beginning, and the daily ones are the days. A tick is a second;   *)
(* blocks are not all of one length, a boundary being rounded down to it.     *)
EXTENDS Integers, Sequences, FiniteSets, FiniteSetsExt, SequencesExt

CONSTANTS HeatmapBlocks,        \* blocks of a grid
          Midnights,            \* when the calendar days begin
          NominalDay,           \* a day by the clock
          WeekDays, MonthLength, \* days of the medium and of the long window
          ActivityKinds,        \* kinds of events: [key, failed]
          ActivityOffsets,      \* event time less the time of its commit
          MaxActivityEvents,    \* bound: number of events
          FirstActivityTime, MaxActivityTime    \* bound: the time

Grains == {"short", "medium", "long", "daily"}
NoKey == ""
UnknownKey == "unknown"

VARIABLES
    activityEvents,   \* committed events, the index is the id
    activityCursor,   \* those up to this id are counted
    activityStats,    \* rows: [grain, start, key, end, success, failure]
    activityClock

activityVars == <<activityEvents, activityCursor, activityStats, activityClock>>

-----------------------------------------------------------------------------
(* Blocks                                                                    *)

DayBegin(t) == Max({m \in Midnights : m <= t})
DayEnd(t) == Min({m \in Midnights : m > t})

Block(start, end) == [start |-> start, end |-> end]

(* the block is guessed by division and then moved to where the time is *)
CalendarBlock(t) ==
    LET begin == DayBegin(t)
        length == DayEnd(t) - begin
        boundary(i) == begin + (i * length) \div HeatmapBlocks
        guess == ((t - begin) * HeatmapBlocks) \div length
        index == Max({i \in guess .. guess + 1 : i < HeatmapBlocks /\ boundary(i) <= t})
    IN Block(boundary(index), boundary(index + 1))

WindowLength(grain) == NominalDay * (IF grain = "medium" THEN WeekDays ELSE MonthLength)

FixedBoundary(grain, i) == (i * WindowLength(grain)) \div HeatmapBlocks

FixedIndex(grain, t) ==
    LET guess == (t * HeatmapBlocks) \div WindowLength(grain)
    IN Max({i \in guess .. guess + 1 : FixedBoundary(grain, i) <= t})

FixedBlock(grain, i) == Block(FixedBoundary(grain, i), FixedBoundary(grain, i + 1))

BlockAt(grain, t) ==
    CASE grain = "short" -> CalendarBlock(t)
      [] grain = "daily" -> Block(DayBegin(t), DayEnd(t))
      [] OTHER -> FixedBlock(grain, FixedIndex(grain, t))

(* where the last block of a window ends: with the block that is running, or *)
(* with the one before when the next has just begun                          *)
WindowEnd(grain, t) ==
    LET block == BlockAt(grain, t)
    IN IF t = block.start THEN t ELSE block.end

(* block by block back from its end; by number for the grains of fixed blocks *)
BlocksEndingAt(grain, t) ==
    LET last == HeatmapBlocks
        end == WindowEnd(grain, t)
        cut[i \in 0 .. last] == IF i = 0 THEN end ELSE BlockAt(grain, cut[i - 1] - 1).start
        first == FixedIndex(grain, end) - last
    IN [j \in 1 .. last |-> IF grain \in {"short", "daily"} THEN Block(cut[last - j + 1], cut[last - j])
                            ELSE FixedBlock(grain, first + j - 1)]

-----------------------------------------------------------------------------
(* Counting                                                                  *)

Unlimited == 0
Retention(grain) ==
    NominalDay * (CASE grain = "short" -> 3
                    [] grain = "medium" -> WeekDays + 1
                    [] grain = "long" -> MonthLength + 1
                    [] OTHER -> Unlimited)

TooOld(grain, t, now) == Retention(grain) # Unlimited /\ t < now - Retention(grain)

KeyOrUnknown(key) == IF key = NoKey THEN UnknownKey ELSE key

(* what a page of events adds to the rows *)
ActivityRows(ids, now) ==
    LET at(id) == activityEvents[id].at
        counted == {p \in ids \X Grains : ~TooOld(p[2], at(p[1]), now)}
        place(p) == [grain |-> p[2], start |-> BlockAt(p[2], at(p[1])).start,
                     key |-> KeyOrUnknown(activityEvents[p[1]].key),
                     end |-> BlockAt(p[2], at(p[1])).end]
        here(q, failed) == {p \in counted : place(p) = q /\ activityEvents[p[1]].failed = failed}
    IN {[grain |-> q.grain, start |-> q.start, key |-> q.key, end |-> q.end,
         success |-> Cardinality(here(q, FALSE)), failure |-> Cardinality(here(q, TRUE))] :
            q \in {place(p) : p \in counted}}

SameRow(a, b) == a.grain = b.grain /\ a.start = b.start /\ a.key = b.key

(* inserted, or added to the row that is there *)
Upserted(stats, rows) ==
    {s \in stats : \A r \in rows : ~SameRow(s, r)} \cup
    {LET old == {s \in stats : SameRow(s, r)}
     IN [r EXCEPT !.success = @ + MapThenSumSet(LAMBDA s : s.success, old),
                  !.failure = @ + MapThenSumSet(LAMBDA s : s.failure, old)] : r \in rows}

ActivityInit ==
    /\ activityEvents = <<>> /\ activityCursor = 0 /\ activityStats = {}
    /\ activityClock = FirstActivityTime

CommitActivity ==
    /\ Len(activityEvents) < MaxActivityEvents
    /\ \E offset \in ActivityOffsets, kind \in ActivityKinds :
        activityEvents' = Append(activityEvents,
            [at |-> activityClock + offset, key |-> kind.key, failed |-> kind.failed])
    /\ UNCHANGED <<activityCursor, activityStats, activityClock>>

(* rows and cursor in one transaction *)
AggregateActivity ==
    /\ \E next \in activityCursor + 1 .. Len(activityEvents) :
        /\ activityStats' = Upserted(activityStats,
                                     ActivityRows(activityCursor + 1 .. next, activityClock))
        /\ activityCursor' = next
    /\ UNCHANGED <<activityEvents, activityClock>>

CleanupActivity ==
    /\ activityStats' = {s \in activityStats : ~TooOld(s.grain, s.end, activityClock)}
    /\ activityStats' # activityStats
    /\ UNCHANGED <<activityEvents, activityCursor, activityClock>>

ActivityTick ==
    /\ activityClock < MaxActivityTime /\ activityClock' = activityClock + 1
    /\ UNCHANGED <<activityEvents, activityCursor, activityStats>>

ActivityNext == CommitActivity \/ AggregateActivity \/ CleanupActivity \/ ActivityTick

-----------------------------------------------------------------------------
(* The page                                                                  *)

CalendarDays == {"today", "yesterday"}
NamedWindows == {"day", "week", "month", "year"}

(* a window by its name, or the range of the other pages *)
ActivityFilters ==
    {[window |-> w, unit |-> "", count |-> 0, custom |-> FALSE] : w \in CalendarDays \cup NamedWindows}
      \cup {[window |-> "", unit |-> "hour", count |-> 1, custom |-> c] : c \in BOOLEAN}
      \cup {[window |-> "", unit |-> "day", count |-> n, custom |-> c] :
                n \in 1 .. MonthLength, c \in BOOLEAN}

GrainFor(f) ==
    CASE f.window \in CalendarDays \cup {"day"} \/ f.unit = "hour" -> "short"
      [] f.window = "year" \/ f.custom -> "daily"
      [] f.window = "week" \/ f.count \in 2 .. WeekDays -> "medium"
      [] f.window = "month" \/ f.count \in WeekDays + 1 .. MonthLength -> "long"
      [] OTHER -> "short"

ReferenceEnd(f, now) ==
    CASE f.window = "today" -> DayEnd(now)
      [] f.window = "yesterday" -> DayBegin(now)
      [] OTHER -> now

(* blocks that have not begun are not asked for *)
FilledBlocks(blocks, grain, now, key) ==
    LET rows(b) == {s \in activityStats : s.grain = grain /\ s.start = b.start /\ b.start < now
                                            /\ key \in {NoKey, s.key}}
        filled(b) == [start |-> b.start,
                      end |-> IF rows(b) = {} THEN b.end ELSE Max({s.end : s \in rows(b)}),
                      success |-> MapThenSumSet(LAMBDA s : s.success, rows(b)),
                      failure |-> MapThenSumSet(LAMBDA s : s.failure, rows(b))]
    IN [i \in DOMAIN blocks |-> filled(blocks[i])]

-----------------------------------------------------------------------------
CountedInBlock(b, key, failed) ==
    {id \in 1 .. activityCursor :
        LET e == activityEvents[id]
        IN e.at >= b.start /\ e.at < b.end /\ e.failed = failed
             /\ key \in {NoKey, KeyOrUnknown(e.key)}}

BlocksCount(filled, blocks, key) ==
    \A i \in 1 .. HeatmapBlocks : blocks[i].start < activityClock =>
        /\ filled[i].end = blocks[i].end
        /\ filled[i].success = Cardinality(CountedInBlock(blocks[i], key, FALSE))
        /\ filled[i].failure = Cardinality(CountedInBlock(blocks[i], key, TRUE))

(* the blocks are of the days or as long as the filter asks for *)
BlocksMeet(f, grain, first, last) ==
    LET now == activityClock
        shortest == Min({DayEnd(m) - m : m \in Midnights \ {Max(Midnights)}})
    IN CASE f.window = "today" -> first.start = DayBegin(now) /\ last.end = DayEnd(now)
         [] f.window = "yesterday" ->
                first.start = DayBegin(DayBegin(now) - 1) /\ last.end = DayBegin(now)
         [] OTHER -> /\ last.end >= now /\ last.start < now
                     /\ last.end - first.start >=
                          IF grain \in {"medium", "long"} THEN f.count * NominalDay ELSE shortest

GridAgrees(blocks, grain, filters) ==
    /\ \A i \in 1 .. HeatmapBlocks - 1 : blocks[i].end = blocks[i + 1].start
    /\ \A i \in 1 .. HeatmapBlocks : blocks[i].start < blocks[i].end
    /\ \A f \in filters : BlocksMeet(f, grain, blocks[1], blocks[HeatmapBlocks])
    /\ \A key \in {NoKey, UnknownKey} \cup {k.key : k \in ActivityKinds} :
         BlocksCount(FilledBlocks(blocks, grain, activityClock, key), blocks, key)

(* The blocks of a page follow each other without a gap or an overlap, also   *)
(* over days that are longer or shorter; a page of a calendar day is that day *)
(* and any other ends with the block of the present and reaches as far back   *)
(* as its range, or as its shortest day. Each block counts just the events    *)
(* aggregated that fall into it, however they were paged, whenever old rows   *)
(* were cleaned away, and late events too: what is given up as too old is     *)
(* further back than any page looks.                                          *)
ActivityGridAgrees ==
    LET asked(f) == <<GrainFor(f), ReferenceEnd(f, activityClock)>>
    IN \A page \in {asked(f) : f \in ActivityFilters} :
        GridAgrees(BlocksEndingAt(page[1], page[2]), page[1],
                   {f \in ActivityFilters : asked(f) = page})
=============================================================================
