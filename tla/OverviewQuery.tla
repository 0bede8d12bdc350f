---------------------------- MODULE OverviewQuery ---------------------------
(* The overview of a window: the hours and days it covers completely come     *)
(* from the rows of the aggregation, what is left at its ends from the events *)
(* themselves, recent ones from the cache; then the series of the page.       *)
EXTENDS UsageWindows

CONSTANTS SeriesPoints,  \* so many points a series has at most
          ListedDays     \* a custom range of more days lists each of them

-----------------------------------------------------------------------------
(* The right end of the page is now, and moves on while the request runs     *)
CurrentRight(w, anchor) ==
    \/ w.range \in {"rolling", "today"}
    \/ w.range = "custom" /\ w.end > anchor

EffectiveEnd(w, anchor) == IF w.end > anchor THEN anchor ELSE w.end

FullHourWindow(start, end) ==
    LET first == NextHour(start)
    IN [start |-> first, end |-> Max({HourOf(end), first})]

FullDayWindow(start, end) ==
    LET first == NextDay(start)
    IN [start |-> first, end |-> Max({DayOf(end), first})]

RawWindow(start, end, includeEnd, current) ==
    [start |-> start, end |-> end, includeEnd |-> includeEnd, current |-> current]

(* what the covered hours leave on either side *)
BoundaryWindows(start, end, covered, includeEnd, current) ==
    LET leftEnd == Min({covered.start, end})
        rightStart == Max({covered.end, start})
        left == IF start < covered.start /\ start < leftEnd
                THEN <<RawWindow(start, leftEnd, includeEnd /\ leftEnd = end,
                                 current /\ leftEnd = end)>>
                ELSE <<>>
        right == IF end >= covered.end /\ (rightStart < end \/ (current /\ rightStart = end))
                 THEN <<RawWindow(rightStart, end, includeEnd, current)>>
                 ELSE <<>>
    IN IF start < end THEN left \o right ELSE <<>>

(* two that touch become one *)
MergeWindows(windows) ==
    IF Len(windows) < 2 THEN windows
    ELSE LET a == windows[1]
             b == windows[2]
         IN IF b.start > a.end THEN windows
            ELSE <<CASE b.end > a.end -> [b EXCEPT !.start = a.start]
                     [] b.end = a.end -> [a EXCEPT !.includeEnd = @ \/ b.includeEnd,
                                                   !.current = @ \/ b.current]
                     [] OTHER -> [a EXCEPT !.current = @ \/ b.current]>>

RawWindows(w, anchor, covered) ==
    MergeWindows(BoundaryWindows(w.start, EffectiveEnd(w, anchor), covered, ~w.exclusive,
                                 CurrentRight(w, anchor)))

CacheCovers(r, anchor) ==
    /\ hasCache
    /\ \/ r.end < r.start
       \/ r.end = r.start /\ ~r.includeEnd /\ ~r.current
       \/ r.start >= anchor - CacheSpan

LoadWindow(r, anchor, key) ==
    IF ~CacheCovers(r, anchor) THEN TableRows(r.start, r.end, r.includeEnd, key)
    ELSE IF r.current THEN CacheRowsSince(r.start, key)
    ELSE CacheRows(r.start, r.end, r.includeEnd, key)

(* the events of the windows, but for those a row of an hour has counted *)
BoundaryEvents(w, anchor, covered, key) ==
    LET windows == RawWindows(w, anchor, covered)
        loaded(i) == {e \in LoadWindow(windows[i], anchor, key) :
                        ~Inside(e.at, covered.start, covered.end, FALSE)}
    IN UNION {{[event |-> e, from |-> <<"event", i>>] : e \in loaded(i)} : i \in DOMAIN windows}

-----------------------------------------------------------------------------
(* The parts the page is summed up from: every figure of it is a sum over     *)
(* them, in total or by bucket                                                *)

CountsByDay(w, anchor) ==
    \/ w.range = "rolling" /\ w.unit = "day" /\ w.count = LongDays
    \/ WindowMinutes(w.start, EffectiveEnd(w, anchor)) >= MinutesOfDays(LongDays)

BucketOf(t, byDay) == IF byDay THEN DayOf(t) ELSE HourOf(t)

FromRows(rows, from) == {[event |-> e, from |-> <<from>>] : e \in rows}

(* Mutant: the hours before and after whole days are forgotten. *)
CoveredRowsOfDaysOnly(covered, byDay, key) ==
    LET days == FullDayWindow(covered.start, covered.end)
    IN IF byDay /\ days.end > days.start
       THEN FromRows(DayRows(days.start, days.end, key), "days")
       ELSE FromRows(HourRows(covered.start, covered.end, key), "hours")

CoveredRows(covered, byDay, key) ==
    LET days == FullDayWindow(covered.start, covered.end)
    IN IF byDay /\ days.end > days.start
       THEN FromRows(DayRows(days.start, days.end, key), "days")
              \cup FromRows(HourRows(covered.start, days.start, key), "hours before")
              \cup FromRows(HourRows(days.end, covered.end, key), "hours after")
       ELSE FromRows(HourRows(covered.start, covered.end, key), "hours")

Overview(w, anchor, key) ==
    LET end == EffectiveEnd(w, anchor)
        byDay == CountsByDay(w, anchor)
        covered == FullHourWindow(w.start, end)
        custom(unit) == w.range = "custom" /\ w.unit = unit
    IN CASE custom("hour") -> [byDay |-> FALSE,
                               parts |-> FromRows(HourRows(w.start, w.end, key), "hours")]
         [] custom("day") -> [byDay |-> TRUE,
                              parts |-> FromRows(DayRows(w.start, w.end, key), "days")]
         [] OTHER -> [byDay |-> byDay,
                      parts |-> BoundaryEvents(w, anchor, covered, key)
                                  \cup CoveredRows(covered, byDay, key)]

-----------------------------------------------------------------------------
(* The series: bucket -> requests, then at most SeriesPoints points          *)

OverviewSeries(overview) ==
    LET bucket(p) == BucketOf(p.event.at, overview.byDay)
    IN [b \in {bucket(p) : p \in overview.parts} |->
           Quantify(overview.parts, LAMBDA p : bucket(p) = b)]

SeriesLabels(w, series) ==
    IF w.range = "custom" /\ w.unit = "day" /\ w.count > ListedDays
    THEN [i \in 1 .. w.count |-> w.start + (i - 1) * DayTicks]
    ELSE SetToSortSeq(DOMAIN series, <)

SeriesOfPage(w, series) ==
    LET labels == SeriesLabels(w, series)
        value(l) == IF l \in DOMAIN series THEN series[l] ELSE 0
        bound(i) == (i * Len(labels)) \div SeriesPoints
        group(i) == (bound(i - 1) + 1) .. bound(i)
    IN IF series = <<>> THEN <<>>
       ELSE IF Len(labels) <= SeriesPoints
       THEN [i \in DOMAIN labels |-> [bucket |-> labels[i], requests |-> value(labels[i])]]
       ELSE [i \in 1 .. SeriesPoints |->
                [bucket |-> labels[bound(i - 1) + 1],
                 requests |-> MapThenSumSet(LAMBDA j : value(labels[j]), group(i))]]

-----------------------------------------------------------------------------
(* Every event of the window is counted exactly once, whichever of the rows,  *)
(* the table and the cache it is taken from: missing are at most those the    *)
(* aggregation or the cache has not got; nothing outside of the window is     *)
(* counted, but for what arrives while a page up to now is computed, and      *)
(* nothing of another key. (A day that begins at this very moment is empty.)  *)
(* The points of the series add up to the total.                              *)
OverviewCountsOnce ==
    \A anchor \in {windowClock - 1, windowClock} : \A w \in WindowsAt(anchor) :
        \A key \in {AnyKey} \cup ViewedKeys :
            LET overview == Overview(w, anchor, FilterKey(AnyKey, key))
                times(e) == Quantify(overview.parts, LAMBDA p : p.event = e)
                wanted(e) == OfKey(e, key) /\ Inside(e.at, w.start, w.end, ~w.exclusive)
                late(e) == OfKey(e, key) /\ e.at > w.end /\ CurrentRight(w, anchor)
                points == SeriesOfPage(w, OverviewSeries(overview))
            IN /\ \A e \in usageRows :
                    /\ times(e) <= 1
                    /\ times(e) = 1 => wanted(e) \/ late(e)
                    /\ times(e) = 0 /\ wanted(e) =>
                         \/ e.at > anchor \/ e.id > rolledUp \/ MissedByCache(e, anchor)
                         \/ w.start = anchor
               /\ MapThenSumSet(LAMBDA i : points[i].requests, DOMAIN points)
                    = Cardinality(overview.parts)
=============================================================================
