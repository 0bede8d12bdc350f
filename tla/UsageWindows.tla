---------------------------- MODULE UsageWindows ----------------------------
(* What the pages of statistics are computed from: committed usage events,    *)
(* the rows the aggregation has made of them hour by hour and day by day, and *)
(* the cache of recent events; and the window of time a request asks for.     *)
(* A tick stands for the smallest step of the clock, so that the last moment  *)
(* of a day is the tick before midnight. All days have DayHours hours.        *)
EXTENDS Integers, Sequences, FiniteSets, FiniteSetsExt, SequencesExt

CONSTANTS HourTicks, DayHours,   \* ticks of an hour, hours of a day
          MinuteTicks,           \* ticks of the unit windows are measured in
          RollingHours,          \* n of the ranges "nh"
          RollingDays,           \* n of the ranges "nd"
          LongDays,              \* from as many days on a page counts by days
          CustomHours,           \* hours a custom range may have
          MaxCustomDays,         \* days a custom range may have, and reach back
          CacheSpan,             \* how far back the recent events reach
          UsageKinds,            \* kinds of events: [key, model, auth]
          ViewedKeys,            \* API keys that are not deleted
          UsageAges,             \* bound: ages of an event at its commit
          MaxUsageRows           \* bound: number of events

DayTicks == DayHours * HourTicks
AnyKey == ""

(* the margin that lets the cache serve the current hour, and no rolling range *)
ASSUME UsageWindowsAssumption ==
    /\ HourTicks \in Nat \ {0} /\ DayHours \in Nat \ {0} /\ LongDays \in Nat \ {0}
    /\ MinuteTicks \in Nat \ {0} /\ HourTicks % MinuteTicks = 0
    /\ CacheSpan > HourTicks
    /\ \A n \in RollingHours : n * HourTicks > CacheSpan

VARIABLES
    usageRows,     \* committed events: [id, at, kind]
    rolledUp,      \* the aggregation has counted the events up to this id
    hasCache,      \* the cache was set up; without it the table answers
    cachedRows,    \* ids of the events in the cache
    cachedUpTo,    \* the cache has received or lost the events up to this id
    windowClock

windowVars == <<usageRows, rolledUp, hasCache, cachedRows, cachedUpTo, windowClock>>

WindowsInit ==
    /\ usageRows = {} /\ rolledUp = 0 /\ cachedRows = {} /\ cachedUpTo = 0
    /\ hasCache \in BOOLEAN
    /\ windowClock \in Max(UsageAges) .. Max(UsageAges) + DayTicks - 1

CommitUsageRow ==
    /\ Cardinality(usageRows) < MaxUsageRows
    /\ \E age \in UsageAges, kind \in UsageKinds :
        usageRows' = usageRows \cup
            {[id |-> Cardinality(usageRows) + 1, at |-> windowClock - age, kind |-> kind]}
    /\ UNCHANGED <<rolledUp, hasCache, cachedRows, cachedUpTo, windowClock>>

RollUsageUp ==
    /\ rolledUp < Cardinality(usageRows) /\ rolledUp' = Cardinality(usageRows)
    /\ UNCHANGED <<usageRows, hasCache, cachedRows, cachedUpTo, windowClock>>

(* the cache takes the next event, or its batch was given up, and drops what  *)
(* is too old                                                                 *)
CacheUsageRow ==
    /\ hasCache /\ cachedUpTo < Cardinality(usageRows)
    /\ cachedUpTo' = cachedUpTo + 1
    /\ \E given \in {{}, {cachedUpTo'}} :
        cachedRows' = {e.id : e \in {f \in usageRows : f.id \in cachedRows \cup given
                                                       /\ f.at >= windowClock - CacheSpan}}
    /\ UNCHANGED <<usageRows, rolledUp, hasCache, windowClock>>

WindowTick ==
    /\ windowClock < Max(UsageAges) + DayTicks /\ windowClock' = windowClock + 1
    /\ UNCHANGED <<usageRows, rolledUp, hasCache, cachedRows, cachedUpTo>>

WindowsNext == CommitUsageRow \/ RollUsageUp \/ CacheUsageRow \/ WindowTick

-----------------------------------------------------------------------------
(* Hours and days                                                            *)

HourOf(t) == (t \div HourTicks) * HourTicks
DayOf(t) == (t \div DayTicks) * DayTicks
NextHour(t) == IF HourOf(t) = t THEN t ELSE HourOf(t) + HourTicks
NextDay(t) == IF DayOf(t) = t THEN t ELSE DayOf(t) + DayTicks

-----------------------------------------------------------------------------
(* The range of a request, and the window made of it at the time "anchor"    *)

Window(range, unit, count, start, end, exclusive) ==
    [range |-> range, unit |-> unit, count |-> count, start |-> start, end |-> end,
     exclusive |-> exclusive]

(* to the last moment of the day *)
DayWindow(range, day) == Window(range, "day", 1, day, day + DayTicks - 1, FALSE)

RollingWindow(unit, n, anchor) ==
    Window("rolling", unit, n,
           anchor - n * (IF unit = "day" THEN DayTicks ELSE HourTicks), anchor, FALSE)

(* whole days, today's included, in the reach of the page *)
CustomDayWindow(first, last) ==
    Window("custom", "day", (last - first) \div DayTicks + 1, first, last + DayTicks, TRUE)

CustomDaysAccepted(first, last, anchor) ==
    /\ first <= last /\ (last - first) \div DayTicks < MaxCustomDays
    /\ first >= DayOf(anchor) - (MaxCustomDays - 1) * DayTicks
    /\ last <= DayOf(anchor)

(* whole hours of the last DayHours, the current one included *)
CustomHourWindow(first, last) ==
    Window("custom", "hour", (last - first) \div HourTicks + 1, first, last + HourTicks, TRUE)

CustomHoursAccepted(first, last, anchor) ==
    /\ first <= last /\ (last - first) \div HourTicks + 1 \in CustomHours
    /\ first >= HourOf(anchor) - (DayHours - 1) * HourTicks
    /\ last <= HourOf(anchor)

(* every window a request can get *)
WindowsAt(anchor) ==
    LET days == {DayOf(anchor) + i * DayTicks : i \in -MaxCustomDays .. 1}
        hours == {HourOf(anchor) + i * HourTicks : i \in -DayHours .. 1}
    IN {DayWindow("today", DayOf(anchor)), DayWindow("yesterday", DayOf(anchor) - DayTicks)}
         \cup {RollingWindow("hour", n, anchor) : n \in RollingHours}
         \cup {RollingWindow("day", n, anchor) : n \in RollingDays}
         \cup {CustomDayWindow(p[1], p[2]) :
                  p \in {q \in days \X days : CustomDaysAccepted(q[1], q[2], anchor)}}
         \cup {CustomHourWindow(p[1], p[2]) :
                  p \in {q \in hours \X hours : CustomHoursAccepted(q[1], q[2], anchor)}}

(* rounded up, and at least one *)
WindowMinutes(start, end) ==
    IF end < start THEN 0
    ELSE Max({1, (end - start + MinuteTicks - 1) \div MinuteTicks})
MinutesOfDays(n) == n * (DayTicks \div MinuteTicks)

-----------------------------------------------------------------------------
(* What a page can read. A viewer is held to the own key, an administrator    *)
(* may name one that exists.                                                  *)

FilterKey(viewer, named) == IF viewer # AnyKey THEN viewer ELSE named
OfKey(e, key) == key \in {AnyKey, e.kind.key}

Inside(t, start, end, includeEnd) == t >= start /\ (t < end \/ (includeEnd /\ t = end))

(* rows of hours or days that begin in the window *)
HourRows(start, end, key) ==
    {e \in usageRows : e.id <= rolledUp /\ OfKey(e, key)
                       /\ Inside(HourOf(e.at), start, end, FALSE)}
DayRows(start, end, key) ==
    {e \in usageRows : e.id <= rolledUp /\ OfKey(e, key)
                       /\ Inside(DayOf(e.at), start, end, FALSE)}

TableRows(start, end, includeEnd, key) ==
    {e \in usageRows : OfKey(e, key) /\ Inside(e.at, start, end, includeEnd)}
CacheRows(start, end, includeEnd, key) ==
    {e \in TableRows(start, end, includeEnd, key) : e.id \in cachedRows}
CacheRowsSince(start, key) ==
    {e \in usageRows : OfKey(e, key) /\ e.at >= start /\ e.id \in cachedRows}

(* recent enough for the cache when the request began, and not in it: on its *)
(* way, given up, or dropped since                                           *)
MissedByCache(e, anchor) ==
    hasCache /\ e.id \notin cachedRows /\ e.at >= anchor - CacheSpan
=============================================================================
