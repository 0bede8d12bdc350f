---------------------------- MODULE AnalysisQuery ---------------------------
(* The analysis of a window, from the rows of the aggregation alone: whole    *)
(* hours or whole days, broken down by bucket, model, API key, credential     *)
(* and by key and model, each of them over the same rows.                     *)
EXTENDS OverviewQuery

CONSTANTS AuthFileIds, ProviderIds   \* credentials that are known, by their kind

Unknown == "unknown"
OrUnknown(name) == IF name = "" THEN Unknown ELSE name

AnalysisByDay(w) ==
    IF w.range = "custom" THEN w.unit = "day"
    ELSE WindowMinutes(w.start, w.end) > MinutesOfDays(1)

(* a range of days takes in the whole of its first and of its last day *)
AnalysisDays(w) ==
    IF w.range = "rolling" /\ w.unit = "day"
    THEN [start |-> DayOf(w.start), end |-> DayOf(w.end) + DayTicks]
    ELSE [start |-> w.start, end |-> w.end]

(* a range up to now takes in the running hour, a day all of its hours *)
AnalysisHoursEnd(w, fullEnd) ==
    CASE w.range = "rolling" -> IF w.end > fullEnd THEN fullEnd + HourTicks ELSE fullEnd
      [] w.range \in {"today", "yesterday"} -> Max({HourOf(w.start) + DayTicks, fullEnd})
      [] OTHER -> fullEnd

AnalysisRange(w) ==
    LET full == FullHourWindow(w.start, w.end)
    IN IF AnalysisByDay(w) THEN AnalysisDays(w)
       ELSE [start |-> full.start, end |-> AnalysisHoursEnd(w, full.end)]

AnalysisRows(w, key) ==
    LET range == AnalysisRange(w)
    IN IF AnalysisByDay(w) THEN DayRows(range.start, range.end, key)
       ELSE HourRows(range.start, range.end, key)

(* rows by the value each of them has in some dimension *)
GroupedBy(value) == [v \in Range(value) |-> {e \in DOMAIN value : value[e] = v}]

(* a day of hours shows every hour of it and the midnight after it *)
FilledBuckets(w, buckets) ==
    IF w.range \in {"today", "yesterday"} /\ ~AnalysisByDay(w)
    THEN [b \in {HourOf(w.start) + i * HourTicks : i \in 0 .. DayHours} |->
             IF b \in DOMAIN buckets THEN buckets[b] ELSE {}]
    ELSE buckets

(* what is not named as a credential, or not known, is in neither table *)
AnalysisRecord(w, key) ==
    LET rows == AnalysisRows(w, key)
        byDay == AnalysisByDay(w)
        of(ids) == {e \in rows : e.kind.auth \in ids}
    IN [tokenUsage |-> FilledBuckets(w, GroupedBy([e \in rows |-> BucketOf(e.at, byDay)])),
        modelUsage |-> GroupedBy([e \in rows |-> <<BucketOf(e.at, byDay), OrUnknown(e.kind.model)>>]),
        apiKeys |-> GroupedBy([e \in rows |-> OrUnknown(e.kind.key)]),
        models |-> GroupedBy([e \in rows |-> OrUnknown(e.kind.model)]),
        authFiles |-> GroupedBy([e \in of(AuthFileIds) |-> e.kind.auth]),
        aiProviders |-> GroupedBy([e \in of(ProviderIds) |-> e.kind.auth]),
        heatmap |-> GroupedBy([e \in rows |-> <<OrUnknown(e.kind.key), OrUnknown(e.kind.model)>>])]

(* the page joins the models to the buckets it shows, and does not show a     *)
(* viewer which credentials served the requests                               *)
PayloadOf(record, viewer) ==
    LET shown == {p \in DOMAIN record.modelUsage : p[1] \in DOMAIN record.tokenUsage}
    IN [record EXCEPT
           !.modelUsage = [m \in {p[2] : p \in shown} |->
                              [b \in DOMAIN record.tokenUsage |->
                                  IF <<b, m>> \in shown THEN @[<<b, m>>] ELSE {}]],
           !.authFiles = IF viewer = AnyKey THEN @ ELSE <<>>,
           !.aiProviders = IF viewer = AnyKey THEN @ ELSE <<>>]

AnalysisPayload(w, viewer, key) ==
    PayloadOf(AnalysisRecord(w, FilterKey(viewer, key)), viewer)

-----------------------------------------------------------------------------
RowsIn(table) == UNION {table[v] : v \in DOMAIN table}

TablesShow(page, rows, viewer) ==
    /\ {RowsIn(page.tokenUsage), RowsIn(page.apiKeys), RowsIn(page.models),
        RowsIn(page.heatmap)} = {rows}
    /\ UNION {RowsIn(page.modelUsage[m]) : m \in DOMAIN page.modelUsage} = rows
    /\ \A m \in DOMAIN page.modelUsage : DOMAIN page.modelUsage[m] = DOMAIN page.tokenUsage
    /\ RowsIn(page.authFiles) \cup RowsIn(page.aiProviders) =
         {e \in rows : viewer = AnyKey /\ e.kind.auth \in AuthFileIds \cup ProviderIds}

RowsCover(rows, w, viewer) ==
    LET unit == IF AnalysisByDay(w) THEN DayTicks ELSE HourTicks
    IN /\ \A e \in rows : OfKey(e, viewer) /\ e.at > w.start - unit /\ e.at < w.end + unit
       /\ \A e \in usageRows :
            OfKey(e, viewer) /\ e.id <= rolledUp /\ Inside(e.at, NextHour(w.start), w.end, FALSE)
                => e \in rows

(* Every table of the page breaks down the same rows, none of them lost when  *)
(* models are joined to buckets or missing hours are filled in. The rows are  *)
(* those of the window in whole hours or days: all that lies in it but for    *)
(* less than an hour at its start, and nothing further from it than the hour  *)
(* or day it begins and ends in. A viewer finds the own key and no credential.*)
AnalysisAddsUp ==
    \A w \in WindowsAt(windowClock), viewer \in {AnyKey} \cup ViewedKeys :
        /\ TablesShow(AnalysisPayload(w, viewer, AnyKey), AnalysisRows(w, viewer), viewer)
        /\ RowsCover(AnalysisRows(w, viewer), w, viewer)
=============================================================================
