----------------------------- MODULE WindowUsage -----------------------------
(* What an account has used of a quota window, shown beside what the provider *)
(* says is left of it: short windows are summed up from the events, long ones *)
(* from the rows of their hours and, at both ends, from the events.           *)
EXTENDS UsageWindows

CONSTANTS RawOnlySpan,     \* longer windows use the rows of hours
          QuotaSpans,      \* lengths of quota windows
          QuotaResets,     \* ages of the reset times, negative ones are to come
          UsageGroups      \* groups of models that share a quota: group -> models

-----------------------------------------------------------------------------
(* the events of a window, each with the part of the sum that counts it       *)

OfAuth(rows, auth, from) == {[event |-> e, from |-> from] : e \in {r \in rows : r.kind.auth = auth}}
EventsUsed(auth, start, end, from) == OfAuth(TableRows(start, end, FALSE, AnyKey), auth, from)

LongUsage(auth, start, end) ==
    LET leftEnd == Min({NextHour(start), end})
        \* the hour before the current one may not be summed up yet
        rightStart == Max({HourOf(end) - HourTicks, start, leftEnd})
    IN EventsUsed(auth, start, leftEnd, "left")
         \cup OfAuth(HourRows(leftEnd, rightStart, AnyKey), auth, "hours")
         \cup EventsUsed(auth, rightStart, end, "right")

SumByAuthIndex(auth, start, end) ==
    IF start >= end THEN {}
    ELSE IF end - start <= RawOnlySpan THEN EventsUsed(auth, start, end, "all")
    ELSE LongUsage(auth, start, end)

(* groups of models; with a model of none of them no group is complete        *)
GroupsOf(model) == {g \in DOMAIN UsageGroups : model \in UsageGroups[g]}
SumGroupsByAuthIndex(auth, start, end) ==
    LET parts == SumByAuthIndex(auth, start, end)
    IN [complete |-> \A p \in parts : GroupsOf(p.event.kind.model) # {},
        groups |-> [g \in DOMAIN UsageGroups |->
                       {p \in parts : g \in GroupsOf(p.event.kind.model)}]]

(* a window ends with its reset, or now when that is still to come            *)
QuotaRowWindow(row, now) == [start |-> row.reset - row.span, end |-> Min({now, row.reset})]

(* what is attached to the row of a window, or to that of a group in it       *)
AttachWindowUsage(row, auth, now) ==
    LET w == QuotaRowWindow(row, now)
        grouped == SumGroupsByAuthIndex(auth, w.start, w.end)
    IN IF row.group = "" THEN <<SumByAuthIndex(auth, w.start, w.end)>>
       ELSE IF grouped.complete THEN <<grouped.groups[row.group]>>
       ELSE <<>>

-----------------------------------------------------------------------------
PartsCount(parts, auth, w) ==
    LET counted == {p.event : p \in parts}
        expected == {e \in usageRows : e.kind.auth = auth /\ Inside(e.at, w.start, w.end, FALSE)}
    IN /\ counted \subseteq expected
       /\ Cardinality(parts) = Cardinality(counted)
       /\ \A e \in expected \ counted :
            /\ e.id > rolledUp /\ e.at < HourOf(w.end) - HourTicks
            /\ w.end - w.start > RawOnlySpan

GroupsShare(shown, parts) ==
    \/ \A g \in DOMAIN shown : shown[g] = <<>>
    \/ parts = UNION {shown[g][1] : g \in DOMAIN shown}

(* Each event of the account in the window is counted once and none of        *)
(* another; missing are at most those the aggregation has not got, and none   *)
(* since the beginning of the hour before this one. The groups of a window    *)
(* share out what the window counts, or none of them is shown.                *)
WindowUsageCountsOnce ==
    \A auth \in {k.auth : k \in UsageKinds}, span \in QuotaSpans, age \in QuotaResets :
        LET row(g) == [group |-> g, span |-> span, reset |-> windowClock - age]
            attached(g) == AttachWindowUsage(row(g), auth, windowClock)
        IN /\ PartsCount(attached("")[1], auth, QuotaRowWindow(row(""), windowClock))
           /\ GroupsShare([g \in DOMAIN UsageGroups |-> attached(g)], attached("")[1])
=============================================================================
