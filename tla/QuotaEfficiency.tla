--------------------------- MODULE QuotaEfficiency ---------------------------
(* The page of the quota history: the stored cycles of one window of the      *)
(* account, cut where the next one begins, and the usage that fell into each  *)
(* of them and into each fall of its percentage.                              *)
EXTENDS QuotaHistory, FiniteSetsExt

CONSTANTS UsageTimes,      \* times of the account's usage events
          HistoryRange,    \* how far the page looks back
          QueryTimes       \* times at which it is asked for

ASSUME EfficiencyAssumption == UsageTimes \subseteq Int /\ QueryTimes \subseteq Int /\ HistoryRange \in Int

StartOf(c) == c.reset - c.ws

(* the cycles that reach into the range of the page *)
EfficiencyCycles(now) ==
    LET within(r) == {i \in DOMAIN cycles[r] : /\ cycles[r][i].reset >= now - HistoryRange
                                               /\ StartOf(cycles[r][i]) < now}
    IN UNION {{[role |-> r, id |-> i, at |-> cycles[r][i]] : i \in within(r)} : r \in Roles}

SeenLater(a, b) == a.at.last > b.at.last \/ (a.at.last = b.at.last /\ a.id > b.id)
LatestSeen(found) == CHOOSE a \in found : \A b \in found \ {a} : SeenLater(a, b)

OfRole(found, r) == {a \in found : a.role = r}

-----------------------------------------------------------------------------
(* The window that is shown                                                  *)

(* a window is there as long as the latest observation showed it *)
EfficiencyWindows(found) ==
    {r \in Roles : \E a \in OfRole(found, r) : \A b \in found : b.at.last <= a.at.last}

HasCurrentCycle(found, r, now) ==
    LET c == LatestSeen(OfRole(found, r)).at IN StartOf(c) <= now /\ now < c.reset

PrimaryFirst(roles) == IF "primary" \in roles THEN "primary" ELSE CHOOSE r \in roles : TRUE

(* the one that is asked for, or the first one with a current cycle, or the first *)
SelectedWindow(found, asked, now) ==
    LET shown == EfficiencyWindows(found)
        running == {r \in shown : HasCurrentCycle(found, r, now)}
    IN IF asked # "" THEN shown \cap {asked}
       ELSE IF running # {} THEN {PrimaryFirst(running)}
       ELSE IF shown # {} THEN {PrimaryFirst(shown)}
       ELSE {}

-----------------------------------------------------------------------------
(* Periods and falls                                                         *)

(* Mutant: a cycle lasts until its reset, also when another one took over. *)
PeriodEndAtReset(found, a) == a.at.reset

(* a cycle ends with its reset or where one begins that was seen later *)
PeriodEnd(found, a) ==
    Min({a.at.reset} \cup {StartOf(b.at) : b \in {x \in found : SeenLater(x, a)}})

IsCurrent(found, a, now) == /\ a = LatestSeen(found)
                            /\ StartOf(a.at) <= now /\ now < PeriodEnd(found, a)

(* current or completed; what is neither, or lies before the range, is left out *)
ListedCycles(found, now) ==
    {a \in found : LET end == PeriodEnd(found, a)
                   IN /\ StartOf(a.at) < end /\ end >= now - HistoryRange
                      /\ IsCurrent(found, a, now) \/ end <= now}

QueryEnd(found, a, now) == IF IsCurrent(found, a, now) THEN now ELSE PeriodEnd(found, a)

(* the falls from one segment to the next, by the number of the second one *)
Transitions(c) == {j \in 2 .. Len(c.segs) : c.segs[j - 1].pct > c.segs[j].pct}
Points(c, j) == c.segs[j - 1].pct - c.segs[j].pct

-----------------------------------------------------------------------------
(* One pass over the events in their order and the cycles in theirs: the      *)
(* cycle an event is counted in, and its fall                                 *)

Works(found, now) ==
    {[cycle |-> a, start |-> StartOf(a.at), end |-> QueryEnd(found, a, now)] :
        a \in ListedCycles(found, now)}

WorkBefore(v, w) == \/ v.start < w.start
                    \/ v.start = w.start /\ v.end < w.end
                    \/ v.start = w.start /\ v.end = w.end /\ v.cycle.id < w.cycle.id

(* the pass has left behind all that ended before the event *)
CountedIn(t, works) ==
    LET ahead == {w \in works : t < w.end}
        next == CHOOSE w \in ahead : \A v \in ahead \ {w} : WorkBefore(w, v)
    IN IF ahead = {} \/ t < next.start THEN {} ELSE {next}

TransitionOf(t, c) ==
    LET ahead == {j \in Transitions(c) : t <= c.segs[j].first}
    IN IF ahead = {} \/ t <= c.segs[Min(ahead) - 1].first THEN {} ELSE {Min(ahead)}

-----------------------------------------------------------------------------
(* The page shows each event of its range once: in a cycle and in the time    *)
(* that is shown for it, and in no more than one fall of its percentage, the  *)
(* one during which it was observed. An event in none of the cycles that are  *)
(* shown was in none that is stored, unless the account had a window of       *)
(* another length, or its reset times drifted step by step beyond what is     *)
(* tolerated: then a cycle that was seen later may begin earlier and end the  *)
(* others. The falls make up what the percentage lost.                        *)
EfficiencyCountsOnce ==
    \A now \in QueryTimes, asked \in Roles \cup {""} :
        LET all == EfficiencyCycles(now)
            window == SelectedWindow(all, asked, now)
            found == {a \in all : a.role \in window}
            works == Works(found, now)
            in(t) == {w \in works : w.start <= t /\ t < w.end}
            inLine == \A r \in window : /\ ~Drift(r)
                                        /\ \A i, j \in DOMAIN cycles[r] : cycles[r][i].ws = cycles[r][j].ws
        IN /\ \A t \in UsageTimes : CountedIn(t, works) = in(t) /\ Cardinality(in(t)) <= 1
           /\ inLine => \A t \in UsageTimes, a \in found :
                 StartOf(a.at) <= t /\ t < a.at.reset
                     /\ now - HistoryRange <= t /\ t < now => in(t) # {}
           /\ \A w \in works : LET c == w.cycle.at IN
                /\ MapThenSumSet(LAMBDA j : Points(c, j), Transitions(c))
                       = c.segs[1].pct - Last(c.segs).pct
                /\ \A t \in UsageTimes : TransitionOf(t, c) =
                       {j \in Transitions(c) : c.segs[j - 1].first < t /\ t <= c.segs[j].first}
=============================================================================
