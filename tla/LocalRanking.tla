----------------------------- MODULE LocalRanking -----------------------------
(* The local ranking of API keys: snapshots of whole days replaced under the  *)
(* totals of their month, days settled once they are two hours over, rows of  *)
(* older periods pruned, and the leaderboard made from what is left.          *)
EXTENDS Integers, Sequences, FiniteSets, FiniteSetsExt, SequencesExt

CONSTANTS RankedKeys,       \* ids of API keys, in their order
          MonthDays,        \* days of a month
          MaxRankedEvents, MaxRankedDay \* bounds: events and days

ASSUME LocalRankingAssumption ==
    RankedKeys \subseteq Nat /\ MonthDays \in Nat \ {0} /\ MaxRankedEvents \in Nat
    /\ MaxRankedDay \in Nat \ {0}

VARIABLES
    rankedDay, settling,   \* the day, and whether its first two hours are over
    eventsOf,              \* <<day, key>> -> events committed for it
    dayStats, monthStats,  \* rows: <<period, key>> -> count, absent rows left out
    storedSettled,         \* last settled day in the settings, or NoDay
    memory,                \* of the service: [loaded, settled, day, seen]
    round,                 \* one AggregateOnce: [pc, day, late], "idle" "state" "settle" "today"
    lastCounted,           \* history: <<day, key>> -> what its last snapshot counted
    missedDay              \* history: a day was pruned before it was settled

rankedVars == <<rankedDay, settling, eventsOf, dayStats, monthStats, storedSettled, memory,
                round, lastCounted, missedDay>>
rankedTables == <<dayStats, monthStats, storedSettled, lastCounted, missedDay>>

RankedDays == 1 .. MaxRankedDay
Month(d) == (d - 1) \div MonthDays
NoDay == -1
NoRows == [p \in {} |-> 0]
Forgotten == [loaded |-> FALSE, settled |-> 0, day |-> 0, seen |-> NoRows]
NoRound == [pc |-> "idle", day |-> 0, late |-> FALSE]
ValueAt(f, p) == IF p \in DOMAIN f THEN f[p] ELSE 0
Written(f, g) == [p \in DOMAIN f \cup DOMAIN g |-> IF p \in DOMAIN g THEN g[p] ELSE f[p]]

LocalInit ==
    /\ rankedDay = 1 /\ settling = FALSE
    /\ eventsOf = [p \in RankedDays \X RankedKeys |-> 0]
    /\ dayStats = NoRows /\ monthStats = NoRows /\ storedSettled = NoDay
    /\ memory = Forgotten /\ round = NoRound /\ lastCounted = NoRows /\ missedDay = FALSE

-----------------------------------------------------------------------------
(* One transaction: the rows of a day, what changes in its month, the prune   *)

(* keys with events on the day *)
Aggregated(d) == [k \in {x \in RankedKeys : eventsOf[<<d, x>>] > 0} |-> eventsOf[<<d, k>>]]

(* Mutant: the previous snapshot of the day is not taken out. *)
ContributionAdded(total, previous, current) == total + current

Contribution(total, previous, current) == total - Min({total, previous}) + current

KeptDays(today) == {today, today - 1}
KeptMonths(today) == {Month(today), Month(today) - 1}

ReplaceDay(d, today, counts, prune, settled) ==
    LET days == Written(dayStats, [p \in {<<d, k>> : k \in DOMAIN counts} |-> counts[p[2]]])
        months == Written(monthStats,
                    [p \in {<<Month(d), k>> : k \in DOMAIN counts} |->
                        Contribution(ValueAt(monthStats, p), ValueAt(dayStats, <<d, p[2]>>),
                                     counts[p[2]])])
        kept(f, periods) == [p \in {q \in DOMAIN f : ~prune \/ q[1] \in periods} |-> f[p]]
    IN /\ dayStats' = kept(days, KeptDays(today))
       /\ monthStats' = kept(months, KeptMonths(today))
       /\ lastCounted' = Written(lastCounted, [p \in {<<d, k>> : k \in DOMAIN counts} |-> counts[p[2]]])
       /\ missedDay' = (missedDay \/ \E p \in DOMAIN days \ DOMAIN dayStats' : p[1] > settled)

-----------------------------------------------------------------------------
(* AggregateOnce                                                             *)

BeginRound ==
    /\ round.pc = "idle" /\ round' = [pc |-> "state", day |-> rankedDay, late |-> settling]
    /\ UNCHANGED <<rankedDay, settling, eventsOf, memory, rankedTables>>

(* the first start begins with its own day *)
EnsureState ==
    /\ round.pc = "state" /\ round' = [round EXCEPT !.pc = IF round.late THEN "settle" ELSE "today"]
    /\ LET settled == IF storedSettled = NoDay THEN round.day - 1 ELSE storedSettled
       IN IF memory.loaded THEN UNCHANGED <<memory, storedSettled>>
          ELSE /\ memory' = [memory EXCEPT !.loaded = TRUE, !.settled = settled]
               /\ storedSettled' = settled
    /\ UNCHANGED <<rankedDay, settling, eventsOf, dayStats, monthStats, lastCounted, missedDay>>

SettleDay ==
    /\ round.pc = "settle" /\ memory.settled < round.day - 1
    /\ LET d == memory.settled + 1
       IN /\ storedSettled' = d
          /\ ReplaceDay(d, round.day, Aggregated(d), d = round.day - 1, d)
          /\ memory' = [memory EXCEPT !.settled = d]
    /\ UNCHANGED <<rankedDay, settling, eventsOf, round>>

EndSettling ==
    /\ round.pc = "settle" /\ memory.settled >= round.day - 1
    /\ round' = [round EXCEPT !.pc = "today"]
    /\ UNCHANGED <<rankedDay, settling, eventsOf, memory, rankedTables>>

(* nothing is written when nothing changed since the last success *)
SnapshotToday ==
    /\ round.pc = "today" /\ round' = NoRound
    /\ LET counts == Aggregated(round.day)
       IN IF memory.day = round.day /\ memory.seen = counts
          THEN UNCHANGED <<memory, rankedTables>>
          ELSE /\ ReplaceDay(round.day, round.day, counts, TRUE, storedSettled)
               /\ memory' = [memory EXCEPT !.day = round.day, !.seen = counts]
               /\ UNCHANGED storedSettled
    /\ UNCHANGED <<rankedDay, settling, eventsOf>>

FailRound ==
    /\ round.pc # "idle" /\ round' = NoRound
    /\ UNCHANGED <<rankedDay, settling, eventsOf, memory, rankedTables>>

CrashRanking ==
    /\ memory' = Forgotten /\ round' = NoRound
    /\ UNCHANGED <<rankedDay, settling, eventsOf, rankedTables>>

CommitRanked ==
    /\ MapThenSumSet(LAMBDA p : eventsOf[p], DOMAIN eventsOf) < MaxRankedEvents
    /\ \E d \in {rankedDay, rankedDay - 1} \cap RankedDays, k \in RankedKeys :
        eventsOf' = [eventsOf EXCEPT ![<<d, k>>] = @ + 1]
    /\ UNCHANGED <<rankedDay, settling, memory, round, rankedTables>>

RankedTick ==
    /\ IF settling THEN rankedDay < MaxRankedDay /\ rankedDay' = rankedDay + 1
                   ELSE UNCHANGED rankedDay
    /\ settling' = ~settling
    /\ UNCHANGED <<eventsOf, memory, round, rankedTables>>

LocalNext ==
    \/ BeginRound \/ EnsureState \/ SettleDay \/ EndSettling \/ SnapshotToday \/ FailRound
    \/ CrashRanking \/ CommitRanked \/ RankedTick

LocalSpec == LocalInit /\ [][LocalNext]_rankedVars

-----------------------------------------------------------------------------
(* Every month the leaderboard shows counts each of its days once, with what  *)
(* the day's last snapshot counted: replacing a snapshot adds only what is    *)
(* new.                                                                       *)
MonthCountsDaysOnce ==
    \A p \in DOMAIN monthStats : p[1] \in KeptMonths(rankedDay) =>
        monthStats[p] = MapThenSumSet(LAMBDA q : lastCounted[q],
                            {q \in DOMAIN lastCounted : Month(q[1]) = p[1] /\ q[2] = p[2]})

(* The same, as long as no day was pruned before it was settled.              *)
MonthCountsSettledDaysOnce == ~missedDay => MonthCountsDaysOnce
=============================================================================
