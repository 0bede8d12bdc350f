----------------------------- MODULE UsageTotals -----------------------------
(***************************************************************************)
(* What the aggregation of CPA Usage Keeper promises to its readers: at    *)
(* every moment each derived total (overview, activity, latency) is the    *)
(* total of a prefix of the committed usage events, each event of the      *)
(* prefix counted once, and the prefix only grows. Pages, failures,        *)
(* restarts and the archive are invisible at this level.                   *)
(***************************************************************************)
EXTENDS Naturals

CONSTANTS Rollups,      \* the derived totals
          MaxEvents     \* bound: event ids are 1..MaxEvents

VARIABLES committed,    \* events 1..committed are in the database
          totals        \* totals[c][e]: how often event e is in total c

Events == 1..MaxEvents

Prefix(n) == [e \in Events |-> IF e <= n THEN 1 ELSE 0]

Init ==
    /\ committed = 0
    /\ totals = [c \in Rollups |-> Prefix(0)]

Commit ==
    /\ committed' \in (committed + 1)..MaxEvents
    /\ UNCHANGED totals

\* One total takes in the next events, up to event n.
Advance(c) ==
    \E m \in 0..committed, n \in 1..committed :
        /\ m < n
        /\ totals[c] = Prefix(m)
        /\ totals' = [totals EXCEPT ![c] = Prefix(n)]
        /\ UNCHANGED committed

Next == Commit \/ \E c \in Rollups : Advance(c)

Spec == Init /\ [][Next]_<<committed, totals>>
=============================================================================
