--------------------------- MODULE MCQuotaHistory ---------------------------
(* A weekly quota and a second window: falls, repetitions, trusted corrections, *)
(* a detour through a shorter window, a new cycle, and reset times that drift   *)
(* within and beyond the tolerance of one unit.                                 *)
EXTENDS QuotaEfficiency

O(ws, src, reset, pct) == [ws |-> ws, src |-> src, reset |-> reset, pct |-> pct]
P(o) == [r \in {"primary"} |-> o]
PS(o, q) == [r \in {"primary", "secondary"} |-> IF r = "primary" THEN o ELSE q]
In(source, at, obs) == [source |-> source, at |-> at, obs |-> obs]

MCRoles == {"primary", "secondary"}
MCRank == [r \in MCRoles |-> IF r = "primary" THEN 1 ELSE 2]
MCInputs == {
    In("header", 1, PS(O(7, "relative", 7, 2), O(9, "absolute", 10, 2))),
    In("direct", 1, P(O(7, "absolute", 8, 2))),
    In("header", 2, PS(O(7, "absolute", 8, 1), O(9, "absolute", 10, 2))),
    In("trusted", 2, P(O(7, "absolute", 7, 3))),
    In("header", 3, PS(O(7, "relative", 9, 1), O(9, "absolute", 10, 2))),
    In("header", 4, P(O(5, "absolute", 6, 1))),
    In("trusted", 5, P(O(7, "absolute", 8, 2))),
    In("trusted", 6, P(O(7, "absolute", 7, 2))),
    In("header", 7, P(O(7, "absolute", 8, 3)))}

(* the three headers of the test of a calibration at the same moment *)
MCFollowUp == {
    In("header", 1, P(O(7, "relative", 7, 2))),
    In("header", 1, P(O(7, "absolute", 8, 2))),
    In("header", 3, P(O(7, "absolute", 8, 2)))}
=============================================================================
