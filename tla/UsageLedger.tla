----------------------------- MODULE UsageLedger -----------------------------
(***************************************************************************)
(* What the usage inbox promises to the rest of CPA Usage Keeper, with no  *)
(* batches, statuses, retries or clean-up: a message that was accepted     *)
(* into the inbox is either counted (it becomes one usage event) or        *)
(* dropped, at most one of the two, and never changes its fate again.      *)
(***************************************************************************)
CONSTANT Rows       \* inbox row identifiers

VARIABLE fate       \* fate[r]: what became of the message stored as row r

Fates == {"absent", "open", "counted", "dropped"}

Init == fate = [r \in Rows |-> "absent"]

\* Move moves a non-empty set of rows from one fate to another.
Move(from, to) ==
    \E S \in SUBSET {r \in Rows : fate[r] = from} :
        /\ S # {}
        /\ fate' = [r \in Rows |-> IF r \in S THEN to ELSE fate[r]]

\* A batch of messages is accepted into the inbox.
Accept == Move("absent", "open")

\* A batch of open messages becomes usage events.
Count == Move("open", "counted")

\* Open messages are given up.
Drop == Move("open", "dropped")

Next == Accept \/ Count \/ Drop

Spec == Init /\ [][Next]_fate
=============================================================================
