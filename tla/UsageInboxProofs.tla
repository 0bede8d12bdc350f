-------------------------- MODULE UsageInboxProofs --------------------------
(***************************************************************************)
(* For every number of messages, batch limit, attempt limit, retention and *)
(* every interleaving of ingest, processor, clean-up and crashes: the      *)
(* type invariant, ExactlyOnce, that UsageInbox implements UsageLedger,    *)
(* and that there is a pause between two attempts at the same row.         *)
(***************************************************************************)
EXTENDS UsageInbox, TLAPS

(* The rows the processor holds are disjointly still to visit (todo) and   *)
(* visited (valid); none of them has been counted, and each is retryable   *)
(* or was deleted while the processor held it.                             *)
HeldRows ==
    /\ todo \cap valid = {}
    /\ pc = "commit" => todo = {}
    /\ \A r \in todo \cup valid :
          counted[r] = 0 /\ status[r] \in {"pending", "process_failed", "gone"}

(* Rows beyond inserted, and only those, have never been written.          *)
InsertedPrefix ==
    \A r \in Rows : /\ r > inserted <=> status[r] = "none"
                    /\ status[r] = "none" => counted[r] = 0

(* The inductive invariant.                                                *)
IInv == TypeOK /\ ExactlyOnce /\ InsertedPrefix /\ HeldRows

-----------------------------------------------------------------------------
(* Type correctness: every step keeps every variable within its type.      *)

\* The variables start in their types.
LEMMA TypeInit == Init => TypeOK
  <1> SUFFICES ASSUME Init PROVE TypeOK
    OBVIOUS
  <1>1. inserted \in 0..MaxRows
    BY InboxAssumption DEF Init
  <1>2. status \in [Rows -> Statuses]
    BY DEF Init, Statuses
  <1>3. /\ attempts \in [Rows -> Nat] /\ touched \in [Rows -> Nat]
        /\ processedAt \in [Rows -> Nat] /\ counted \in [Rows -> Nat]
    BY DEF Init
  <1>4. sweep \in Nat \cup {-1}
    BY DEF Init
  <1>5. kind \in [Rows -> Kinds]
    BY PayloadAssumption DEF Init
  <1>6. now \in Nat /\ fetchedAt \in Nat /\ crashes \in Nat
    BY DEF Init
  <1>7. /\ todo \subseteq Rows /\ valid \subseteq Rows /\ tried \subseteq Rows
        /\ full \in BOOLEAN /\ retry \in BOOLEAN /\ pc \in PCs
    BY DEF Init, PCs
  <1> QED BY <1>1, <1>2, <1>3, <1>4, <1>5, <1>6, <1>7, Zenon DEF TypeOK

\* Marking one row keeps the types of the table.
LEMMA TypeTable ==
    ASSUME TypeOK, NEW r \in Rows, NEW s \in Statuses, MarkFailed(r, s)
    PROVE  /\ status' \in [Rows -> Statuses]
           /\ attempts' \in [Rows -> Nat]
           /\ touched' \in [Rows -> Nat]
           /\ processedAt' \in [Rows -> Nat]
  <1>1. CASE Stored(r)
    BY <1>1 DEF TypeOK, MarkFailed
  <1>2. CASE ~Stored(r)
    BY <1>2 DEF TypeOK, MarkFailed, table
  <1> QED BY <1>1, <1>2

\* Every step keeps the types.
LEMMA TypeStep == TypeOK /\ [Next]_vars => TypeOK'
  <1> SUFFICES ASSUME TypeOK, [Next]_vars PROVE TypeOK'
    OBVIOUS
  <1> USE InboxAssumption
  <1>1. CASE Ingest
    <2>1. PICK n \in 1..(MaxRows - inserted) :
            /\ inserted' = inserted + n
            /\ status' = [r \in Rows |-> IF r \in (inserted + 1)..(inserted + n)
                                         THEN "pending" ELSE status[r]]
            /\ touched' = [r \in Rows |-> IF r \in (inserted + 1)..(inserted + n)
                                          THEN now ELSE touched[r]]
      BY <1>1 DEF Ingest
    <2>2. inserted' \in 0..MaxRows
      BY <2>1 DEF TypeOK
    <2> QED BY <1>1, <2>1, <2>2 DEF Ingest, TypeOK, proc, Statuses
  <1>2. CASE Process
    <2>1. CASE ListBatch
      <3>1. NextBatch \subseteq Rows
        BY DEF NextBatch, Retryable
      <3>2. pc' \in PCs
        BY <2>1 DEF ListBatch, PCs
      <3>3. full' \in BOOLEAN
        <4>1. CASE Cardinality(NextBatch) >= BatchLimit
          BY <2>1, <4>1 DEF ListBatch
        <4>2. CASE ~(Cardinality(NextBatch) >= BatchLimit)
          BY <2>1, <4>2 DEF ListBatch
        <4> QED BY <4>1, <4>2
      <3>4. todo' \subseteq Rows /\ valid' \subseteq Rows /\ retry' \in BOOLEAN
        BY <2>1, <3>1 DEF ListBatch
      <3> QED BY <2>1, <3>2, <3>3, <3>4 DEF ListBatch, TypeOK, table
    <2>2. CASE ListFails
      BY <2>2 DEF ListFails, TypeOK, table, PCs
    <2>3. ASSUME NEW r \in Rows, DecodeRow(r) PROVE TypeOK'
      BY <2>3 DEF DecodeRow, TypeOK, table
    <2>4. ASSUME NEW r \in Rows, DecodeMarkFails(r) PROVE TypeOK'
      BY <2>4 DEF DecodeMarkFails, TypeOK, table, PCs
    <2>5. ASSUME NEW r \in Rows, ChargeFails(r) PROVE TypeOK'
      BY <2>5 DEF ChargeFails, TypeOK, table
    <2>6. ASSUME NEW r \in Rows, DecodeFails(r) PROVE TypeOK'
      BY <2>6, TypeTable DEF DecodeFails, TypeOK, Statuses
    <2>7. ASSUME NEW r \in Rows, ChargeRow(r) PROVE TypeOK'
      <3>1. AfterFailure(r) \in Statuses
        BY DEF AfterFailure, Statuses
      <3> QED BY <2>7, <3>1, TypeTable DEF ChargeRow, TypeOK
    <2>8. CASE NothingDecoded
      BY <2>8 DEF NothingDecoded, FinishRound, TypeOK, table, PCs
    <2>9. CASE Resolve \/ Unblocked \/ RoundFailed \/ Pause
      BY <2>9 DEF Resolve, Unblocked, RoundFailed, Pause, TypeOK, table, PCs
    <2>10. CASE ResolveFails
      BY <2>10 DEF ResolveFails, Unresolved, TypeOK, table, PCs
    <2>11. CASE Commit
      BY <2>11 DEF Commit, FinishRound, TypeOK, PCs, Statuses
    <2>12. CASE CommitFails
      BY <2>12 DEF CommitFails, TypeOK, table, PCs
    <2> QED BY <1>2, <2>1, <2>2, <2>3, <2>4, <2>5, <2>6, <2>7, <2>8, <2>9,
               <2>10, <2>11, <2>12 DEF Process, Charge, MarkBad
  <1>3. CASE Sweep
    BY <1>3 DEF Sweep, SweepProcessed, SweepFailed, Delete, TypeOK, proc, Statuses
  <1>4. CASE Tick
    BY <1>4 DEF Tick, TypeOK, table, proc
  <1>5. CASE Crash
    <2>1. sweep' \in Nat \cup {-1}
      BY <1>5 DEF Crash
    <2>2. crashes' \in Nat
      BY <1>5 DEF Crash, TypeOK
    <2> QED BY <1>5, <2>1, <2>2 DEF Crash, TypeOK, table, PCs
  <1>6. CASE UNCHANGED vars
    BY <1>6 DEF vars, TypeOK, table, proc
  <1> QED BY <1>1, <1>2, <1>3, <1>4, <1>5, <1>6 DEF Next

(* Every variable keeps its type: the row table, the processor's local     *)
(* sets and the clean-up, over all steps of the code's three goroutines.   *)
THEOREM TypeCorrect == Spec => []TypeOK
  BY TypeInit, TypeStep, PTL DEF Spec

-----------------------------------------------------------------------------
(* The inductive invariant.                                                *)

\* The inductive invariant holds at the start.
LEMMA InvInit == Init => IInv
  <1> SUFFICES ASSUME Init PROVE ExactlyOnce /\ InsertedPrefix /\ HeldRows
    BY TypeInit DEF IInv
  <1>1. ExactlyOnce
    BY DEF Init, ExactlyOnce
  <1>2. InsertedPrefix
    BY DEF Init, InsertedPrefix, Rows
  <1>3. HeldRows
    BY DEF Init, HeldRows
  <1> QED BY <1>1, <1>2, <1>3

(* What charging or marking row r does to every row, r included.           *)
LEMMA MarkedRow ==
    ASSUME TypeOK, NEW r \in Rows, NEW s \in Statuses, MarkFailed(r, s)
    PROVE  \A q \in Rows :
             status'[q] = IF q = r /\ Stored(r) THEN s ELSE status[q]
  <1>1. CASE Stored(r)
    BY <1>1 DEF TypeOK, MarkFailed
  <1>2. CASE ~Stored(r)
    BY <1>2 DEF TypeOK, MarkFailed, table
  <1> QED BY <1>1, <1>2

\* Marking a row charges at most that row.
LEMMA MarkedAttempts ==
    ASSUME TypeOK, NEW r \in Rows, NEW s \in Statuses, MarkFailed(r, s)
    PROVE  \A q \in Rows : attempts'[q] # attempts[q] => q = r /\ Stored(r)
  <1>1. CASE Stored(r)
    BY <1>1 DEF TypeOK, MarkFailed
  <1>2. CASE ~Stored(r)
    BY <1>2 DEF TypeOK, MarkFailed, table
  <1> QED BY <1>1, <1>2

\* Every step keeps the inductive invariant.
LEMMA InvStep == IInv /\ [Next]_vars => IInv'
  <1> SUFFICES ASSUME IInv, [Next]_vars
               PROVE  ExactlyOnce' /\ InsertedPrefix' /\ HeldRows'
    BY TypeStep DEF IInv
  <1> USE DEF IInv
  <1>1. CASE Ingest
    <2>1. PICK n \in 1..(MaxRows - inserted) :
            /\ inserted' = inserted + n
            /\ status' = [r \in Rows |-> IF r \in (inserted + 1)..(inserted + n)
                                         THEN "pending" ELSE status[r]]
      BY <1>1 DEF Ingest
    <2>2. \A r \in Rows : /\ r > inserted' => r > inserted
                          /\ r \in (inserted + 1)..(inserted + n)
                               <=> r > inserted /\ ~(r > inserted')
      BY <2>1 DEF TypeOK, Rows
    <2>3. /\ counted' = counted /\ pc' = pc /\ todo' = todo /\ valid' = valid
      BY <1>1 DEF Ingest, proc
    <2>4. \A r \in Rows : status'[r] = IF r > inserted /\ ~(r > inserted')
                                       THEN "pending" ELSE status[r]
      BY <2>1, <2>2 DEF TypeOK
    <2>5. ExactlyOnce'
      BY <2>3, <2>4 DEF ExactlyOnce, InsertedPrefix
    <2>6. InsertedPrefix'
      BY <2>2, <2>3, <2>4 DEF InsertedPrefix
    <2>7. HeldRows'
      BY <2>3, <2>4 DEF HeldRows, InsertedPrefix, TypeOK
    <2> QED BY <2>5, <2>6, <2>7
  <1>2. CASE Process
    <2>1. CASE ListBatch
      <3>1. NextBatch \subseteq Retryable
        BY DEF NextBatch
      <3>2. \A r \in Retryable : /\ r \in Rows
                                 /\ counted[r] = 0 /\ status[r] # "none"
                                 /\ status[r] \in {"pending", "process_failed"}
        BY DEF Retryable, ExactlyOnce, TypeOK
      <3>3. /\ todo' = NextBatch /\ valid' = {} /\ pc' \in {"pause", "decode"}
            /\ UNCHANGED <<status, counted, inserted>>
        BY <2>1 DEF ListBatch, table
      <3> QED BY <3>1, <3>2, <3>3
              DEF ExactlyOnce, InsertedPrefix, HeldRows
    <2>2. CASE ListFails
      BY <2>2 DEF ListFails, table, ExactlyOnce, InsertedPrefix, HeldRows
    <2>3. ASSUME NEW r \in Rows, DecodeRow(r)
          PROVE ExactlyOnce' /\ InsertedPrefix' /\ HeldRows'
      BY <2>3 DEF DecodeRow, IsFirst, table, ExactlyOnce, InsertedPrefix,
                  HeldRows
    <2>4. ASSUME NEW r \in Rows, DecodeMarkFails(r)
          PROVE ExactlyOnce' /\ InsertedPrefix' /\ HeldRows'
      BY <2>4 DEF DecodeMarkFails, table, ExactlyOnce, InsertedPrefix,
                  HeldRows
    <2>5. ASSUME NEW r \in Rows, ChargeFails(r)
          PROVE ExactlyOnce' /\ InsertedPrefix' /\ HeldRows'
      BY <2>5 DEF ChargeFails, table, ExactlyOnce, InsertedPrefix, HeldRows
    <2>6. ASSUME NEW r \in Rows, NEW s \in Statuses \ {"none", "processed"},
                 MarkFailed(r, s), r \in todo, pc # "commit",
                 pc \in {"unresolved", "failed"} \/ s = "decode_failed",
                 todo' = todo \ {r}, UNCHANGED <<counted, inserted, valid, pc>>
          PROVE ExactlyOnce' /\ InsertedPrefix' /\ HeldRows'
      <3>1. \A q \in Rows :
              status'[q] = IF q = r /\ Stored(r) THEN s ELSE status[q]
        BY <2>6, MarkedRow
      <3>2. counted[r] = 0 /\ status[r] # "none"
        BY <2>6 DEF HeldRows
      <3>3. ExactlyOnce'
        BY <2>6, <3>1, <3>2 DEF ExactlyOnce
      <3>4. InsertedPrefix'
        BY <2>6, <3>1, <3>2 DEF InsertedPrefix
      <3>5. HeldRows'
        BY <2>6, <3>1 DEF HeldRows, TypeOK
      <3> QED BY <3>3, <3>4, <3>5
    <2>7. ASSUME NEW r \in Rows, DecodeFails(r)
          PROVE ExactlyOnce' /\ InsertedPrefix' /\ HeldRows'
      BY <2>6, <2>7 DEF DecodeFails, IsFirst, Statuses
    <2>8. ASSUME NEW r \in Rows, ChargeRow(r)
          PROVE ExactlyOnce' /\ InsertedPrefix' /\ HeldRows'
      <3>1. AfterFailure(r) \in Statuses \ {"none", "processed"}
        BY DEF AfterFailure, Statuses
      <3> QED BY <2>6, <2>8, <3>1 DEF ChargeRow, IsFirst
    <2>9. CASE NothingDecoded
      BY <2>9 DEF NothingDecoded, FinishRound, table, ExactlyOnce,
                  InsertedPrefix, HeldRows
    <2>10. CASE Resolve
      BY <2>10 DEF Resolve, table, ExactlyOnce, InsertedPrefix, HeldRows
    <2>11. CASE ResolveFails
      BY <2>11 DEF ResolveFails, Unresolved, table, ExactlyOnce,
                   InsertedPrefix, HeldRows
    <2>12. CASE Unblocked
      BY <2>12 DEF Unblocked, table, ExactlyOnce, InsertedPrefix, HeldRows
    <2>13. CASE Commit
      <3>1. /\ todo = {} /\ todo' = {} /\ valid' = {} /\ pc' \in {"list", "pause"}
            /\ inserted' = inserted
        BY <2>13 DEF Commit, FinishRound, HeldRows
      <3>2. \A r \in Rows :
              /\ counted'[r] = IF r \in valid THEN counted[r] + 1 ELSE counted[r]
              /\ status'[r] = IF r \in valid /\ Stored(r) THEN "processed"
                                                          ELSE status[r]
        BY <2>13 DEF Commit
      <3>3. \A r \in valid : counted[r] = 0 /\ status[r] # "none"
        BY DEF HeldRows
      <3>4. ExactlyOnce'
        BY <3>2, <3>3 DEF ExactlyOnce, Stored, TypeOK
      <3>5. InsertedPrefix'
        BY <3>1, <3>2, <3>3 DEF InsertedPrefix
      <3>6. HeldRows'
        BY <3>1 DEF HeldRows
      <3> QED BY <3>4, <3>5, <3>6
    <2>14. CASE CommitFails
      BY <2>14 DEF CommitFails, table, ExactlyOnce, InsertedPrefix, HeldRows
    <2>15. CASE RoundFailed
      BY <2>15 DEF RoundFailed, table, ExactlyOnce, InsertedPrefix, HeldRows
    <2>16. CASE Pause
      BY <2>16 DEF Pause, table, ExactlyOnce, InsertedPrefix, HeldRows
    <2> QED BY <1>2, <2>1, <2>2, <2>3, <2>4, <2>5, <2>7, <2>8, <2>9, <2>10,
               <2>11, <2>12, <2>13, <2>14, <2>15, <2>16
            DEF Process, Charge, MarkBad
  <1>3. ASSUME NEW S \in SUBSET Rows, Delete(S), \A r \in S : status[r] # "none",
               UNCHANGED <<counted, inserted, proc>>
        PROVE ExactlyOnce' /\ InsertedPrefix' /\ HeldRows'
    <2>1. \A r \in Rows : status'[r] = IF r \in S THEN "gone" ELSE status[r]
      BY <1>3 DEF Delete
    <2>2. pc' = pc /\ todo' = todo /\ valid' = valid
      BY <1>3 DEF proc
    <2>3. ExactlyOnce'
      BY <1>3, <2>1 DEF ExactlyOnce
    <2>4. InsertedPrefix'
      BY <1>3, <2>1 DEF InsertedPrefix
    <2>5. HeldRows'
      BY <1>3, <2>1, <2>2 DEF HeldRows, TypeOK
    <2> QED BY <2>3, <2>4, <2>5
  <1>4. CASE SweepProcessed
    <2> DEFINE S == {r \in Rows : /\ status[r] = "processed"
                                  /\ processedAt[r] < DayStart(now)}
    <2>1. Delete(S) /\ UNCHANGED <<counted, inserted, proc>>
      BY <1>4 DEF SweepProcessed
    <2> QED BY <1>3, <2>1
  <1>5. CASE SweepFailed
    <2> DEFINE S == {r \in Rows :
                      /\ status[r] \in {"decode_failed", "process_failed", "discarded"}
                      /\ touched[r] < sweep - KeepDays * DayTicks}
    <2>1. Delete(S) /\ UNCHANGED <<counted, inserted, proc>>
      BY <1>5 DEF SweepFailed
    <2>2. S \in SUBSET Rows /\ \A r \in S : status[r] # "none"
      OBVIOUS
    <2> QED BY <1>3, <2>1, <2>2
  <1>6. CASE Tick
    BY <1>6 DEF Tick, table, proc, ExactlyOnce, InsertedPrefix, HeldRows
  <1>7. CASE Crash
    BY <1>7 DEF Crash, table, ExactlyOnce, InsertedPrefix, HeldRows
  <1>8. CASE UNCHANGED vars
    BY <1>8 DEF vars, table, proc, ExactlyOnce, InsertedPrefix, HeldRows
  <1> QED BY <1>1, <1>2, <1>4, <1>5, <1>6, <1>7, <1>8 DEF Next, Sweep

\* The inductive invariant of the inbox always holds: exactly-once counting
\* (processRedisInboxRows), and what the processor holds was inserted.
THEOREM InvCorrect == Spec => []IInv
  BY InvInit, InvStep, PTL DEF Spec

(* No accepted message is ever counted twice, and a row says "processed"   *)
(* exactly when its event was written: the guarantee of the transaction in *)
(* processRedisInboxRows, for all table sizes, limits and interleavings.   *)
THEOREM CountedExactlyOnce == Spec => []ExactlyOnce
  BY InvCorrect, PTL DEF IInv
-----------------------------------------------------------------------------
(* The refinement.                                                         *)

\* Every row keeps its fate or moves from one given fate to another.
Moves(from, to) ==
    \A r \in Rows : Fate'[r] = Fate[r] \/ (Fate[r] = from /\ Fate'[r] = to)

\* A change of Fate that only moves rows from one fate to another is a
\* step of the ledger.
LEMMA MoveFate ==
    ASSUME NEW from, NEW to,
           Moves(from, to)
    PROVE  Ledger!Move(from, to) \/ UNCHANGED Fate
  <1> DEFINE S == {r \in Rows : Fate'[r] # Fate[r]}
  <1>1. /\ Fate = [r \in Rows |-> Fate[r]]
        /\ Fate' = [r \in Rows |-> Fate'[r]]
    BY DEF Fate
  <1>2. S \in SUBSET {r \in Rows : Fate[r] = from}
    BY DEF Moves
  <1>3. \A r \in Rows : Fate'[r] = IF r \in S THEN to ELSE Fate[r]
    BY DEF Moves
  <1>4. CASE S = {}
    <2>1. \A r \in Rows : Fate'[r] = Fate[r]
      BY <1>4
    <2> HIDE DEF S
    <2> QED BY <1>1, <2>1
  <1>5. CASE S # {}
    <2> HIDE DEF S
    <2>1. Fate' = [r \in Rows |-> IF r \in S THEN to ELSE Fate[r]]
      BY <1>1, <1>3
    <2> QED BY <1>2, <1>5, <2>1 DEF Ledger!Move
  <1> QED BY <1>4, <1>5

\* At the start every message is absent.
LEMMA FateInit == Init => Ledger!Init
  <1> SUFFICES ASSUME Init PROVE Fate = [r \in Rows |-> "absent"]
    BY DEF Ledger!Init
  <1>1. \A r \in Rows : r > inserted
    BY DEF Init, Rows
  <1> QED BY <1>1 DEF Fate

\* The fate of a row before and after a step.
LEMMA FateOf ==
    ASSUME NEW r \in Rows
    PROVE  /\ Fate[r] = IF r > inserted THEN "absent"
                        ELSE IF counted[r] > 0 THEN "counted"
                        ELSE IF \/ status[r] \in {"pending", "process_failed"}
                                \/ status[r] = "gone" /\ r \in InFlight
                             THEN "open"
                        ELSE "dropped"
           /\ Fate'[r] = IF r > inserted' THEN "absent"
                         ELSE IF counted'[r] > 0 THEN "counted"
                         ELSE IF \/ status'[r] \in {"pending", "process_failed"}
                                 \/ status'[r] = "gone" /\ r \in InFlight'
                              THEN "open"
                         ELSE "dropped"
  BY DEF Fate, Retryable

\* Every step accepts, counts or drops messages, or is invisible to the
\* ledger.
LEMMA FateStep == IInv /\ [Next]_vars => [Ledger!Next]_Fate
  <1> SUFFICES ASSUME IInv, [Next]_vars
               PROVE  \/ Moves("absent", "open")
                      \/ Moves("open", "counted")
                      \/ Moves("open", "dropped")
    BY MoveFate DEF Ledger!Next, Ledger!Accept, Ledger!Count, Ledger!Drop
  <1> USE FateOf DEF IInv
  <1>0. \A r \in Rows : counted[r] \in {0, 1}
    BY DEF ExactlyOnce, TypeOK
  \* Steps that leave the table alone only let go of deleted rows.
  <1>1. ASSUME UNCHANGED <<status, counted, inserted>>, InFlight' \subseteq InFlight
        PROVE  Moves("open", "dropped")
    BY <1>1 DEF Moves
  <1>2. CASE Ingest
    <2>1. PICK n \in 1..(MaxRows - inserted) :
            /\ inserted' = inserted + n
            /\ status' = [r \in Rows |-> IF r \in (inserted + 1)..(inserted + n)
                                         THEN "pending" ELSE status[r]]
      BY <1>2 DEF Ingest
    <2>2. \A r \in Rows : /\ r > inserted' => r > inserted
                          /\ r \in (inserted + 1)..(inserted + n)
                               <=> r > inserted /\ ~(r > inserted')
      BY <2>1 DEF TypeOK, Rows
    <2>3. \A r \in Rows : status'[r] = IF r > inserted /\ ~(r > inserted')
                                       THEN "pending" ELSE status[r]
      BY <2>1, <2>2 DEF TypeOK
    <2>4. counted' = counted /\ InFlight' = InFlight
      BY <1>2 DEF Ingest, proc, InFlight
    <2>5. \A r \in Rows : r > inserted => counted[r] = 0
      BY DEF InsertedPrefix
    <2> QED BY <2>2, <2>3, <2>4, <2>5 DEF Moves
  <1>3. CASE ListBatch
    <2>1. \A r \in NextBatch : status[r] # "gone"
      BY DEF NextBatch, Retryable
    <2>2. /\ InFlight = {} /\ InFlight' \subseteq NextBatch
          /\ UNCHANGED <<status, counted, inserted>>
      BY <1>3 DEF ListBatch, InFlight, table
    <2> QED BY <2>1, <2>2 DEF Moves
  <1>4. CASE ListFails \/ NothingDecoded \/ Resolve \/ Unblocked \/ RoundFailed \/ Pause
    <2>1. /\ UNCHANGED <<status, counted, inserted>>
          /\ InFlight' \subseteq InFlight
      BY <1>4 DEF ListFails, NothingDecoded, FinishRound, Resolve, Unblocked,
                  RoundFailed, Pause, InFlight, table
    <2> QED BY <1>1, <2>1
  <1>5. CASE ResolveFails \/ CommitFails \/ Crash
    <2>1. /\ UNCHANGED <<status, counted, inserted>>
          /\ InFlight' \subseteq InFlight
      BY <1>5 DEF ResolveFails, CommitFails, Crash, InFlight, table
    <2> QED BY <1>1, <2>1
  <1>6. ASSUME NEW r \in Rows, DecodeRow(r) \/ DecodeMarkFails(r) \/ ChargeFails(r)
        PROVE  Moves("open", "dropped")
    <2>1. /\ UNCHANGED <<status, counted, inserted>>
          /\ InFlight' \subseteq InFlight
      BY <1>6 DEF DecodeRow, DecodeMarkFails, ChargeFails, IsFirst, InFlight, table
    <2> QED BY <1>1, <2>1
  \* Marking or charging row r moves at most that row.
  <1>7. ASSUME NEW r \in Rows, NEW s \in Statuses, MarkFailed(r, s), r \in todo,
               \/ pc = "decode" /\ s = "decode_failed"
               \/ pc \in {"unresolved", "failed"} /\ s \in {"process_failed", "discarded"},
               todo' = todo \ {r}, UNCHANGED <<counted, inserted, valid, pc>>
        PROVE  Moves("open", "dropped")
    <2>1. \A q \in Rows :
            status'[q] = IF q = r /\ Stored(r) THEN s ELSE status[q]
      BY <1>7, MarkedRow
    <2>2. \A q \in Rows : q # r => (q \in InFlight' <=> q \in InFlight)
      BY <1>7 DEF InFlight
    <2>3. /\ counted[r] = 0 /\ status[r] \in {"pending", "process_failed", "gone"}
          /\ ~(r > inserted)
      BY <1>7 DEF HeldRows, InsertedPrefix
    <2>4. Stored(r) <=> status[r] # "gone"
      BY <2>3 DEF Stored
    <2>5. InFlight' \subseteq InFlight
      BY <1>7 DEF InFlight
    <2>6. \A q \in Rows : q # r => Fate'[q] = Fate[q]
      BY <1>7, <2>1, <2>2
    <2>7. CASE status[r] = "gone"
      BY <1>7, <2>1, <2>3, <2>4, <2>5, <2>6, <2>7 DEF Moves
    <2>8. CASE status[r] # "gone"
      <3>1. Fate[r] = "open" /\ Fate'[r] \in {"open", "dropped"}
        BY <1>7, <2>1, <2>3, <2>4, <2>8
      <3> QED BY <2>6, <3>1 DEF Moves
    <2> QED BY <2>7, <2>8
  <1>8. ASSUME NEW r \in Rows, DecodeFails(r) PROVE Moves("open", "dropped")
    BY <1>7, <1>8 DEF DecodeFails, IsFirst, Statuses
  <1>9. ASSUME NEW r \in Rows, ChargeRow(r) PROVE Moves("open", "dropped")
    <2>1. AfterFailure(r) \in Statuses /\ AfterFailure(r) \in {"process_failed", "discarded"}
      BY DEF AfterFailure, Statuses
    <2> QED BY <1>7, <1>9, <2>1 DEF ChargeRow, IsFirst
  <1>10. CASE Commit
    <2>1. \A r \in Rows :
            /\ counted'[r] = IF r \in valid THEN counted[r] + 1 ELSE counted[r]
            /\ status'[r] = IF r \in valid /\ Stored(r) THEN "processed"
                                                        ELSE status[r]
      BY <1>10 DEF Commit
    <2>2. InFlight = valid /\ InFlight' = {} /\ inserted' = inserted
      BY <1>10 DEF Commit, FinishRound, InFlight
    <2>3. \A r \in valid :
            counted[r] = 0 /\ status[r] \in {"pending", "process_failed", "gone"}
      BY DEF HeldRows
    <2>4. \A r \in valid : ~(r > inserted) /\ Fate[r] = "open" /\ Fate'[r] = "counted"
      BY <2>1, <2>2, <2>3 DEF InsertedPrefix, TypeOK
    <2>5. \A r \in Rows \ valid : Fate'[r] = Fate[r]
      BY <2>1, <2>2
    <2> QED BY <2>4, <2>5 DEF Moves
  <1>11. ASSUME NEW S \in SUBSET Rows, Delete(S), UNCHANGED <<counted, inserted, proc>>,
                \A r \in S : status[r] # "none",
                \A r \in S : counted[r] = 1 \/ status[r] # "processed"
         PROVE  Moves("open", "dropped")
    <2>1. \A r \in Rows : status'[r] = IF r \in S THEN "gone" ELSE status[r]
      BY <1>11 DEF Delete
    <2>2. InFlight' = InFlight /\ \A r \in InFlight : status[r] \in {"pending", "process_failed", "gone"}
      BY <1>11 DEF proc, InFlight, HeldRows
    <2> QED BY <1>0, <1>11, <2>1, <2>2 DEF Moves
  <1>12. CASE SweepProcessed
    <2> DEFINE S == {r \in Rows : /\ status[r] = "processed"
                                  /\ processedAt[r] < DayStart(now)}
    <2>1. Delete(S) /\ UNCHANGED <<counted, inserted, proc>>
      BY <1>12 DEF SweepProcessed
    <2>2. \A r \in S : counted[r] = 1 /\ status[r] # "none"
      BY DEF ExactlyOnce
    <2> QED BY <1>11, <2>1, <2>2
  <1>13. CASE SweepFailed
    <2> DEFINE S == {r \in Rows :
                      /\ status[r] \in {"decode_failed", "process_failed", "discarded"}
                      /\ touched[r] < sweep - KeepDays * DayTicks}
    <2>1. Delete(S) /\ UNCHANGED <<counted, inserted, proc>>
      BY <1>13 DEF SweepFailed
    <2>2. \A r \in S : status[r] # "processed" /\ status[r] # "none"
      OBVIOUS
    <2> QED BY <1>11, <2>1, <2>2
  <1>14. CASE Tick \/ UNCHANGED vars
    <2>1. /\ UNCHANGED <<status, counted, inserted>>
          /\ InFlight' \subseteq InFlight
      BY <1>14 DEF Tick, vars, table, proc, InFlight
    <2> QED BY <1>1, <2>1
  <1> QED BY <1>2, <1>3, <1>4, <1>5, <1>6, <1>8, <1>9, <1>10, <1>12, <1>13, <1>14
          DEF Next, Process, Sweep, Charge, MarkBad

(* The inbox implements UsageLedger: whatever retries, crashes and the     *)
(* concurrent clean-up do, a message is counted or dropped at most once    *)
(* and for good.                                                           *)
THEOREM InboxImplementsLedger == Spec => ImplementsLedger
  BY FateInit, FateStep, InvCorrect, PTL DEF Spec, Ledger!Spec, ImplementsLedger

-----------------------------------------------------------------------------
(* The pause between two attempts. A charged row is out of the processor's *)
(* hands; as long as it is retryable, the round is bound to end in a pause.*)

ChargedRows ==
    /\ tried \cap (todo \cup valid) = {}
    /\ \A r \in tried \cap Retryable :
          pc = "pause" \/ (retry /\ pc \in {"unresolved", "commit", "failed"})

TriedInserted == \A r \in tried : r <= inserted

PInv == IInv /\ TriedInserted /\ ChargedRows

\* At the start no row has been charged.
LEMMA ChargedInit == Init => ChargedRows
  BY DEF Init, ChargedRows

\* At the start no row has been charged.
LEMMA TriedInit == Init => TriedInserted
  BY DEF Init, TriedInserted

\* Only inserted rows are charged.
LEMMA TriedStep == PInv /\ [Next]_vars => TriedInserted'
  <1> SUFFICES ASSUME PInv, [Next]_vars PROVE TriedInserted'
    OBVIOUS
  <1> USE DEF PInv, IInv, TriedInserted
  <1>1. CASE Ingest
    BY <1>1 DEF Ingest, TypeOK, Rows
  <1>2. ASSUME NEW r \in Rows, ChargeRow(r) PROVE TriedInserted'
    <2>1. inserted' = inserted
      BY <1>2 DEF ChargeRow
    <2>2. Stored(r) => r <= inserted
      BY DEF Stored, InsertedPrefix, TypeOK, Rows
    <2>3. \A q \in tried' : q \in tried \/ (q = r /\ Stored(r))
      <3>1. CASE Stored(r)
        BY <1>2, <3>1 DEF ChargeRow
      <3>2. CASE ~Stored(r)
        BY <1>2, <3>2 DEF ChargeRow
      <3> QED BY <3>1, <3>2
    <2> QED BY <2>1, <2>2, <2>3
  <1>3. CASE Pause \/ Crash
    BY <1>3 DEF Pause, Crash
  <1>4. CASE UNCHANGED <<inserted, tried>>
    BY <1>4
  <1> QED
    BY <1>1, <1>2, <1>3, <1>4
    DEF Next, Process, Sweep, Charge, MarkBad, ListBatch, ListFails, DecodeRow,
        DecodeFails, DecodeMarkFails, ChargeFails, NothingDecoded, Resolve,
        ResolveFails, Unblocked, Commit, CommitFails, RoundFailed, SweepProcessed,
        SweepFailed, Tick, vars

\* A row charged since the last pause is not in the hands of the processor
\* again before the next one.
LEMMA ChargedStep == PInv /\ [Next]_vars => ChargedRows'
  <1> SUFFICES ASSUME PInv, [Next]_vars PROVE ChargedRows'
    OBVIOUS
  <1> USE DEF PInv, IInv
  <1>1. CASE Ingest
    <2>1. \A r \in Rows : status[r] # "none" => status'[r] = status[r]
      <3>1. PICK n \in 1..(MaxRows - inserted) :
              status' = [r \in Rows |-> IF r \in (inserted + 1)..(inserted + n)
                                       THEN "pending" ELSE status[r]]
        BY <1>1 DEF Ingest
      <3>2. \A r \in (inserted + 1)..(inserted + n) : r > inserted
        BY DEF TypeOK
      <3> QED BY <3>1, <3>2 DEF InsertedPrefix
    <2>2. \A r \in tried : status'[r] = status[r]
      <3>1. PICK n \in 1..(MaxRows - inserted) :
              status' = [r \in Rows |-> IF r \in (inserted + 1)..(inserted + n)
                                       THEN "pending" ELSE status[r]]
        BY <1>1 DEF Ingest
      <3>2. \A r \in (inserted + 1)..(inserted + n) : r > inserted
        BY DEF TypeOK
      <3>3. \A r \in tried : r \in Rows /\ r <= inserted /\ r \in Int
        BY DEF TypeOK, TriedInserted, Rows
      <3>4. inserted \in Int
        BY DEF TypeOK
      <3> QED BY <3>1, <3>2, <3>3, <3>4
    <2> QED BY <1>1, <2>2 DEF Ingest, proc, ChargedRows, Retryable
  \* Steps that leave the table and tried alone.
  <1>2. CASE ListBatch
    <2>1. todo' \subseteq Retryable /\ valid' = {} /\ pc' \in {"pause", "decode"}
      BY <1>2 DEF ListBatch, NextBatch
    <2>2. tried \cap Retryable = {}
      BY <1>2 DEF ListBatch, ChargedRows
    <2>3. tried' = tried /\ Retryable' = Retryable
      BY <1>2 DEF ListBatch, table, Retryable
    <2> QED BY <2>1, <2>2, <2>3 DEF ChargedRows
  <1>3. CASE ListFails \/ RoundFailed \/ Resolve \/ Unblocked
    BY <1>3 DEF ListFails, RoundFailed, Resolve, Unblocked, table, ChargedRows, Retryable
  <1>4. CASE NothingDecoded
    BY <1>4 DEF NothingDecoded, FinishRound, table, ChargedRows, Retryable
  <1>5. CASE ResolveFails
    BY <1>5 DEF ResolveFails, Unresolved, table, ChargedRows, Retryable
  <1>6. CASE CommitFails
    BY <1>6 DEF CommitFails, table, ChargedRows, Retryable
  <1>7. CASE Pause \/ Crash
    BY <1>7 DEF Pause, Crash, ChargedRows
  <1>8. ASSUME NEW r \in Rows, DecodeRow(r) PROVE ChargedRows'
    BY <1>8 DEF DecodeRow, IsFirst, table, ChargedRows, Retryable
  <1>9. ASSUME NEW r \in Rows, DecodeMarkFails(r) PROVE ChargedRows'
    BY <1>9 DEF DecodeMarkFails, table, ChargedRows, Retryable
  <1>10. ASSUME NEW r \in Rows, ChargeFails(r) PROVE ChargedRows'
    BY <1>10 DEF ChargeFails, table, ChargedRows, Retryable
  <1>11. ASSUME NEW r \in Rows, DecodeFails(r) PROVE ChargedRows'
    <2>1. "decode_failed" \in Statuses
      BY DEF Statuses
    <2>2. Retryable' \subseteq Retryable
      BY <1>11, <2>1, MarkedRow DEF DecodeFails, Retryable
    <2> QED BY <1>11, <2>2 DEF DecodeFails, IsFirst, ChargedRows
  <1>12. ASSUME NEW r \in Rows, ChargeRow(r) PROVE ChargedRows'
    <2>1. AfterFailure(r) \in Statuses
      BY DEF AfterFailure, Statuses
    <2>2. \A q \in Rows :
            status'[q] = IF q = r /\ Stored(r) THEN AfterFailure(r) ELSE status[q]
      BY <1>12, <2>1, MarkedRow DEF ChargeRow
    <2>3. r \in Retryable' => retry'
      <3>1. CASE ~Stored(r)
        BY <1>12, <3>1 DEF ChargeRow
      <3>2. CASE Stored(r)
        BY <1>12, <2>2, <3>2 DEF ChargeRow, AfterFailure, Retryable
      <3> QED BY <3>1, <3>2
    <2>4. /\ tried' \subseteq tried \cup {r} /\ todo' = todo \ {r} /\ valid' = valid
          /\ pc' = pc /\ pc \in {"unresolved", "failed"}
          /\ r \in todo
      <3>1. CASE Stored(r)
        BY <1>12, <3>1 DEF ChargeRow, IsFirst
      <3>2. CASE ~Stored(r)
        BY <1>12, <3>2 DEF ChargeRow, IsFirst
      <3> QED BY <3>1, <3>2
    <2>7. retry => retry'
      BY <1>12 DEF ChargeRow, TypeOK
    <2>5. todo' \cap {r} = {} /\ valid' \cap {r} = {}
      BY <2>4 DEF HeldRows
    <2>6. \A q \in Retryable' : q = r \/ q \in Retryable
      BY <2>2 DEF Retryable
    <2> QED BY <2>3, <2>4, <2>5, <2>6, <2>7 DEF ChargedRows
  <1>13. CASE Commit
    <2>1. Retryable' \subseteq Retryable
      BY <1>13 DEF Commit, Retryable
    <2>2. /\ todo' = todo /\ valid' = {} /\ tried' = tried /\ retry' = retry
          /\ retry => pc' = "pause"
      BY <1>13 DEF Commit, FinishRound
    <2> QED BY <1>13, <2>1, <2>2 DEF Commit, ChargedRows
  <1>14. CASE Sweep
    <2>1. Retryable' \subseteq Retryable
      BY <1>14 DEF Sweep, SweepProcessed, SweepFailed, Delete, Retryable
    <2> QED BY <1>14, <2>1 DEF Sweep, SweepProcessed, SweepFailed, proc, ChargedRows
  <1>15. CASE Tick \/ UNCHANGED vars
    BY <1>15 DEF Tick, vars, table, proc, ChargedRows, Retryable
  <1> QED BY <1>1, <1>2, <1>3, <1>4, <1>5, <1>6, <1>7, <1>8, <1>9, <1>10, <1>11,
             <1>12, <1>13, <1>14, <1>15 DEF Next, Process, Charge, MarkBad

\* A step charges only rows that were not charged since the last pause.
LEMMA AttemptsStep ==
    PInv /\ [Next]_vars =>
      [\A r \in Rows : attempts'[r] > attempts[r] /\ status'[r] # "decode_failed"
                        => r \notin tried]_vars
  <1> SUFFICES ASSUME PInv, [Next]_vars, NEW r \in Rows,
                      attempts'[r] > attempts[r], status'[r] # "decode_failed"
               PROVE  r \notin tried
    OBVIOUS
  <1> USE DEF PInv, IInv
  <1>1. attempts[r] \in Nat
    BY DEF TypeOK
  <1>2. attempts' # attempts
    BY <1>1
  <1>3. CASE \E q \in Rows : DecodeFails(q)
    <2>1. PICK q \in Rows : DecodeFails(q)
      BY <1>3
    <2>2. "decode_failed" \in Statuses
      BY DEF Statuses
    <2>3. MarkFailed(q, "decode_failed")
      BY <2>1 DEF DecodeFails
    <2>4. q = r /\ Stored(q)
      BY <1>1, <2>2, <2>3, MarkedAttempts
    <2>5. status'[r] = "decode_failed"
      BY <2>2, <2>3, <2>4, MarkedRow
    <2> QED BY <2>5
  <1>4. CASE \E q \in Rows : ChargeRow(q)
    <2>1. PICK q \in Rows : ChargeRow(q)
      BY <1>4
    <2>2. MarkFailed(q, AfterFailure(q))
      BY <2>1 DEF ChargeRow
    <2>3. q = r
      <3>1. AfterFailure(q) \in Statuses
        BY DEF AfterFailure, Statuses
      <3> QED BY <1>1, <2>2, <3>1, MarkedAttempts
    <2> QED BY <2>1, <2>3 DEF ChargeRow, IsFirst, ChargedRows
  <1>5. (\E q \in Rows : DecodeFails(q)) \/ (\E q \in Rows : ChargeRow(q))
    BY <1>2 DEF Next, Process, Sweep, Charge, MarkBad, Ingest, ListBatch, ListFails,
                DecodeRow, DecodeMarkFails, ChargeFails, NothingDecoded, Resolve,
                ResolveFails, Unblocked, Commit, CommitFails, RoundFailed, Pause,
                SweepProcessed, SweepFailed, Delete, Tick, Crash, vars, table
  <1> QED BY <1>3, <1>4, <1>5

(* The process runner never charges two attempts to a row without its      *)
(* one-second sleep (or a restart) in between, so no backlog drain can use *)
(* up the five chances of a message.                                       *)
THEOREM AttemptsAreSpaced == Spec => PauseBetweenAttempts
  <1>1. Spec => []PInv
    BY InvInit, InvStep, ChargedInit, TriedInit, TriedStep, ChargedStep, PTL DEF Spec, PInv
  <1> QED BY <1>1, AttemptsStep, PTL DEF Spec, PauseBetweenAttempts
=============================================================================
