----------------------------- MODULE UsageInbox -----------------------------
(***************************************************************************)
(* The usage inbox of CPA Usage Keeper: the table redis_usage_inboxes,     *)
(* the processor that turns its rows into usage_events                     *)
(* (RedisProcessRunner -> SyncService.ProcessRedisUsageInbox) and the      *)
(* daily clean-up that deletes old rows, running concurrently.             *)
(*                                                                         *)
(* Every database statement or transaction is one action; between two of   *)
(* them ingest, clean-up, the clock and a crash may step in. A row         *)
(* listed by the processor may therefore be gone, or out of date, when     *)
(* the processor comes back to it.                                         *)
(***************************************************************************)
EXTENDS Integers, FiniteSets

CONSTANTS
    MaxRows,       \* bound: how many messages are ever accepted
    BatchLimit,    \* redisInboxProcessLimit (1000)
    MaxAttempts,   \* redisUsageInboxMaxProcessAttempts (5)
    DayTicks,      \* clock ticks in a local day
    KeepDays,      \* days a failed row is kept (7)
    MaxNow,        \* bound: the last clock tick
    Payloads,      \* bound: what the messages may need, row by row
    MaxCrashes     \* bound: how often the process is killed

ASSUME InboxAssumption ==
    /\ MaxRows \in Nat \ {0}
    /\ BatchLimit \in Nat \ {0}
    /\ MaxAttempts \in Nat \ {0}
    /\ DayTicks \in Nat \ {0}
    /\ KeepDays \in Nat
    /\ MaxNow \in Nat
    /\ MaxCrashes \in Nat

Rows == 1..MaxRows

(* What the payload of a message needs: "bad" does not decode, "known"    *)
(* names an executor the token processor knows, "unknown" needs a look-up *)
(* of the usage identity before it can be normalised.                     *)
Kinds == {"bad", "known", "unknown"}

ASSUME PayloadAssumption == Payloads \subseteq [Rows -> Kinds]

(* "none": not inserted yet; "gone": deleted by the clean-up.             *)
Statuses == {"none", "pending", "processed", "decode_failed",
             "process_failed", "discarded", "gone"}

VARIABLES
    now,        \* clock
    kind,       \* kind[r]: what the payload of row r needs
    inserted,   \* rows 1..inserted have been inserted
    status,     \* status column
    attempts,   \* attempt_count column
    touched,    \* updated_at column
    processedAt,\* processed_at column
    counted,    \* counted[r]: usage_events rows made from row r
    pc,         \* where the processor is
    todo,       \* rows the current loop of the processor has still to visit
    valid,      \* rows of the batch that decoded, then those ready to commit
    full,       \* the batch reached BatchLimit
    retry,      \* failureCounts.requiresRetryWait()
    fetchedAt,  \* the round's clock reading
    sweep,      \* the clean-up: clock reading of the run in progress, or -1
    tried,      \* history: rows whose attempt was charged since the last pause
    crashes     \* history: kills so far

table == <<status, attempts, touched, processedAt>>
proc  == <<pc, todo, valid, full, retry, fetchedAt>>
vars  == <<now, kind, inserted, table, counted, proc, sweep, tried, crashes>>

PCs == {"list", "decode", "unresolved", "commit", "failed", "pause"}

TypeOK ==
    /\ now \in Nat
    /\ kind \in [Rows -> Kinds]
    /\ inserted \in 0..MaxRows
    /\ status \in [Rows -> Statuses]
    /\ attempts \in [Rows -> Nat]
    /\ touched \in [Rows -> Nat]
    /\ processedAt \in [Rows -> Nat]
    /\ counted \in [Rows -> Nat]
    /\ pc \in PCs
    /\ todo \subseteq Rows
    /\ valid \subseteq Rows
    /\ full \in BOOLEAN
    /\ retry \in BOOLEAN
    /\ fetchedAt \in Nat
    /\ sweep \in Nat \cup {-1}
    /\ tried \subseteq Rows
    /\ crashes \in Nat

Init ==
    /\ now = 0
    /\ kind \in Payloads
    /\ inserted = 0
    /\ status = [r \in Rows |-> "none"]
    /\ attempts = [r \in Rows |-> 0]
    /\ touched = [r \in Rows |-> 0]
    /\ processedAt = [r \in Rows |-> 0]
    /\ counted = [r \in Rows |-> 0]
    /\ pc = "list"
    /\ todo = {} /\ valid = {} /\ full = FALSE /\ retry = FALSE
    /\ fetchedAt = 0
    /\ sweep = -1
    /\ tried = {}
    /\ crashes = 0

-----------------------------------------------------------------------------
(* Reading and updating the table.                                         *)

Retryable == {r \in Rows : status[r] \in {"pending", "process_failed"}}

\* Mutant: rows that were given up are listed again.
NextBatchOfAll ==
    {r \in Rows : status[r] \in {"pending", "process_failed", "discarded"}}

\* The ids of the next batch: the first BatchLimit retryable rows.
NextBatch ==
    {r \in Retryable : Cardinality({q \in Retryable : q < r}) < BatchLimit}

Stored(r) == status[r] \notin {"none", "gone"}

IsFirst(r, S) == r \in S /\ \A q \in S : r <= q

\* Mutant: the attempt is not counted.
MarkFailedUncharged(r, newStatus) ==
    IF Stored(r)
    THEN /\ status' = [status EXCEPT ![r] = newStatus]
         /\ touched' = [touched EXCEPT ![r] = now]
         /\ UNCHANGED <<attempts, processedAt>>
    ELSE UNCHANGED table

\* UPDATE ... WHERE id = r: nothing happens when the row is gone.
MarkFailed(r, newStatus) ==
    IF Stored(r)
    THEN /\ status' = [status EXCEPT ![r] = newStatus]
         /\ attempts' = [attempts EXCEPT ![r] = @ + 1]
         /\ touched' = [touched EXCEPT ![r] = now]
         /\ UNCHANGED processedAt
    ELSE UNCHANGED table

\* The CASE expression of MarkRedisUsageInboxProcessFailed.
AfterFailure(r) ==
    IF attempts[r] + 1 >= MaxAttempts THEN "discarded" ELSE "process_failed"

-----------------------------------------------------------------------------
(* Ingest: one pulled batch is inserted by one transaction.                *)

Ingest ==
    /\ \E n \in 1..(MaxRows - inserted) :
         LET new == (inserted + 1)..(inserted + n) IN
         /\ inserted' = inserted + n
         /\ status' = [r \in Rows |-> IF r \in new THEN "pending" ELSE status[r]]
         /\ touched' = [r \in Rows |-> IF r \in new THEN now ELSE touched[r]]
    /\ UNCHANGED <<now, kind, attempts, processedAt, counted, proc, sweep,
                   tried, crashes>>

-----------------------------------------------------------------------------
(* The processor.                                                          *)

\* Mutant: a full batch is followed at once, whatever is left to retry.
FinishRoundEager(retryPending) ==
    pc' = IF full THEN "list" ELSE "pause"

\* shouldContinueRedisProcessImmediately for a round that did not fail.
FinishRound(retryPending) ==
    pc' = IF full /\ ~retryPending THEN "list" ELSE "pause"

ListBatch ==
    /\ pc = "list"
    /\ fetchedAt' = now
    /\ todo' = NextBatch
    /\ valid' = {}
    /\ retry' = FALSE
    /\ full' = (Cardinality(NextBatch) >= BatchLimit)
    /\ pc' = IF NextBatch = {} THEN "pause" ELSE "decode"
    /\ UNCHANGED <<now, kind, inserted, table, counted, sweep, tried, crashes>>

ListFails ==
    /\ pc = "list"
    /\ pc' = "pause"
    /\ UNCHANGED <<now, kind, inserted, table, counted, todo, valid, full,
                   retry, fetchedAt, sweep, tried, crashes>>

DecodeRow(r) ==
    /\ pc = "decode" /\ IsFirst(r, todo)
    /\ kind[r] # "bad"
    /\ todo' = todo \ {r}
    /\ valid' = valid \cup {r}
    /\ UNCHANGED <<now, kind, inserted, table, counted, pc, full, retry,
                   fetchedAt, sweep, tried, crashes>>

DecodeFails(r) ==
    /\ pc = "decode" /\ IsFirst(r, todo)
    /\ kind[r] = "bad"
    /\ MarkFailed(r, "decode_failed")
    /\ todo' = todo \ {r}
    /\ UNCHANGED <<now, kind, inserted, counted, pc, valid, full, retry,
                   fetchedAt, sweep, tried, crashes>>

\* The bad row could not be marked: the round ends as failed at once, the
\* rows already decoded stay as they are.
DecodeMarkFails(r) ==
    /\ pc = "decode" /\ IsFirst(r, todo)
    /\ kind[r] = "bad"
    /\ pc' = "pause"
    /\ todo' = {} /\ valid' = {}
    /\ UNCHANGED <<now, kind, inserted, table, counted, full, retry,
                   fetchedAt, sweep, tried, crashes>>

NothingDecoded ==
    /\ pc = "decode" /\ todo = {} /\ valid = {}
    /\ FinishRound(FALSE)
    /\ UNCHANGED <<now, kind, inserted, table, counted, todo, valid, full,
                   retry, fetchedAt, sweep, tried, crashes>>

Unresolved == {r \in valid : kind[r] = "unknown"}

\* All rows are normalised, with a successful look-up where one is needed.
Resolve ==
    /\ pc = "decode" /\ todo = {} /\ valid # {}
    /\ pc' = "commit"
    /\ UNCHANGED <<now, kind, inserted, table, counted, todo, valid, full,
                   retry, fetchedAt, sweep, tried, crashes>>

\* The identity look-up fails: only the rows that need it are unresolved.
ResolveFails ==
    /\ pc = "decode" /\ todo = {} /\ Unresolved # {}
    /\ pc' = "unresolved"
    /\ todo' = Unresolved
    /\ valid' = valid \ Unresolved
    /\ UNCHANGED <<now, kind, inserted, table, counted, full, retry,
                   fetchedAt, sweep, tried, crashes>>

\* markRedisInboxRowsProcessFailed, one row: the UPDATE may fail, and so may
\* the read that follows; both leave the outcome uncertain.
ChargeRow(r) ==
    /\ pc \in {"unresolved", "failed"} /\ IsFirst(r, todo)
    /\ MarkFailed(r, AfterFailure(r))
    /\ retry' \in {retry, TRUE}
    /\ (status'[r] = "process_failed" \/ ~Stored(r)) => retry'
    /\ tried' = IF Stored(r) THEN tried \cup {r} ELSE tried
    /\ todo' = todo \ {r}
    /\ UNCHANGED <<now, kind, inserted, counted, pc, valid, full, fetchedAt,
                   sweep, crashes>>

ChargeFails(r) ==
    /\ pc \in {"unresolved", "failed"} /\ IsFirst(r, todo)
    /\ retry' = TRUE
    /\ todo' = todo \ {r}
    /\ UNCHANGED <<now, kind, inserted, table, counted, pc, valid, full,
                   fetchedAt, sweep, tried, crashes>>

\* All unresolved rows are charged: go on with the ready ones, if any.
Unblocked ==
    /\ pc = "unresolved" /\ todo = {}
    /\ pc' = IF valid = {} THEN "pause" ELSE "commit"
    /\ UNCHANGED <<now, kind, inserted, table, counted, todo, valid, full,
                   retry, fetchedAt, sweep, tried, crashes>>

\* One transaction inserts the events and marks the rows processed.
Commit ==
    /\ pc = "commit"
    /\ counted' = [r \in Rows |-> IF r \in valid THEN counted[r] + 1
                                                 ELSE counted[r]]
    /\ LET marked == {r \in valid : Stored(r)} IN
       /\ status' = [r \in Rows |-> IF r \in marked THEN "processed"
                                                    ELSE status[r]]
       /\ touched' = [r \in Rows |-> IF r \in marked THEN now ELSE touched[r]]
       /\ processedAt' = [r \in Rows |-> IF r \in marked THEN fetchedAt
                                                         ELSE processedAt[r]]
    /\ valid' = {}
    /\ FinishRound(retry)
    /\ UNCHANGED <<now, kind, inserted, attempts, todo, full, retry,
                   fetchedAt, sweep, tried, crashes>>

\* Mutant: the events were inserted outside the transaction that failed.
CommitFailsHalfway ==
    /\ pc = "commit"
    /\ pc' = "failed"
    /\ todo' = valid
    /\ valid' = {}
    /\ counted' = [r \in Rows |-> IF r \in valid THEN counted[r] + 1
                                                 ELSE counted[r]]
    /\ UNCHANGED <<now, kind, inserted, table, full, retry,
                   fetchedAt, sweep, tried, crashes>>

\* The transaction rolls back; its rows are charged one by one.
CommitFails ==
    /\ pc = "commit"
    /\ pc' = "failed"
    /\ todo' = valid
    /\ valid' = {}
    /\ UNCHANGED <<now, kind, inserted, table, counted, full, retry,
                   fetchedAt, sweep, tried, crashes>>

RoundFailed ==
    /\ pc = "failed" /\ todo = {}
    /\ pc' = "pause"
    /\ UNCHANGED <<now, kind, inserted, table, counted, todo, valid, full,
                   retry, fetchedAt, sweep, tried, crashes>>

\* The one-second sleep between rounds.
Pause ==
    /\ pc = "pause"
    /\ pc' = "list"
    /\ tried' = {}
    /\ UNCHANGED <<now, kind, inserted, table, counted, todo, valid, full,
                   retry, fetchedAt, sweep, crashes>>

-----------------------------------------------------------------------------
(* The daily clean-up: two DELETE statements that use one clock reading.   *)

DayStart(t) == (t \div DayTicks) * DayTicks

Delete(S) ==
    /\ status' = [r \in Rows |-> IF r \in S THEN "gone" ELSE status[r]]
    /\ UNCHANGED <<attempts, touched, processedAt>>

SweepProcessed ==
    /\ sweep = -1
    /\ sweep' = now
    /\ Delete({r \in Rows : /\ status[r] = "processed"
                            /\ processedAt[r] < DayStart(now)})
    /\ UNCHANGED <<now, kind, inserted, counted, proc, tried, crashes>>

SweepFailed ==
    /\ sweep # -1
    /\ sweep' = -1
    /\ Delete({r \in Rows :
                 /\ status[r] \in {"decode_failed", "process_failed", "discarded"}
                 /\ touched[r] < sweep - KeepDays * DayTicks})
    /\ UNCHANGED <<now, kind, inserted, counted, proc, tried, crashes>>

-----------------------------------------------------------------------------
Tick ==
    /\ now < MaxNow
    /\ now' = now + 1
    /\ UNCHANGED <<kind, inserted, table, counted, proc, sweep, tried, crashes>>

\* The process is killed and restarted; only the database survives.
Crash ==
    /\ crashes < MaxCrashes
    /\ crashes' = crashes + 1
    /\ pc' = "list" /\ todo' = {} /\ valid' = {}
    /\ full' = FALSE /\ retry' = FALSE /\ fetchedAt' = 0
    /\ sweep' = -1
    /\ tried' = {}
    /\ UNCHANGED <<now, kind, inserted, table, counted>>

Charge == \E r \in Rows : ChargeRow(r)
MarkBad == \E r \in Rows : DecodeFails(r)

Process ==
    \/ ListBatch \/ ListFails
    \/ \E r \in Rows : DecodeRow(r) \/ DecodeMarkFails(r) \/ ChargeFails(r)
    \/ MarkBad \/ Charge
    \/ NothingDecoded \/ Resolve \/ ResolveFails \/ Unblocked
    \/ Commit \/ CommitFails \/ RoundFailed \/ Pause

Sweep == SweepProcessed \/ SweepFailed

Next == Ingest \/ Process \/ Sweep \/ Tick \/ Crash

Spec == Init /\ [][Next]_vars

(* The runner loops for ever; the database may refuse a statement but not  *)
(* the same one for ever. Nothing is assumed of the look-up or of the      *)
(* commit: they may fail every time.                                       *)
Fairness ==
    /\ WF_vars(Process)
    /\ SF_vars(ListBatch)
    /\ SF_vars(Charge)
    /\ SF_vars(MarkBad)

FairSpec == Spec /\ Fairness

-----------------------------------------------------------------------------
(* Properties.                                                             *)

\* The rows the processor may still turn into events in this round.
InFlight ==
    CASE pc = "decode" -> todo \cup valid
      [] pc \in {"unresolved", "commit"} -> valid
      [] OTHER -> {}

(* No message is counted twice, "processed" is written exactly when the    *)
(* event was, whatever the order of retries, crashes and clean-ups:        *)
(* InsertUsageEvents does not deduplicate, so this rests on the common     *)
(* transaction and on the single processor.                                *)
ExactlyOnce ==
    \A r \in Rows :
        /\ counted[r] <= 1
        /\ status[r] = "processed" => counted[r] = 1
        /\ counted[r] = 1 => status[r] \in {"processed", "gone"}

(* The five chances of a row are never used up within one drain of the     *)
(* backlog: after an attempt is charged to a row the runner sleeps (or     *)
(* restarts) before it charges the same row again.                         *)
PauseBetweenAttempts ==
    [][\A r \in Rows :
         attempts'[r] > attempts[r] /\ status'[r] # "decode_failed"
            => r \notin tried]_vars

(* Every accepted message is settled in the end, also when its look-up or  *)
(* its commit fails every time and it sits at the head of the batch: five  *)
(* charged attempts remove it, so it cannot block the rows behind it.      *)
Settled(r) == status[r] \in {"processed", "decode_failed", "discarded", "gone"}
EverySettled == \A r \in Rows : status[r] = "pending" ~> Settled(r)

(* The fate of each message as UsageLedger sees it. A row deleted under a  *)
(* running batch is still open until the batch lets go of it.              *)
Fate ==
    [r \in Rows |->
        IF r > inserted THEN "absent"
        ELSE IF counted[r] > 0 THEN "counted"
        ELSE IF r \in Retryable \/ (status[r] = "gone" /\ r \in InFlight)
             THEN "open"
        ELSE "dropped"]

Ledger == INSTANCE UsageLedger WITH fate <- Fate

(* The inbox implements the ledger: each message is counted or dropped at  *)
(* most once and for good.                                                 *)
ImplementsLedger == Ledger!Spec
=============================================================================
