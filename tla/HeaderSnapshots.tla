--------------------------- MODULE HeaderSnapshots ---------------------------
(* Quota headers observed while usage is processed: merged per account, held  *)
(* for a minute, then written by two parallel workers over the cache of quota *)
(* tasks that refreshes write as well.                                        *)
EXTENDS Integers, FiniteSetsExt

CONSTANTS HeaderAuths,      \* accounts, ordered as their keys are
          MainLimit, ExtraLimits, \* the rate limit of the account; the named ones
          PendingLimit,     \* how many accounts the map of pending snapshots holds
          MaxSnapshots, MaxHeaderTime \* bounds: snapshots and the clock

ASSUME HeaderAssumption ==
    /\ HeaderAuths \subseteq Nat /\ MainLimit \notin ExtraLimits
    /\ PendingLimit \in Nat \ {0} /\ MaxSnapshots \in Nat /\ MaxHeaderTime \in Nat

VARIABLES
    headerClock,
    snapshotCount,
    unflushed,       \* history: snapshots accepted since the last take, [auth, at, rows]
    pendingHeaders,  \* account -> snapshot
    evicted,         \* history: accounts rejected by or thrown out of a full map
    headerWake, headerTimer, headerClosing,
    headerSender,    \* between the unlock and the wake-up of an append
    headerWorker,    \* [pc, batch, last]: "select" "lookup" "jobs" "done"
    inHand,          \* account -> snapshot checked and not yet merged
    quotaCache       \* account -> task: [status, at, rows]

headerVars == <<headerClock, snapshotCount, unflushed, pendingHeaders, evicted, headerWake, headerTimer,
                headerClosing, headerSender, headerWorker, inHand, quotaCache>>

Nothing == [a \in {} |-> 0]
QuotaLimits == {MainLimit} \cup ExtraLimits
NoTask == [status |-> "none", at |-> 0, rows |-> Nothing]

HeaderInit ==
    /\ headerClock = 1 /\ snapshotCount = 0 /\ unflushed = {} /\ pendingHeaders = Nothing /\ evicted = {}
    /\ headerWake = FALSE /\ headerTimer = FALSE /\ headerClosing = FALSE
    /\ headerSender = FALSE /\ headerWorker = [pc |-> "select", batch |-> Nothing, last |-> FALSE]
    /\ inHand = Nothing /\ quotaCache = [a \in HeaderAuths |-> NoTask]

-----------------------------------------------------------------------------
(* Appending                                                                 *)

Overlaid(first, second) == [k \in DOMAIN first \cup DOMAIN second |->
                               IF k \in DOMAIN second THEN second[k] ELSE first[k]]

(* Mutant: the later snapshot takes all its rows along. *)
RowsOfNewest(existing, candidate) == Overlaid(existing, candidate)

NewestRows(existing, candidate) ==
    Overlaid(existing, [l \in {k \in DOMAIN candidate :
                               k \in DOMAIN existing => candidate[k].at >= existing[k].at}
                            |-> candidate[l]])

(* some row can be shown: a header of other windows is for the history only   *)
HasRows(s) == DOMAIN s.rows # {}

(* Each limit keeps its own latest observation, the snapshot the latest time. *)
(* With one that has no rows there is nothing to merge: the later one stays,  *)
(* whole.                                                                     *)
MergedPending(existing, candidate) ==
    IF HasRows(existing) /\ HasRows(candidate)
    THEN [auth |-> existing.auth, at |-> Max({existing.at, candidate.at}),
          rows |-> NewestRows(existing.rows, candidate.rows)]
    ELSE IF candidate.at >= existing.at THEN candidate ELSE existing

OldestPending == CHOOSE a \in DOMAIN pendingHeaders : \A b \in DOMAIN pendingHeaders :
    \/ pendingHeaders[a].at < pendingHeaders[b].at
    \/ pendingHeaders[a].at = pendingHeaders[b].at /\ a <= b

Without(f, k) == [a \in DOMAIN f \ {k} |-> f[a]]

PutPending(s) ==
    LET a == s.auth
    IN IF a \in DOMAIN pendingHeaders
       THEN /\ pendingHeaders' = [pendingHeaders EXCEPT ![a] = MergedPending(@, s)]
            /\ UNCHANGED evicted
       ELSE IF Cardinality(DOMAIN pendingHeaders) < PendingLimit
       THEN pendingHeaders' = Overlaid(pendingHeaders, [b \in {a} |-> s]) /\ UNCHANGED evicted
       ELSE IF s.at >= pendingHeaders[OldestPending].at
       THEN /\ pendingHeaders' = Overlaid(Without(pendingHeaders, OldestPending), [b \in {a} |-> s])
            /\ evicted' = evicted \cup {OldestPending}
       ELSE evicted' = evicted \cup {a} /\ UNCHANGED pendingHeaders

(* one snapshot; the history queue gets it as well *)
AppendSnapshot ==
    /\ ~headerClosing /\ ~headerSender /\ snapshotCount < MaxSnapshots
    /\ \E a \in HeaderAuths, t \in 1 .. headerClock, limits \in SUBSET QuotaLimits :
        LET s == [auth |-> a, at |-> t,
                  rows |-> [l \in limits |-> [at |-> t, from |-> snapshotCount + 1]]]
        IN PutPending(s) /\ unflushed' = unflushed \cup {s}
    /\ snapshotCount' = snapshotCount + 1 /\ headerSender' = TRUE
    /\ UNCHANGED <<headerClock, headerWake, headerTimer, headerClosing, headerWorker, inHand,
                   quotaCache>>

SendWake ==
    /\ headerSender /\ headerSender' = FALSE /\ headerWake' = TRUE
    /\ UNCHANGED <<headerClock, snapshotCount, unflushed, pendingHeaders, evicted, headerTimer, headerClosing,
                   headerWorker, inHand, quotaCache>>

-----------------------------------------------------------------------------
(* The worker                                                                *)

ReceiveWake ==
    /\ headerWorker.pc = "select" /\ headerWake /\ headerWake' = FALSE
    /\ headerTimer' = (headerTimer \/ DOMAIN pendingHeaders # {})
    /\ UNCHANGED <<headerClock, snapshotCount, unflushed, pendingHeaders, evicted, headerClosing, headerSender,
                   headerWorker, inHand, quotaCache>>

TakePending(stopping) ==
    /\ headerWorker' = [pc |-> "lookup", batch |-> pendingHeaders, last |-> stopping]
    /\ pendingHeaders' = Nothing /\ unflushed' = {} /\ evicted' = {}

FlushOnTimer ==
    /\ headerWorker.pc = "select" /\ headerTimer /\ headerTimer' = FALSE /\ TakePending(FALSE)
    /\ UNCHANGED <<headerClock, snapshotCount, headerWake, headerClosing, headerSender, inHand,
                   quotaCache>>

FlushOnStop ==
    /\ headerWorker.pc = "select" /\ headerClosing /\ headerTimer' = FALSE /\ TakePending(TRUE)
    /\ UNCHANGED <<headerClock, snapshotCount, headerWake, headerClosing, headerSender, inHand,
                   quotaCache>>

(* an error, or no statistics, drops the batch; unknown accounts are skipped  *)
LookupIdentities ==
    /\ headerWorker.pc = "lookup"
    /\ \E known \in SUBSET DOMAIN headerWorker.batch :
        headerWorker' = [headerWorker EXCEPT !.pc = "jobs", !.batch = [a \in known |-> @[a]]]
    /\ UNCHANGED <<headerClock, snapshotCount, unflushed, pendingHeaders, evicted, headerWake, headerTimer,
                   headerClosing, headerSender, inHand, quotaCache>>

IsActive(task) == task.status = "active"
IsCurrent(task, at) == task.status = "completed" /\ task.at >= at
MayMerge(a, s) == HasRows(s) /\ ~IsActive(quotaCache[a]) /\ ~IsCurrent(quotaCache[a], s.at)

(* one of the two workers takes the next job and looks whether it is worth it *)
StartJob ==
    /\ headerWorker.pc = "jobs" /\ DOMAIN headerWorker.batch # {}
    /\ Cardinality(DOMAIN inHand) < 2
    /\ LET a == Min(DOMAIN headerWorker.batch)
           s == headerWorker.batch[a]
       IN /\ headerWorker' = [headerWorker EXCEPT !.batch = Without(@, a)]
          /\ inHand' = IF MayMerge(a, s) THEN Overlaid(inHand, [b \in {a} |-> s]) ELSE inHand
    /\ UNCHANGED <<headerClock, snapshotCount, unflushed, pendingHeaders, evicted, headerWake, headerTimer,
                   headerClosing, headerSender, quotaCache>>

(* the rows of the header over those of the cache, whatever their own times   *)
MergedCache(task, s) ==
    [status |-> "completed", at |-> s.at, rows |-> Overlaid(task.rows, s.rows)]

(* Mutant: what changed during the look-up is not looked at again. *)
MergeUnchecked(a) ==
    /\ a \in DOMAIN inHand /\ inHand' = Without(inHand, a)
    /\ quotaCache' = [quotaCache EXCEPT ![a] = MergedCache(@, inHand[a])]
    /\ UNCHANGED <<headerClock, snapshotCount, unflushed, pendingHeaders, evicted, headerWake, headerTimer,
                   headerClosing, headerSender, headerWorker>>

(* the statistics are there: under the lock, look again and write *)
MergeCache(a) ==
    /\ a \in DOMAIN inHand /\ inHand' = Without(inHand, a)
    /\ quotaCache' = IF MayMerge(a, inHand[a])
                     THEN [quotaCache EXCEPT ![a] = MergedCache(@, inHand[a])] ELSE quotaCache
    /\ UNCHANGED <<headerClock, snapshotCount, unflushed, pendingHeaders, evicted, headerWake, headerTimer,
                   headerClosing, headerSender, headerWorker>>

EndFlush ==
    /\ headerWorker.pc = "jobs" /\ DOMAIN headerWorker.batch = {} /\ DOMAIN inHand = {}
    /\ headerWorker' = [headerWorker EXCEPT !.pc = IF headerWorker.last THEN "done" ELSE "select"]
    /\ UNCHANGED <<headerClock, snapshotCount, unflushed, pendingHeaders, evicted, headerWake, headerTimer,
                   headerClosing, headerSender, inHand, quotaCache>>

StopHeaders ==
    /\ ~headerClosing /\ headerClosing' = TRUE
    /\ UNCHANGED <<headerClock, snapshotCount, unflushed, pendingHeaders, evicted, headerWake, headerTimer,
                   headerSender, headerWorker, inHand, quotaCache>>

-----------------------------------------------------------------------------
(* Refreshes of the same accounts                                            *)

QueueRefresh(a) ==
    /\ ~IsActive(quotaCache[a])
    /\ quotaCache' = [quotaCache EXCEPT ![a] = [NoTask EXCEPT !.status = "active"]]
    /\ UNCHANGED <<headerClock, snapshotCount, unflushed, pendingHeaders, evicted, headerWake, headerTimer,
                   headerClosing, headerSender, headerWorker, inHand>>

SettleRefresh(a) ==
    /\ IsActive(quotaCache[a])
    /\ \E status \in {"completed", "failed"} :
        quotaCache' = [quotaCache EXCEPT ![a] =
            [status |-> status, at |-> headerClock,
             rows |-> IF status = "failed" THEN Nothing
                      ELSE [l \in QuotaLimits |-> [at |-> headerClock, from |-> 0]]]]
    /\ UNCHANGED <<headerClock, snapshotCount, unflushed, pendingHeaders, evicted, headerWake, headerTimer,
                   headerClosing, headerSender, headerWorker, inHand>>

HeaderTick ==
    /\ headerClock < MaxHeaderTime /\ headerClock' = headerClock + 1
    /\ UNCHANGED <<snapshotCount, unflushed, pendingHeaders, evicted, headerWake, headerTimer, headerClosing,
                   headerSender, headerWorker, inHand, quotaCache>>

HeaderNext ==
    \/ AppendSnapshot \/ SendWake \/ ReceiveWake \/ FlushOnTimer \/ FlushOnStop
    \/ LookupIdentities \/ StartJob \/ EndFlush \/ StopHeaders \/ HeaderTick
    \/ \E a \in HeaderAuths : MergeCache(a) \/ QueueRefresh(a) \/ SettleRefresh(a)

HeaderSpec == HeaderInit /\ [][HeaderNext]_headerVars

-----------------------------------------------------------------------------
(* What waits for an account is of the latest time that arrived since the     *)
(* last flush, and what it shows of a limit arrived.  When every header had   *)
(* rows to show, it is, limit by limit, the latest of them, and of two of the *)
(* same time the one that came last; one without rows may have cost what      *)
(* arrived before it.                                                         *)
PendingIsNewest ==
    \A a \in HeaderAuths \ evicted :
        LET mine == {s \in unflushed : s.auth = a}
            rows(l) == {s.rows[l] : s \in {t \in mine : l \in DOMAIN t.rows}}
        IN /\ (a \in DOMAIN pendingHeaders) = (mine # {})
           /\ mine # {} =>
                /\ pendingHeaders[a].at = Max({s.at : s \in mine})
                /\ \A l \in DOMAIN pendingHeaders[a].rows : pendingHeaders[a].rows[l] \in rows(l)
                /\ (\A s \in mine : HasRows(s)) =>
                     /\ DOMAIN pendingHeaders[a].rows = {l \in QuotaLimits : rows(l) # {}}
                     /\ \A l \in DOMAIN pendingHeaders[a].rows :
                         LET row == pendingHeaders[a].rows[l]
                         IN \A r \in rows(l) : r.at < row.at \/ (r.at = row.at /\ r.from <= row.from)

(* What waits is never forgotten: a timer runs, a wake-up is there or about   *)
(* to be sent, or the stop will flush it; a worker that ended left nothing.   *)
PendingIsFlushed ==
    DOMAIN pendingHeaders # {} => /\ headerWorker.pc # "done"
                                  /\ headerTimer \/ headerWake \/ headerSender \/ headerClosing

HeadersArePending == PendingIsNewest /\ PendingIsFlushed

(* A completed task is changed by a header only when one of its limits was    *)
(* observed after the task, not at the same time, and none of its rows is     *)
(* lost; and the task of a refresh under way is not changed by a header at    *)
(* all, although a worker looks at both before it computes.  The other limits *)
(* of such a header may have been observed before the refresh: their rows     *)
(* replace newer ones, since only the time of the whole is compared.          *)
RefreshIsNotOverwritten ==
    [][\A a \in HeaderAuths :
        /\ /\ quotaCache[a].status = "completed" /\ quotaCache'[a].status = "completed"
           /\ quotaCache'[a] # quotaCache[a]
           => /\ quotaCache'[a].at > quotaCache[a].at
              /\ \E l \in DOMAIN quotaCache'[a].rows :
                    /\ quotaCache'[a].rows[l].from # 0
                    /\ quotaCache'[a].rows[l].at = quotaCache'[a].at
              /\ DOMAIN quotaCache[a].rows \subseteq DOMAIN quotaCache'[a].rows
        /\ IsActive(quotaCache[a]) => \A l \in DOMAIN quotaCache'[a].rows :
                                        quotaCache'[a].rows[l].from = 0]_headerVars

=============================================================================
