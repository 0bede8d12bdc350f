-------------------------- MODULE UsageAggregation --------------------------
(***************************************************************************)
(* The aggregation of usage events: UsageAggregationRunner, the three      *)
(* checkpoints it advances (overview, activity, latency), the cursor of    *)
(* each usage identity, and the maintenance task that moves old events to  *)
(* the archive. Around them, in other goroutines: the processor that       *)
(* commits events and notifies the runner, and the metadata sync that      *)
(* creates identities.                                                     *)
(*                                                                         *)
(* Rollups and identities read only the hot table, so an event archived    *)
(* before it was counted would be lost, and one counted twice would stay   *)
(* so: nothing recomputes a total.                                         *)
(***************************************************************************)
EXTENDS Integers, FiniteSets

CONSTANTS
    MaxEvents,      \* bound: how many events are ever committed
    PageSize,       \* usageAggregationEventPageSize (1000)
    Owners,         \* auth_index values that occur in events
    Keys,           \* those that CPA reports as credentials
    IdentityBatch,  \* UsageIdentityAggregationBatchSize (25)
    MaxArrivals,    \* bound: how often rows arrive in an empty inbox
    MaxCrashes,     \* bound: how often the process is killed
    Broken,         \* the parts below that may fail for ever
    MaxFaults       \* bound: how often the other parts fail

Events == 1..MaxEvents
Rollups == 1..3     \* overview, activity, latency, in the order of the code

\* What can fail: the transaction of a rollup, of the identities, and reads.
Identities == 0
Reads == 4
Parts == Rollups \cup {Identities, Reads}

ASSUME AggregationAssumption ==
    /\ MaxEvents \in Nat
    /\ PageSize \in Nat \ {0}
    /\ IsFiniteSet(Owners)
    /\ Keys \subseteq Owners
    /\ IdentityBatch \in Nat \ {0}
    /\ MaxArrivals \in Nat
    /\ MaxCrashes \in Nat
    /\ Broken \subseteq Parts
    /\ MaxFaults \in Nat

VARIABLES
    last,       \* events 1..last have been committed
    owner,      \* owner[e]: the auth_index of event e
    hot,        \* events still in usage_events
    inbox,      \* HasProcessableRedisUsageInbox
    arrivals,   \* history: how often the inbox filled up
    cursor,     \* usage_aggregation_checkpoints
    agg,        \* agg[r][e]: how often event e is in the rows of rollup r
    row,        \* row[k]: id of the usage_identities row of k, 0 if none
    icursor,    \* last_aggregated_usage_event_id of that row
    icount,     \* icount[e]: how often e is in the totals of its identity
    born,       \* history: events archived before their identity existed
    proc,       \* the processor: idle, about to notify, about to signal
    meta,       \* the metadata sync, likewise
    pc,         \* where the runner is
    nextKind, active, target, reached, pending,
    after,      \* identityAfterID
    tgtGen,     \* identityTargetGeneration
    scanGen,    \* identityScanGeneration
    wake,       \* a token is in the wake channel
    timer,      \* debounceTimer: off, on, fired
    kind, passGen,            \* captured at the start of a turn
    shared, snap, page, at, failed, \* the rollups turn in progress
    crashes,    \* history: kills so far
    faults      \* history: failures of parts that are not broken

events == <<last, owner, hot>>
stats  == <<cursor, agg, icursor, icount>>
others == <<inbox, arrivals, row, born, proc, meta>>
round  == <<nextKind, active, target, reached, pending>>
idscan == <<after, tgtGen, scanGen>>
turn   == <<kind, passGen, shared, snap, page, at, failed>>
history == <<crashes, faults>>
vars   == <<events, stats, others, pc, round, idscan, wake, timer, turn, history>>

PCs == {"start", "init", "loop", "wait", "turn", "check", "snapshot", "page",
        "identity", "backoff"}

DatabaseTypeOK ==
    /\ last \in 0..MaxEvents
    /\ owner \in [Events -> Owners]
    /\ hot \subseteq 1..last
    /\ cursor \in [Rollups -> Nat]
    /\ agg \in [Rollups -> [Events -> Nat]]
    /\ icursor \in [Owners -> Nat]
    /\ icount \in [Events -> Nat]
    /\ inbox \in BOOLEAN
    /\ arrivals \in Nat
    /\ row \in [Owners -> Nat]
    /\ born \subseteq Events
    /\ proc \in {"idle", "notify", "signal"}
    /\ meta \in {"idle", "notify", "signal"}

RunnerTypeOK ==
    /\ nextKind \in {"rollups", "identity"}
    /\ active \in BOOLEAN
    /\ target \in 0..MaxEvents
    /\ reached \in BOOLEAN
    /\ pending \in 0..MaxEvents
    /\ after \in Nat
    /\ tgtGen \in Nat
    /\ scanGen \in Nat

TurnTypeOK ==
    /\ kind \in {"rollups", "identity"}
    /\ passGen \in Nat
    /\ shared \in BOOLEAN
    /\ snap \in [Rollups -> Nat]
    /\ page \subseteq Events
    /\ at \in 1..4
    /\ failed \in BOOLEAN

TypeOK ==
    /\ DatabaseTypeOK
    /\ RunnerTypeOK
    /\ TurnTypeOK
    /\ pc \in PCs
    /\ wake \in BOOLEAN
    /\ timer \in {"off", "on", "fired"}
    /\ crashes \in Nat
    /\ faults \in Nat

Zero == [r \in Rollups |-> 0]

Init ==
    /\ last = 0
    /\ owner \in [Events -> Owners]
    /\ hot = {}
    /\ inbox = FALSE /\ arrivals = 0
    /\ cursor = Zero
    /\ agg = [r \in Rollups |-> [e \in Events |-> 0]]
    /\ row = [k \in Owners |-> 0]
    /\ icursor = [k \in Owners |-> 0]
    /\ icount = [e \in Events |-> 0]
    /\ born = {}
    /\ proc = "idle" /\ meta = "idle"
    /\ pc = "start"
    /\ nextKind = "rollups"
    /\ active = FALSE /\ target = 0 /\ reached = FALSE /\ pending = 0
    /\ after = 0 /\ tgtGen = 1 /\ scanGen = 0
    /\ wake = FALSE /\ timer = "off"
    /\ kind = "rollups" /\ passGen = 0
    /\ shared = FALSE /\ snap = Zero /\ page = {} /\ at = 1 /\ failed = FALSE
    /\ crashes = 0 /\ faults = 0

-----------------------------------------------------------------------------
IsMax(m, S) == m \in S /\ \A x \in S : x <= m

\* The largest element of a set of ids, 0 if it is empty.
MaxOf(S) == IF \E m \in S : IsMax(m, S) THEN CHOOSE m \in S : IsMax(m, S) ELSE 0

\* The first n elements of a set of numbers.
FirstOf(n, S) == {x \in S : Cardinality({y \in S : y < x}) < n}

\* Mutant: the page starts with the last event of the one before.
NextPageInclusive(c) == FirstOf(PageSize, {e \in hot : c <= e /\ e <= target})

\* LoadUsageAggregationEventPage.
NextPage(c) == FirstOf(PageSize, {e \in hot : c < e /\ e <= target})

\* A failure of part p.
Fault(p) ==
    /\ p \in Broken \/ faults < MaxFaults
    /\ faults' = IF p \in Broken THEN faults ELSE faults + 1

PendingWindow == pending > 0 /\ (~active \/ pending > target)
IdentityPending == after # 0 \/ scanGen < tgtGen
Runnable == active \/ IdentityPending

-----------------------------------------------------------------------------
(* The processor and the metadata sync.                                    *)

\* Messages reach the inbox.
Arrive ==
    /\ ~inbox /\ arrivals < MaxArrivals
    /\ inbox' = TRUE
    /\ arrivals' = arrivals + 1
    /\ UNCHANGED <<events, stats, row, born, proc, meta, pc, round, idscan, wake,
                   timer, turn, history>>

\* A batch is committed; some rows of the inbox may be left.
CommitEvents ==
    /\ proc = "idle" /\ inbox
    /\ \E n \in 1..(MaxEvents - last) :
         /\ last' = last + n
         /\ hot' = hot \cup (last + 1)..(last + n)
    /\ inbox' \in BOOLEAN
    /\ proc' = "notify"
    /\ UNCHANGED <<owner, stats, arrivals, row, born, meta, pc, round, idscan,
                   wake, timer, turn, history>>

\* The rows left are not events: they were bad, or failed for good.
DropRows ==
    /\ proc = "idle" /\ inbox
    /\ inbox' = FALSE
    /\ UNCHANGED <<events, stats, arrivals, row, born, proc, meta, pc, round,
                   idscan, wake, timer, turn, history>>

NotifyUsageEventsCommitted ==
    /\ proc = "notify"
    /\ pending' = IF last > pending THEN last ELSE pending
    /\ tgtGen' = tgtGen + 1
    /\ proc' = "signal"
    /\ UNCHANGED <<events, stats, inbox, arrivals, row, born, meta, pc, nextKind,
                   active, target, reached, after, scanGen, wake, timer, turn,
                   history>>

SignalEvents ==
    /\ proc = "signal"
    /\ wake' = TRUE
    /\ proc' = "idle"
    /\ UNCHANGED <<events, stats, inbox, arrivals, row, born, meta, pc, round,
                   idscan, timer, turn, history>>

(* SyncMetadata inserts a new identity, with cursor 0. The runner is told  *)
(* only if the other parts of the sync were stored as well.                *)
CreateIdentity(k) ==
    /\ meta = "idle" /\ row[k] = 0
    /\ row' = [row EXCEPT ![k] = 1 + Cardinality({j \in Owners : row[j] # 0})]
    /\ born' = born \cup {e \in 1..last : owner[e] = k /\ e \notin hot}
    /\ meta' \in {"idle", "notify"}
    /\ UNCHANGED <<events, stats, inbox, arrivals, proc, pc, round, idscan, wake,
                   timer, turn, history>>

NotifyUsageIdentitiesChanged ==
    /\ meta = "notify"
    /\ tgtGen' = tgtGen + 1
    /\ meta' = "signal"
    /\ UNCHANGED <<events, stats, inbox, arrivals, row, born, proc, pc, round,
                   after, scanGen, wake, timer, turn, history>>

SignalIdentities ==
    /\ meta = "signal"
    /\ wake' = TRUE
    /\ meta' = "idle"
    /\ UNCHANGED <<events, stats, inbox, arrivals, row, born, proc, pc, round,
                   idscan, timer, turn, history>>

-----------------------------------------------------------------------------
(* The archive.                                                            *)

\* Mutant: only identities that never counted anything are looked for.
OwedIfNew(e) == e \in hot /\ row[owner[e]] # 0 /\ icursor[owner[e]] = 0

\* Event e has not been counted by the identity it belongs to.
Owed(e) == e \in hot /\ row[owner[e]] # 0 /\ icursor[owner[e]] < e

\* Mutant: the checkpoints of the rollups are not consulted.
CaughtUpIdentities == \A e \in hot : ~Owed(e)

\* usageEventAggregationsCaughtUp.
CaughtUp ==
    /\ \A r \in Rollups : cursor[r] >= MaxOf(hot)
    /\ \A e \in hot : ~Owed(e)

(* archiveExpiredUsageEventsBatch. Event times come from the messages, so  *)
(* any events may be the ones that have expired.                           *)
Archive ==
    /\ CaughtUp
    /\ \E S \in SUBSET hot : S # {} /\ hot' = hot \ S
    /\ UNCHANGED <<last, owner, stats, others, pc, round, idscan, wake, timer,
                   turn, history>>

-----------------------------------------------------------------------------
(* The runner outside a turn.                                              *)

(* ensureStartupTarget reads MAX(id) first and takes the lock afterwards;  *)
(* notifications may come in between.                                      *)
LoadTarget ==
    /\ pc = "start"
    /\ target' = MaxOf(hot)
    /\ pc' = "init"
    /\ UNCHANGED <<events, stats, others, nextKind, active, reached, pending,
                   idscan, wake, timer, turn, history>>

SetTarget ==
    /\ pc = "init"
    /\ active' = TRUE
    /\ reached' = (target = 0)
    /\ pending' = IF pending <= target THEN 0 ELSE pending
    /\ pc' = "loop"
    /\ UNCHANGED <<events, stats, others, nextKind, target, idscan, wake, timer,
                   turn, history>>

\* waitForRetry after a failed start.
StartFails ==
    /\ pc = "start"
    /\ Fault(Reads)
    /\ wake' \in {FALSE, wake}
    /\ UNCHANGED <<events, stats, others, pc, round, idscan, timer, turn, crashes>>

\* Mutant: a window opens only during a round.
ArmedWhileActive ==
    IF PendingWindow /\ active /\ timer = "off" THEN "on" ELSE timer

Armed == IF PendingWindow /\ timer = "off" THEN "on" ELSE timer

BeginTurn ==
    /\ pc = "loop" /\ timer # "fired" /\ Runnable
    /\ timer' = Armed
    /\ pc' = "turn"
    /\ UNCHANGED <<events, stats, others, round, idscan, wake, turn, history>>

Wait ==
    /\ pc = "loop" /\ timer # "fired" /\ ~Runnable
    /\ timer' = Armed
    /\ pc' = "wait"
    /\ UNCHANGED <<events, stats, others, round, idscan, wake, turn, history>>

WakeUp ==
    /\ pc = "wait" /\ wake
    /\ wake' = FALSE
    /\ pc' = "loop"
    /\ UNCHANGED <<events, stats, others, round, idscan, timer, turn, history>>

TimerFires ==
    /\ timer = "on"
    /\ timer' = "fired"
    /\ UNCHANGED <<events, stats, others, pc, round, idscan, wake, turn, history>>

\* Mutant: a window that ends during a round is forgotten.
FreezeWhenIdle ==
    /\ pc \in {"loop", "wait"} /\ timer = "fired"
    /\ timer' = "off"
    /\ pc' = "loop"
    /\ pending' = 0
    /\ IF PendingWindow /\ ~active
       THEN active' = TRUE /\ target' = pending /\ reached' = FALSE
       ELSE UNCHANGED <<active, target, reached>>
    /\ UNCHANGED <<events, stats, others, nextKind, idscan, wake, turn, history>>

FreezePendingTarget ==
    /\ pc \in {"loop", "wait"} /\ timer = "fired"
    /\ timer' = "off"
    /\ pc' = "loop"
    /\ pending' = 0
    /\ IF PendingWindow
       THEN active' = TRUE /\ target' = pending /\ reached' = FALSE
       ELSE UNCHANGED <<active, target, reached>>
    /\ UNCHANGED <<events, stats, others, nextKind, idscan, wake, turn, history>>

\* waitForRetry after a failed or deferred turn: by the timer or a token.
Retry ==
    /\ pc = "backoff"
    /\ wake' \in {FALSE, wake}
    /\ pc' = "loop"
    /\ UNCHANGED <<events, stats, others, round, idscan, timer, turn, history>>

-----------------------------------------------------------------------------
(* One turn.                                                               *)

\* The local variables of a turn go out of scope.
EndTurn ==
    /\ kind' = "rollups" /\ passGen' = 0
    /\ shared' = FALSE /\ snap' = Zero /\ page' = {}
    /\ at' = 1 /\ failed' = FALSE

\* advanceAfterFailure: the other kind of work goes next.
Fail ==
    /\ nextKind' = IF kind = "rollups" THEN "identity" ELSE "rollups"
    /\ pc' = "backoff"
    /\ EndTurn
    /\ UNCHANGED <<active, target, reached, pending>>

StartTurn ==
    /\ pc = "turn"
    /\ kind' = IF active /\ IdentityPending THEN nextKind
               ELSE IF active THEN "rollups" ELSE "identity"
    /\ passGen' = CASE kind' = "rollups" -> 0
                  [] after = 0          -> tgtGen
                  [] OTHER              -> scanGen
    /\ pc' = "check"
    /\ UNCHANGED <<events, stats, others, round, idscan, wake, timer, shared, snap,
                   page, at, failed, history>>

CheckBusy ==
    /\ pc = "check" /\ inbox
    /\ pc' = "backoff"
    /\ EndTurn
    /\ UNCHANGED <<events, stats, others, round, idscan, wake, timer, history>>

CheckClear ==
    /\ pc = "check" /\ ~inbox
    /\ pc' = IF kind = "rollups" THEN "snapshot" ELSE "identity"
    /\ UNCHANGED <<events, stats, others, round, idscan, wake, timer, turn, history>>

\* The check, a read or the identity transaction fails: the turn is over.
TurnFails ==
    /\ pc \in {"check", "snapshot", "identity"}
    /\ Fault(IF pc = "identity" THEN Identities ELSE Reads)
    /\ Fail
    /\ UNCHANGED <<events, stats, others, idscan, wake, timer, crashes>>

(* The end of a rollups turn that did not fail; if it reached the target   *)
(* the round is complete.                                                  *)
FinishRollups(ok, then) ==
    /\ nextKind' = "identity"
    /\ IF ok \/ reached
       THEN /\ active' = FALSE /\ target' = 0 /\ reached' = FALSE
            /\ pending' = IF pending <= target THEN 0 ELSE pending
       ELSE UNCHANGED <<active, target, reached, pending>>
    /\ pc' = then
    /\ EndTurn

AllReached(c) == \A r \in Rollups : c[r] >= target

Snapshot ==
    /\ pc = "snapshot"
    /\ IF AllReached(cursor)
       THEN FinishRollups(TRUE, "loop")
       ELSE /\ pc' = "page"
            /\ snap' = cursor
            /\ shared' = (cursor[1] = cursor[2] /\ cursor[2] = cursor[3])
            /\ UNCHANGED <<round, kind, passGen, page, at, failed>>
    /\ UNCHANGED <<events, stats, others, idscan, wake, timer, history>>

\* The page read for rollup at, or, if they are level, for all of them.
NeedsPage == pc = "page" /\ at <= 3 /\ page = {} /\ snap[at] < target

LoadPage ==
    /\ NeedsPage /\ NextPage(snap[at]) # {}
    /\ page' = NextPage(snap[at])
    /\ UNCHANGED <<events, stats, others, pc, round, idscan, wake, timer, kind,
                   passGen, shared, snap, at, failed, history>>

\* The read fails or returns nothing.
LoadFails ==
    /\ NeedsPage
    /\ IF NextPage(snap[at]) = {} THEN UNCHANGED faults ELSE Fault(Reads)
    /\ IF shared
       THEN Fail
       ELSE /\ at' = at + 1 /\ failed' = TRUE
            /\ UNCHANGED <<pc, round, kind, passGen, shared, snap, page>>
    /\ UNCHANGED <<events, stats, others, idscan, wake, timer, crashes>>

\* A rollup that has reached the target already (fallback only).
SkipRollup ==
    /\ pc = "page" /\ at <= 3 /\ page = {} /\ ~shared /\ snap[at] >= target
    /\ at' = at + 1
    /\ UNCHANGED <<events, stats, others, pc, round, idscan, wake, timer, kind,
                   passGen, shared, snap, page, failed, history>>

NextRollup ==
    /\ at' = at + 1
    /\ page' = IF shared THEN page ELSE {}

(* One transaction adds the page to the rows of rollup at and moves its    *)
(* checkpoint, if that is still where the snapshot saw it.                 *)
ApplyPage(r) ==
    /\ pc = "page" /\ at = r /\ page # {}
    /\ ~inbox
    /\ cursor[r] = snap[r]
    /\ agg' = [agg EXCEPT ![r] = [e \in Events |->
                 IF e \in page THEN agg[r][e] + 1 ELSE agg[r][e]]]
    /\ cursor' = [cursor EXCEPT ![r] = MaxOf(page)]
    /\ snap' = [snap EXCEPT ![r] = MaxOf(page)]
    /\ NextRollup
    /\ UNCHANGED <<events, icursor, icount, others, pc, round, idscan, wake, timer,
                   kind, passGen, shared, failed, history>>

(* The transaction rolls back, or the rows cannot be built; pages of their *)
(* own that cannot be built are dropped before the inbox is looked at.     *)
ApplyFails ==
    /\ pc = "page" /\ at <= 3 /\ page # {}
    /\ inbox => ~shared /\ at > 1
    /\ Fault(at)
    /\ failed' = TRUE
    /\ NextRollup
    /\ UNCHANGED <<events, stats, others, pc, round, idscan, wake, timer, kind,
                   passGen, shared, snap, crashes>>

\* The inbox filled up in the middle of the turn.
GiveWay ==
    /\ pc = "page" /\ at <= 3 /\ page # {}
    /\ inbox
    /\ IF failed THEN Fail ELSE FinishRollups(FALSE, "backoff")
    /\ UNCHANGED <<events, stats, others, idscan, wake, timer, history>>

RecheckFails ==
    /\ pc = "page" /\ at <= 3 /\ page # {}
    /\ Fault(Reads)
    /\ Fail
    /\ UNCHANGED <<events, stats, others, idscan, wake, timer, crashes>>

EndRollups ==
    /\ pc = "page" /\ at = 4
    /\ IF failed THEN Fail ELSE FinishRollups(AllReached(snap), "loop")
    /\ UNCHANGED <<events, stats, others, idscan, wake, timer, history>>

\* The rows of the next batch of identities.
NextIds == FirstOf(IdentityBatch, {row[k] : k \in Owners} \ 0..after)

\* The events that these identities have not counted.
Delta == {e \in hot : row[owner[e]] \in NextIds /\ icursor[owner[e]] < e}

DeltaOf(k) == {e \in Delta : owner[e] = k}

\* AggregateUsageIdentityStatsBatch.
IdentityTurn ==
    /\ pc = "identity"
    /\ icount' = [e \in Events |-> IF e \in Delta THEN icount[e] + 1 ELSE icount[e]]
    /\ icursor' = [k \in Owners |-> IF DeltaOf(k) = {} THEN icursor[k]
                                                     ELSE MaxOf(DeltaOf(k))]
    /\ after' = IF Cardinality(NextIds) < IdentityBatch THEN 0 ELSE MaxOf(NextIds)
    /\ scanGen' = passGen
    /\ nextKind' = "rollups"
    /\ pc' = "loop"
    /\ EndTurn
    /\ UNCHANGED <<events, cursor, agg, others, active, target, reached, pending,
                   tgtGen, wake, timer, history>>

-----------------------------------------------------------------------------
\* The process is killed and restarted; only the database survives.
Crash ==
    /\ crashes < MaxCrashes
    /\ crashes' = crashes + 1
    /\ proc' = "idle" /\ meta' = "idle"
    /\ pc' = "start"
    /\ nextKind' = "rollups"
    /\ active' = FALSE /\ target' = 0 /\ reached' = FALSE /\ pending' = 0
    /\ after' = 0 /\ tgtGen' = 1 /\ scanGen' = 0
    /\ wake' = FALSE /\ timer' = "off"
    /\ EndTurn
    /\ UNCHANGED <<events, stats, inbox, arrivals, row, born, faults>>

Process ==
    \/ CommitEvents \/ DropRows
    \/ NotifyUsageEventsCommitted \/ SignalEvents

Metadata ==
    \/ \E k \in Keys : CreateIdentity(k)
    \/ NotifyUsageIdentitiesChanged \/ SignalIdentities

Apply == \E r \in Rollups : ApplyPage(r)

Run ==
    \/ LoadTarget \/ SetTarget \/ StartFails
    \/ BeginTurn \/ Wait \/ WakeUp \/ FreezePendingTarget \/ Retry
    \/ StartTurn \/ CheckBusy \/ CheckClear \/ TurnFails
    \/ Snapshot \/ LoadPage \/ LoadFails \/ SkipRollup
    \/ Apply \/ ApplyFails \/ GiveWay \/ RecheckFails \/ EndRollups
    \/ IdentityTurn

Next == Arrive \/ Process \/ Metadata \/ Archive \/ Run \/ TimerFires \/ Crash

Spec == Init /\ [][Next]_vars

(* Goroutines keep running and the timer fires. That parts which are not   *)
(* Broken fail finitely often is in Fault.                                 *)
Fairness ==
    /\ WF_vars(Process)
    /\ WF_vars(NotifyUsageIdentitiesChanged \/ SignalIdentities)
    /\ WF_vars(TimerFires)
    /\ WF_vars(Run)

FairSpec == Spec /\ Fairness

-----------------------------------------------------------------------------
(* Properties.                                                             *)

(* The archive never takes an event away from a total that still needs it: *)
(* an event of the current target that some rollup has not reached is in   *)
(* the hot table, so a page of an unfinished round is never empty.         *)
TargetWithinReach ==
    active /\ (\E r \in Rollups : cursor[r] < target) => target \in hot

(* Per identity: each event that was still hot when the identity appeared  *)
(* is in its totals exactly once as soon as its cursor passed it, and no   *)
(* later than it is archived.                                              *)
IdentityExactlyOnce ==
    \A e \in 1..last :
        LET k == owner[e] IN
        /\ icount[e] = IF row[k] # 0 /\ e <= icursor[k] /\ e \notin born
                       THEN 1 ELSE 0
        /\ e \notin hot /\ row[k] # 0 /\ e \notin born => icount[e] = 1

(* The runner never sleeps on unfinished work: if it waits and no wake-up  *)
(* is in the channel or on its way, there is nothing to run, and the       *)
(* timer is set if a window is open.                                       *)
NoLostWakeUp ==
    pc = "wait" /\ ~wake /\ proc # "signal" /\ meta # "signal"
        => ~Runnable /\ (PendingWindow => timer # "off")

(* A rollup that can be written takes in every committed event, even if    *)
(* the others fail for ever, the inbox interrupts turns and the process is *)
(* restarted between commit and notification.                              *)
RollupsCatchUp ==
    \A r \in Rollups \ Broken : \A e \in Events : e <= last ~> agg[r][e] = 1

(* What an identity was owed when a notification went out is counted, even *)
(* if rollups fail for ever.                                               *)
IdentitiesCatchUp ==
    \A e \in Events :
        Owed(e) /\ (proc = "notify" \/ meta = "notify") ~> ~Owed(e)

(* Neither kind of work starves the other, nor is it starved by what fails. *)
AggregationCatchesUp == RollupsCatchUp /\ IdentitiesCatchUp

Totals == INSTANCE UsageTotals WITH committed <- last, totals <- agg

(* The three totals are the totals of growing prefixes of the events.      *)
ImplementsTotals == Totals!Spec
=============================================================================
