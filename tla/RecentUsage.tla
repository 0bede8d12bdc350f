----------------------------- MODULE RecentUsage -----------------------------
(* The cache of recent usage events: batches offered after their commit to a  *)
(* bounded queue, the goroutine that appends and prunes, the pool of interned *)
(* strings with its reference counts, the health buckets of the credentials,  *)
(* and the queries that read all of it instead of the table.                  *)
EXTENDS Integers, FiniteSetsExt, SequencesExt

CONSTANTS Credentials,      \* credentials named by events; NoLabel names none
          NoLabel,
          RecentWindow,     \* how far back events are kept
          BatchSlots,       \* capacity of the queue, in batches
          BucketSpan, HealthBuckets,  \* length and number of health buckets
          EventAges,        \* how old an event may be when it is committed
          MaxRecentEvents, MaxRecentTime \* bounds: events and the clock

ASSUME RecentAssumption ==
    /\ NoLabel \notin Credentials
    /\ RecentWindow \in Nat \ {0} /\ BatchSlots \in Nat \ {0}
    /\ BucketSpan \in Nat \ {0} /\ HealthBuckets \in Nat \ {0}
    /\ EventAges \subseteq Nat /\ MaxRecentEvents \in Nat /\ MaxRecentTime \in Nat

VARIABLES
    usageTable,     \* committed events: [id, at, label, failed]
    recentClock,
    appendSlots,    \* free places
    appendQueue,    \* batches accepted and not yet received
    offer,          \* the appender: [pc, batch], pc "none" "committed" "slot"
    receiver,       \* the goroutine: [pc, batch], pc "waiting" "received" "appending" "done"
    recentStopped,  \* stopCh is closed
    recentEvents,   \* the cache, in the order of arrival
    stringRefs,     \* pool: label -> references
    health,         \* credential -> bucket -> [success, failure], absent buckets left out
    lastFullPrune,
    lostBatches     \* history: ids of events the cache never received

recentVars == <<usageTable, recentClock, appendSlots, appendQueue, offer, receiver,
                recentStopped, recentEvents, stringRefs, health, lastFullPrune, lostBatches>>
cacheVars == <<recentEvents, stringRefs, health, lastFullPrune>>

NoOffer == [pc |-> "none", batch |-> <<>>]
Waiting == [pc |-> "waiting", batch |-> <<>>]
Ids(batch) == {batch[i].id : i \in DOMAIN batch}

RecentInit ==
    /\ usageTable = {} /\ recentClock = 0
    /\ appendSlots = BatchSlots /\ appendQueue = <<>>
    /\ offer = NoOffer /\ receiver = Waiting /\ recentStopped = FALSE
    /\ recentEvents = <<>> /\ stringRefs = [l \in Credentials |-> 0]
    /\ health = [c \in Credentials |-> <<>>] /\ lastFullPrune = BucketSpan
    /\ lostBatches = {}

-----------------------------------------------------------------------------
(* The processor of the inbox, after its transaction                         *)

CommitBatch ==
    /\ offer.pc = "none" /\ Cardinality(usageTable) < MaxRecentEvents
    /\ \E age \in EventAges, label \in Credentials \cup {NoLabel}, failed \in BOOLEAN :
        LET event == [id |-> Cardinality(usageTable), at |-> recentClock - age,
                      label |-> label, failed |-> failed]
        IN /\ event.at >= 0
           /\ usageTable' = usageTable \cup {event}
           /\ offer' = [pc |-> "committed", batch |-> <<event>>]
    /\ UNCHANGED <<recentClock, appendSlots, appendQueue, receiver, recentStopped, cacheVars,
                   lostBatches>>

Lose == /\ lostBatches' = lostBatches \cup Ids(offer.batch) /\ offer' = NoOffer

AcquireSlot ==
    /\ offer.pc = "committed"
    /\ IF recentStopped \/ appendSlots = 0
       THEN Lose /\ UNCHANGED appendSlots
       ELSE /\ appendSlots' = appendSlots - 1 /\ offer' = [offer EXCEPT !.pc = "slot"]
            /\ UNCHANGED lostBatches
    /\ UNCHANGED <<usageTable, recentClock, appendQueue, receiver, recentStopped, cacheVars>>

(* Mutant: the sender gives the slot back although the batch is queued. *)
SendReleasing ==
    /\ offer.pc = "slot" /\ Len(appendQueue) < BatchSlots
    /\ appendQueue' = Append(appendQueue, offer.batch) /\ offer' = NoOffer
    /\ appendSlots' = IF appendSlots < BatchSlots THEN appendSlots + 1 ELSE appendSlots
    /\ UNCHANGED <<usageTable, recentClock, receiver, recentStopped, cacheVars, lostBatches>>

(* the queue takes the batch, or it is given up because the cache is closed   *)
(* or the queue is full                                                       *)
Send ==
    /\ offer.pc = "slot"
    /\ \/ /\ Len(appendQueue) < BatchSlots
          /\ appendQueue' = Append(appendQueue, offer.batch) /\ offer' = NoOffer
          /\ UNCHANGED <<appendSlots, lostBatches>>
       \/ /\ recentStopped \/ Len(appendQueue) = BatchSlots
          /\ Lose /\ appendSlots' = appendSlots + 1 /\ UNCHANGED appendQueue
    /\ UNCHANGED <<usageTable, recentClock, receiver, recentStopped, cacheVars>>

-----------------------------------------------------------------------------
(* The goroutine of the cache                                                *)

ReceiveBatch ==
    /\ receiver.pc = "waiting" /\ appendQueue # <<>>
    /\ receiver' = [pc |-> "received", batch |-> Head(appendQueue)]
    /\ appendQueue' = Tail(appendQueue)
    /\ UNCHANGED <<usageTable, recentClock, appendSlots, offer, recentStopped, cacheVars,
                   lostBatches>>

ReleaseSlot ==
    /\ receiver.pc = "received"
    /\ receiver' = [receiver EXCEPT !.pc = "appending"]
    /\ appendSlots' = IF appendSlots < BatchSlots THEN appendSlots + 1 ELSE appendSlots
    /\ UNCHANGED <<usageTable, recentClock, appendQueue, offer, recentStopped, cacheVars,
                   lostBatches>>

Interned(refs, events) ==
    [l \in Credentials |-> refs[l] + Quantify(DOMAIN events, LAMBDA i : events[i].label = l)]

Released(refs, events) ==
    [l \in Credentials |-> refs[l] - Quantify(DOMAIN events, LAMBDA i : events[i].label = l)]

InWindow(e, now) == e.at >= now - RecentWindow

(* the entries at some places of a sequence, in their order *)
EntriesAt(s, places) ==
    LET order == CHOOSE f \in [1 .. Cardinality(places) -> places] :
                    \A i, j \in DOMAIN f : i < j => f[i] < f[j]
    IN [i \in 1 .. Cardinality(places) |-> s[order[i]]]

(* the string pool and the events, after an append and a prune *)
AppendRecent(kept, refs, events, now) ==
    LET all == kept \o events
        inside == {i \in DOMAIN all : InWindow(all[i], now)}
    IN /\ recentEvents' = EntriesAt(all, inside)
       /\ stringRefs' = Released(Interned(refs, events), EntriesAt(all, DOMAIN all \ inside))

Bucket(at) == (at \div BucketSpan) * BucketSpan
HealthEnd(now) == Bucket(now) + BucketSpan
HealthStart(now) == HealthEnd(now) - BucketSpan * HealthBuckets

NoCounts == [success |-> 0, failure |-> 0]
CountsOf(buckets, b) == IF b \in DOMAIN buckets THEN buckets[b] ELSE NoCounts

(* one credential's buckets with those of some events added *)
Counted(buckets, events) ==
    LET touched == {Bucket(events[i].at) : i \in DOMAIN events}
        count(b, failed) == Quantify(DOMAIN events,
                              LAMBDA i : Bucket(events[i].at) = b /\ events[i].failed = failed)
    IN [b \in DOMAIN buckets \cup touched |->
           [success |-> CountsOf(buckets, b).success + count(b, FALSE),
            failure |-> CountsOf(buckets, b).failure + count(b, TRUE)]]

Pruned(buckets, now) == [b \in {c \in DOMAIN buckets : c >= HealthStart(now)} |-> buckets[b]]

FullPruneDue(now) == HealthEnd(now) - lastFullPrune >= BucketSpan

EventsOfCredential(events, c) == EntriesAt(events, {i \in DOMAIN events : events[i].label = c})

(* the credentials of the batch are pruned, all of them once per bucket *)
AppendHealth(before, events, now, full) ==
    LET mine(c) == EventsOfCredential(events, c)
        after == [c \in Credentials |-> Counted(before[c], mine(c))]
        empty == \A c \in Credentials : after[c] = <<>>
    IN /\ health' = [c \in Credentials |->
             IF full \/ mine(c) # <<>> THEN Pruned(after[c], now) ELSE after[c]]
       /\ lastFullPrune' = IF full \/ empty THEN HealthEnd(now) ELSE lastFullPrune

AppendEvents ==
    /\ receiver.pc = "appending"
    /\ AppendRecent(recentEvents, stringRefs, receiver.batch, recentClock)
    /\ AppendHealth(health, receiver.batch, recentClock, FullPruneDue(recentClock))
    /\ receiver' = Waiting
    /\ UNCHANGED <<usageTable, recentClock, appendSlots, appendQueue, offer, recentStopped,
                   lostBatches>>

CloseRecent ==
    /\ ~recentStopped /\ recentStopped' = TRUE
    /\ UNCHANGED <<usageTable, recentClock, appendSlots, appendQueue, offer, receiver,
                   cacheVars, lostBatches>>

(* what is still queued stays there *)
EndReceiver ==
    /\ receiver.pc = "waiting" /\ recentStopped
    /\ receiver' = [receiver EXCEPT !.pc = "done"]
    /\ UNCHANGED <<usageTable, recentClock, appendSlots, appendQueue, offer, recentStopped,
                   cacheVars, lostBatches>>

EarlierEvent(e, f) == e.at < f.at \/ (e.at = f.at /\ e.id < f.id)

LoadedFrom(from) ==
    LET due == {e \in usageTable : e.at >= from}
    IN CHOOSE s \in [1 .. Cardinality(due) -> due] :
          \A i, j \in DOMAIN s : i < j => EarlierEvent(s[i], s[j])

(* a new process loads both windows from the table *)
RecentRestart ==
    /\ recentStopped /\ receiver.pc = "done" /\ offer.pc = "none"
    /\ AppendRecent(<<>>, [l \in Credentials |-> 0], LoadedFrom(recentClock - RecentWindow),
                    recentClock)
    /\ AppendHealth([c \in Credentials |-> <<>>],
                    LoadedFrom(recentClock - BucketSpan * HealthBuckets), recentClock, TRUE)
    /\ appendSlots' = BatchSlots /\ appendQueue' = <<>> /\ receiver' = Waiting
    /\ recentStopped' = FALSE /\ lostBatches' = {}
    /\ UNCHANGED <<usageTable, recentClock, offer>>

RecentTick ==
    /\ recentClock < MaxRecentTime /\ recentClock' = recentClock + 1
    /\ UNCHANGED <<usageTable, appendSlots, appendQueue, offer, receiver, recentStopped,
                   cacheVars, lostBatches>>

RecentNext ==
    \/ CommitBatch \/ AcquireSlot \/ Send \/ ReceiveBatch \/ ReleaseSlot \/ AppendEvents
    \/ CloseRecent \/ EndReceiver \/ RecentRestart \/ RecentTick

RecentSpec == RecentInit /\ [][RecentNext]_recentVars

-----------------------------------------------------------------------------
(* The queries                                                               *)

Between(e, start, end, includeEnd) ==
    e.at >= start /\ (e.at < end \/ (includeEnd /\ e.at = end))

RecentBetween(start, end, includeEnd, label) ==
    EntriesAt(recentEvents, {i \in DOMAIN recentEvents :
                                /\ Between(recentEvents[i], start, end, includeEnd)
                                /\ label \in {NoLabel, recentEvents[i].label}})

CredentialHealth(c, now) ==
    [b \in {HealthStart(now) + k * BucketSpan : k \in 0 .. HealthBuckets - 1} |->
        CountsOf(health[c], b)]

-----------------------------------------------------------------------------
(* events committed and not (or never) seen by the cache *)
OnTheirWay == Ids(offer.batch) \cup Ids(receiver.batch)
                \cup UNION {Ids(appendQueue[i]) : i \in DOMAIN appendQueue}
Seen == {e \in usageTable : e.id \notin lostBatches \cup OnTheirWay}

(* A query inside the window answers what the table would, each event once,   *)
(* but for the batches on their way or rejected because the queue was full.   *)
RecentAnswersLikeTheTable ==
    \A start, end \in recentClock - RecentWindow .. recentClock,
       includeEnd \in BOOLEAN, label \in Credentials \cup {NoLabel} :
        LET found == RecentBetween(start, end, includeEnd, label)
        IN /\ ToSet(found) = {e \in Seen : /\ Between(e, start, end, includeEnd)
                                           /\ label \in {NoLabel, e.label}}
           /\ Cardinality(ToSet(found)) = Len(found)

(* Whoever holds a slot finds room in the queue: slots, queued batches and    *)
(* those between the two always add up to the capacity.                       *)
SlotsMeanRoom ==
    appendSlots + Len(appendQueue) + (IF offer.pc = "slot" THEN 1 ELSE 0)
        + (IF receiver.pc = "received" THEN 1 ELSE 0) = BatchSlots

(* The pool counts the cached events that share a string: nothing is freed    *)
(* while in use or kept for ever.                                             *)
PoolCountsReferences ==
    \A l \in Credentials :
        stringRefs[l] = Quantify(DOMAIN recentEvents, LAMBDA i : recentEvents[i].label = l)

(* The health of a credential counts every event the cache has seen in the    *)
(* buckets of the window, and pruning takes none of them away.                *)
HealthCountsTheWindow ==
    \A c \in Credentials :
        LET shown == CredentialHealth(c, recentClock)
            count(b, failed) == Cardinality({e \in Seen : /\ e.label = c /\ e.failed = failed
                                                          /\ Bucket(e.at) = b})
        IN shown = [b \in DOMAIN shown |->
                       [success |-> count(b, FALSE), failure |-> count(b, TRUE)]]

(* Buckets of credentials nobody uses any more go when others move on: the    *)
(* map as a whole never spans more than the window.                           *)
OldBucketsGo ==
    \A c, d \in Credentials : \A b \in DOMAIN health[c], latest \in DOMAIN health[d] :
        latest - b < BucketSpan * HealthBuckets

(* What the cache keeps beside the events is right as well: the places of its *)
(* queue, the shared strings, and the health of each credential.              *)
RecentBooksBalance ==
    SlotsMeanRoom /\ PoolCountsReferences /\ HealthCountsTheWindow /\ OldBucketsGo

(* What the cache answers and what it keeps beside its answers is right.      *)
RecentCacheIsHonest == RecentAnswersLikeTheTable /\ RecentBooksBalance
=============================================================================
