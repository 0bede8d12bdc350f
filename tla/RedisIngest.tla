----------------------------- MODULE RedisIngest -----------------------------
(***************************************************************************)
(* How usage messages get from CPA into the inbox: RedisIngestRunner with  *)
(* its three entries (subscription, Redis pull, HTTP pull), the start-up   *)
(* probe, the three long-lived modes and their fallbacks.                  *)
(*                                                                         *)
(* A pull takes messages out of the queue of CPA before they are stored,   *)
(* and a subscription does not repeat what it sent, so each failure may    *)
(* cost messages. Some of them may be control messages that ask for new    *)
(* metadata; a failure therefore sends the metadata scheduler back to      *)
(* polling, and a connection that is (re)established is announced to it.   *)
(*                                                                         *)
(* CPA is external: a message published while a subscription is open goes  *)
(* to the subscription, any other into the queue. Pauses and back-off      *)
(* delays take no time here; lastWarning is left out of the status.        *)
(***************************************************************************)
EXTENDS Integers, FiniteSets

CONSTANTS
    MaxMessages,    \* bound: how many messages CPA ever publishes
    BatchSize,      \* REDIS_QUEUE_BATCH_SIZE
    MaxFaults,      \* bound: failures of entries that are not down
    MaxWriteFaults, \* bound: failed inserts into the inbox
    MaxCrashes      \* bound: how often the process is killed

Entries == {"subscribe", "redis", "http"}
Messages == 1..MaxMessages

ASSUME IngestAssumption ==
    /\ MaxMessages \in Nat
    /\ BatchSize \in Nat \ {0}
    /\ MaxFaults \in Nat
    /\ MaxWriteFaults \in Nat
    /\ MaxCrashes \in Nat

VARIABLES
    published,  \* messages 1..published have been published
    queue,      \* those in the queue of CPA
    open,       \* CPA sends to our subscription
    stream,     \* sent on the subscription, not yet read
    torn,       \* a message of which only the first part was read
    hand,       \* read from the subscription, not yet stored
    inbox,      \* handed to the inbox writer, which stored them
    lost,       \* history: gone without being stored
    down,       \* entries that are down for good
    pc,         \* where the runner is
    err,        \* lastError # ""
    source,     \* fallbackSource or connectionSource of the current mode
    due,        \* the next subscribe or Redis retry is due
    polling,    \* the metadata scheduler was sent back to polling
    announced,  \* history: entry announced last, unless it has failed since
    working,    \* history: entry that worked last, unless it failed since
    failed,     \* history: entries whose last attempt failed
    skipped,    \* history: both back-fills of this connection failed
    faults, writeFaults, crashes

remote == <<published, open, stream, torn, hand, down>>
bounds == <<faults, writeFaults, crashes>>
vars   == <<remote, queue, inbox, lost, pc, err, source, due, polling, announced,
            working, failed, skipped, bounds>>

PCs == {"start", "probeRedis", "probeHTTP", "backfillRedis", "backfillHTTP",
        "receive", "window", "degraded", "degradedRedis", "degradedHTTP",
        "redis", "redisHTTP", "recover", "recoverHTTP", "http"}

TypeOK ==
    /\ published \in 0..MaxMessages
    /\ \A S \in {queue, stream, torn, hand, inbox, lost} : S \subseteq 1..published
    /\ open \in BOOLEAN
    /\ down \subseteq Entries
    /\ pc \in PCs
    /\ err \in BOOLEAN
    /\ source \in {"none", "redis", "http"}
    /\ due \in BOOLEAN
    /\ polling \in BOOLEAN
    /\ announced \in Entries \cup {"none"}
    /\ working \in Entries \cup {"none"}
    /\ failed \subseteq Entries
    /\ skipped \in BOOLEAN
    /\ faults \in Nat /\ writeFaults \in Nat /\ crashes \in Nat

Init ==
    /\ published = 0 /\ open = FALSE /\ down = {}
    /\ queue = {} /\ stream = {} /\ torn = {} /\ hand = {} /\ inbox = {} /\ lost = {}
    /\ pc = "start" /\ err = FALSE /\ source = "none" /\ due = FALSE /\ polling = TRUE
    /\ announced = "none" /\ working = "none" /\ failed = {} /\ skipped = FALSE
    /\ faults = 0 /\ writeFaults = 0 /\ crashes = 0

-----------------------------------------------------------------------------
(* CPA, outside this program, and the clock.                               *)

Publish ==
    /\ published < MaxMessages
    /\ published' = published + 1
    /\ IF open THEN stream' = stream \cup {published + 1} /\ UNCHANGED queue
               ELSE queue' = queue \cup {published + 1} /\ UNCHANGED stream
    /\ UNCHANGED <<open, torn, hand, inbox, lost, down, pc, err, source, due, polling,
                   announced, working, failed, skipped, bounds>>

\* A failure of entry e: one of the few of an entry that works, or any of one
\* that is down.
MayFail(e) ==
    /\ e \in down \/ faults < MaxFaults
    /\ faults' = IF e \in down THEN faults ELSE faults + 1
    /\ UNCHANGED <<writeFaults, crashes>>

\* The subscription breaks; what it has sent may or may not be read.
Disconnect ==
    /\ open /\ open' = FALSE
    /\ MayFail("subscribe")
    /\ UNCHANGED <<published, queue, stream, torn, hand, inbox, lost, down, pc, err,
                   source, due, polling, announced, working, failed, skipped>>

GoDown(e) ==
    /\ e \notin down
    /\ down' = down \cup {e}
    /\ UNCHANGED <<published, queue, open, stream, torn, hand, inbox, lost, pc, err,
                   source, due, polling, announced, working, failed, skipped, bounds>>

\* redisIngestRecoveryRetryInterval has passed.
RetryDue ==
    /\ pc \in {"degraded", "degradedRedis", "degradedHTTP", "recover", "recoverHTTP"}
    /\ ~due /\ due' = TRUE
    /\ UNCHANGED <<remote, queue, inbox, lost, pc, err, source, polling, announced,
                   working, failed, skipped, bounds>>

-----------------------------------------------------------------------------
(* The status, and what an attempt tells about an entry.                   *)

SubState(p) ==
    CASE p \in {"start", "probeRedis", "probeHTTP"} -> "starting"
      [] p \in {"backfillRedis", "backfillHTTP"} -> "backfill"
      [] p \in {"receive", "window"} -> "receiving"
      [] p \in {"degraded", "degradedRedis", "degradedHTTP"} -> "degraded"
      [] p \in {"redis", "redisHTTP"} -> "redis"
      [] p \in {"recover", "recoverHTTP"} -> "redisHTTP"
      [] p = "http" -> "http"

\* redisIngestHealthyState
Healthy == {"backfill", "receiving", "redis", "http"}

\* recordState: entering a healthy state, not staying in one, clears the error.
RecordState(p) ==
    /\ pc' = p
    /\ err' = (err /\ (SubState(p) = SubState(pc) \/ SubState(p) \notin Healthy))

\* Mutant: a fallback that takes over leaves the old error in the status.
RecordAvailableLater(p) == RecordState(p)

\* recordAvailable
RecordAvailable(p) == pc' = p /\ err' = FALSE

\* Mutant: only a final failure sends the metadata scheduler back to polling.
RecordWarningQuietly(p) == RecordState(p) /\ UNCHANGED polling

\* recordWarning and recordError, both through recordFailure.
RecordWarning(p) == RecordState(p) /\ polling' = TRUE

RecordError(p) == pc' = p /\ err' = TRUE /\ polling' = TRUE

\* markConnectionEstablished: only a change of the source is announced.
MarkEstablished(e) ==
    /\ source' = e
    /\ announced' = IF source = e THEN announced ELSE e

\* Mutant: a source that failed is still taken for the current one.
MarkUnavailableNever(e) == UNCHANGED source

MarkUnavailable(e) == source' = IF source = e THEN "none" ELSE source

\* The histories: entry e is what the messages come through now, or it failed.
Worked(e) == working' = e /\ failed' = failed \ {e}

Broke(e) ==
    /\ working' = IF working = e THEN "none" ELSE working
    /\ announced' = IF announced = e THEN "none" ELSE announced
    /\ failed' = failed \cup {e}

-----------------------------------------------------------------------------
(* serialPullAndWrite, with its three outcomes.                            *)

\* The next messages of the queue, up to BatchSize of them.
Batch == {m \in queue : Cardinality({n \in queue : n < m}) < BatchSize}
Full == Cardinality(Batch) >= BatchSize

\* The writer stores a batch. Control messages in it may end the polling.
Stored(S) ==
    /\ inbox' = inbox \cup S
    /\ polling' \in (IF S = {} THEN {polling} ELSE {polling, FALSE})

\* Where the runner pulls from entry e next.
Pulling(e) ==
    \/ e = "redis" /\ \/ pc \in {"probeRedis", "backfillRedis", "degradedRedis", "redis"}
                      \/ pc = "degraded" /\ ~due
                      \/ pc = "recover" /\ due
    \/ e = "http" /\ \/ pc \in {"probeHTTP", "backfillHTTP", "degradedHTTP", "redisHTTP",
                                "recoverHTTP", "http"}
                     \/ pc = "recover" /\ ~due

\* An empty batch is a success too.
Pull(e) ==
    /\ Pulling(e) /\ e \notin down
    /\ queue' = queue \ Batch
    /\ Stored(Batch)
    /\ UNCHANGED <<remote, lost, bounds>>

\* The entry fails. If only the answer was lost, CPA has taken the batch out of
\* the queue already; an entry that is down takes nothing.
PullFails(e) ==
    /\ Pulling(e) /\ MayFail(e)
    /\ \E S \in IF e \in down THEN {{}} ELSE {{}, Batch} :
           queue' = queue \ S /\ lost' = lost \cup S
    /\ Broke(e)
    /\ UNCHANGED <<remote, inbox>>

WriteFault == writeFaults < MaxWriteFaults /\ writeFaults' = writeFaults + 1
              /\ UNCHANGED <<faults, crashes>>

\* The loop the pull belongs to; the runner goes back to its top when the inbox
\* does not take what was pulled.
LoopTop ==
    CASE SubState(pc) = "degraded" -> "degraded"
      [] SubState(pc) = "redis" -> "redis"
      [] SubState(pc) = "redisHTTP" -> "recover"
      [] SubState(pc) = "http" -> "http"
      [] OTHER -> "start"

\* Close: what the subscription sent and nobody read is gone.
Close(more) ==
    /\ open' = FALSE /\ stream' = {} /\ torn' = {} /\ hand' = {}
    /\ lost' = lost \cup stream \cup torn \cup more

\* pauseAfterInboxWriteFailure. A back-fill also closes the subscription.
PullNotStored(e) ==
    /\ Pulling(e) /\ e \notin down /\ Batch # {} /\ WriteFault
    /\ queue' = queue \ Batch
    /\ IF SubState(pc) = "backfill"
       THEN Close(Batch)
       ELSE lost' = lost \cup Batch /\ UNCHANGED <<open, stream, torn, hand>>
    /\ RecordError(LoopTop)
    /\ working' = "none" /\ failed' = failed \ {e}
    /\ UNCHANGED <<published, down, inbox, source, due, announced, skipped>>

-----------------------------------------------------------------------------
(* Subscribing: the first choice of the probe, and retried at intervals by *)
(* the degraded polling of the subscription mode.                          *)

Subscribing == pc = "start" \/ (pc = "degraded" /\ due)

Subscribe ==
    /\ Subscribing /\ "subscribe" \notin down
    /\ open' = TRUE
    /\ announced' = "subscribe" /\ Worked("subscribe")
    /\ RecordState("backfillRedis")
    /\ skipped' = FALSE /\ source' = "none" /\ due' = FALSE
    /\ UNCHANGED <<published, stream, torn, hand, down, queue, inbox, lost, polling,
                   bounds>>

SubscribeFails ==
    /\ Subscribing /\ MayFail("subscribe")
    /\ Broke("subscribe")
    /\ RecordWarning(IF pc = "start" THEN "probeRedis" ELSE "degradedRedis")
    /\ due' = FALSE
    /\ UNCHANGED <<remote, queue, inbox, lost, source, skipped>>

-----------------------------------------------------------------------------
(* Run: the probe fixes the mode by the first entry that works.            *)

Probe(e) ==
    /\ pc = (IF e = "redis" THEN "probeRedis" ELSE "probeHTTP")
    /\ Pull(e)
    /\ announced' = e /\ source' = e /\ Worked(e)
    /\ RecordState(e)
    /\ due' = FALSE
    /\ UNCHANGED skipped

ProbeRedisFails ==
    /\ pc = "probeRedis" /\ PullFails("redis")
    /\ RecordWarning("probeHTTP")
    /\ UNCHANGED <<source, due, skipped>>

ProbeHTTPFails ==
    /\ pc = "probeHTTP" /\ PullFails("http")
    /\ RecordError("start")
    /\ UNCHANGED <<source, due, skipped>>

-----------------------------------------------------------------------------
(* runSubscribeMode: back-fill from the queue, then receive in batches.    *)

Backfill(e) ==
    /\ SubState(pc) = "backfill" /\ Pull(e)
    /\ RecordState(IF Full THEN pc ELSE "receive")
    /\ UNCHANGED <<source, due, announced, working, failed, skipped>>

\* Mutant: no second try through HTTP.
BackfillFailsFast(e) ==
    /\ SubState(pc) = "backfill" /\ PullFails(e)
    /\ RecordWarning("receive")
    /\ skipped' = (e = "http")
    /\ UNCHANGED <<source, due>>

BackfillFails(e) ==
    /\ SubState(pc) = "backfill" /\ PullFails(e)
    /\ RecordWarning(IF e = "redis" THEN "backfillHTTP" ELSE "receive")
    /\ skipped' = (e = "http")
    /\ UNCHANGED <<source, due>>

First(S) == {m \in S : \A n \in S : m <= n}

\* Receive: the first message of a batch, or one more within its window.
Receive ==
    /\ pc \in {"receive", "window"} /\ Cardinality(hand) < BatchSize
    /\ torn = {} /\ stream # {}
    /\ hand' = hand \cup First(stream) /\ stream' = stream \ First(stream)
    /\ RecordState("window")
    /\ UNCHANGED <<published, open, torn, down, queue, inbox, lost, source, due,
                   polling, announced, working, failed, skipped, bounds>>

\* The batch is full.
StoreFullBatch ==
    /\ pc = "window" /\ Cardinality(hand) = BatchSize
    /\ Stored(hand) /\ hand' = {}
    /\ RecordState("receive")
    /\ UNCHANGED <<published, open, stream, torn, down, queue, lost, source, due,
                   announced, working, failed, skipped, bounds>>

\* The window closes. The read deadline may hit in the middle of a message:
\* its first part has left the reader.
WindowEnds ==
    /\ pc = "window" /\ Cardinality(hand) < BatchSize
    /\ Stored(hand) /\ hand' = {}
    /\ \E S \in {{}, First(stream)} : torn' = S /\ stream' = stream \ S
    /\ RecordState("receive")
    /\ UNCHANGED <<published, open, down, queue, lost, source, due, announced,
                   working, failed, skipped, bounds>>

\* The inbox does not take the batch: closed, and the probe starts again.
BatchNotStored ==
    /\ pc = "window" /\ WriteFault
    /\ Close(hand)
    /\ RecordError("start")
    /\ working' = "none"
    /\ UNCHANGED <<published, down, queue, inbox, source, due, announced, failed,
                   skipped>>

\* Mutant: a read that fails takes the batch in hand with it.
DisconnectedFirst ==
    /\ pc \in {"receive", "window"} /\ Cardinality(hand) < BatchSize
    /\ ~open \/ torn # {}
    /\ UNCHANGED inbox
    /\ Close({})
    /\ RecordError("degraded")
    /\ Broke("subscribe")
    /\ source' = "none" /\ due' = FALSE
    /\ UNCHANGED <<published, down, queue, skipped, bounds>>

\* A read fails. A batch in hand is stored first.
Disconnected ==
    /\ pc \in {"receive", "window"} /\ Cardinality(hand) < BatchSize
    /\ ~open \/ torn # {}
    /\ inbox' = inbox \cup hand
    /\ Close({})
    /\ RecordError("degraded")
    /\ Broke("subscribe")
    /\ source' = "none" /\ due' = FALSE
    /\ UNCHANGED <<published, down, queue, skipped, bounds>>

\* The tear fell between two elements of the message: the reader takes the rest
\* for replies of another kind and skips them without an error.
SkipTorn ==
    /\ pc = "receive" /\ torn # {}
    /\ lost' = lost \cup torn /\ torn' = {}
    /\ UNCHANGED <<published, open, stream, hand, down, queue, inbox, pc, err, source,
                   due, polling, announced, working, failed, skipped, bounds>>

-----------------------------------------------------------------------------
(* runSubscribeDegradedPolling, between two attempts to subscribe again.   *)

Degraded(e) ==
    /\ SubState(pc) = "degraded" /\ Pull(e)
    /\ MarkEstablished(e) /\ Worked(e)
    /\ RecordAvailable("degraded")
    /\ UNCHANGED <<due, skipped>>

DegradedRedisFails ==
    /\ SubState(pc) = "degraded" /\ PullFails("redis")
    /\ MarkUnavailable("redis")
    /\ RecordWarning("degradedHTTP")
    /\ UNCHANGED <<due, skipped>>

DegradedHTTPFails ==
    /\ SubState(pc) = "degraded" /\ PullFails("http")
    /\ MarkUnavailable("http")
    /\ RecordError("degraded")
    /\ UNCHANGED <<due, skipped>>

-----------------------------------------------------------------------------
(* runRedisPullMode: Redis, or HTTP while Redis is away.                   *)

RedisActive ==
    /\ pc = "redis" /\ Pull("redis")
    /\ RecordAvailable("redis")
    /\ MarkEstablished("redis") /\ Worked("redis")
    /\ UNCHANGED <<due, skipped>>

RedisFails ==
    /\ pc = "redis" /\ PullFails("redis")
    /\ MarkUnavailable("redis")
    /\ RecordWarning("redisHTTP")
    /\ UNCHANGED <<due, skipped>>

HTTPTakesOver ==
    /\ pc = "redisHTTP" /\ Pull("http")
    /\ MarkEstablished("http") /\ Worked("http")
    /\ due' = FALSE
    /\ RecordAvailable("recover")
    /\ UNCHANGED skipped

\* Redis and HTTP both failed: the loop starts with Redis again.
TakeOverFails ==
    /\ pc = "redisHTTP" /\ PullFails("http")
    /\ RecordError("redis")
    /\ UNCHANGED <<source, due, skipped>>

RedisRecovers ==
    /\ pc = "recover" /\ Pull("redis")
    /\ RecordState("redis")
    /\ MarkEstablished("redis") /\ Worked("redis")
    /\ due' = FALSE
    /\ UNCHANGED skipped

RecoveryFails ==
    /\ pc = "recover" /\ PullFails("redis")
    /\ RecordWarning("recoverHTTP")
    /\ due' = FALSE
    /\ UNCHANGED <<source, skipped>>

HTTPInstead ==
    /\ SubState(pc) = "redisHTTP" /\ Pull("http")
    /\ MarkEstablished("http") /\ Worked("http")
    /\ RecordAvailable("recover")
    /\ UNCHANGED <<due, skipped>>

HTTPInsteadFails ==
    /\ SubState(pc) = "redisHTTP" /\ PullFails("http")
    /\ MarkUnavailable("http")
    /\ RecordError("recover")
    /\ UNCHANGED <<due, skipped>>

-----------------------------------------------------------------------------
(* runHTTPPullMode never tries another entry.                              *)

HTTPActive ==
    /\ pc = "http" /\ Pull("http")
    /\ MarkEstablished("http") /\ Worked("http")
    /\ RecordAvailable("http")
    /\ UNCHANGED <<due, skipped>>

HTTPFails ==
    /\ pc = "http" /\ PullFails("http")
    /\ MarkUnavailable("http")
    /\ RecordError("http")
    /\ UNCHANGED <<due, skipped>>

-----------------------------------------------------------------------------
\* Killed and started again: CPA closes the subscription.
Crash ==
    /\ crashes < MaxCrashes /\ crashes' = crashes + 1
    /\ Close(hand)
    /\ pc' = "start" /\ err' = FALSE /\ source' = "none" /\ due' = FALSE
    /\ polling' = TRUE /\ announced' = "none" /\ working' = "none" /\ failed' = {}
    /\ skipped' = FALSE
    /\ UNCHANGED <<published, down, queue, inbox, faults, writeFaults>>

Runner ==
    \/ Subscribe \/ SubscribeFails
    \/ \E e \in {"redis", "http"} :
           Probe(e) \/ Backfill(e) \/ BackfillFails(e) \/ Degraded(e) \/ PullNotStored(e)
    \/ ProbeRedisFails \/ ProbeHTTPFails
    \/ Receive \/ StoreFullBatch \/ WindowEnds \/ BatchNotStored \/ Disconnected
    \/ SkipTorn
    \/ DegradedRedisFails \/ DegradedHTTPFails
    \/ RedisActive \/ RedisFails \/ HTTPTakesOver \/ TakeOverFails
    \/ RedisRecovers \/ RecoveryFails \/ HTTPInstead \/ HTTPInsteadFails
    \/ HTTPActive \/ HTTPFails

Next == Publish \/ Disconnect \/ (\E e \in Entries : GoDown(e)) \/ RetryDue \/ Runner \/ Crash

Spec == Init /\ [][Next]_vars

\* The goroutine goes on and its timer expires. CPA promises nothing: entries
\* that are not down fail finitely often, by MayFail.
FairSpec == Spec /\ WF_vars(Runner) /\ WF_vars(RetryDue)

-----------------------------------------------------------------------------
\* Every message published is in exactly one place, or counted as lost: no
\* path of the runner forgets a batch it holds, not even the one in hand when
\* the connection breaks inside the window (receiveSubscribeBatches).
Accounted ==
    /\ queue \cup stream \cup torn \cup hand \cup inbox \cup lost = 1..published
    /\ queue \cap (stream \cup torn \cup hand \cup inbox \cup lost) = {}
    /\ stream \cap (torn \cup hand \cup inbox \cup lost) = {}
    /\ torn \cap (hand \cup inbox \cup lost) = {}
    /\ hand \cap (inbox \cup lost) = {}
    /\ inbox \cap lost = {}

\* As long as messages come through an entry, the status shows no error of an
\* earlier failure, whichever mode or fallback that entry took over in
\* (recordAvailable, and recordState entering a healthy state).
NoStaleError == working # "none" => ~err

\* The entry that messages come through was announced to the metadata
\* scheduler after its last failure, so that what was missed meanwhile is
\* synchronised (onConnectionEstablished, markConnectionEstablished).
ConnectionAnnounced == working # "none" => announced = working

\* A step that may have lost control messages in CPA's hands or ours leaves
\* the metadata scheduler polling (recordFailure); only a message torn by the
\* window's own deadline goes unnoticed.
LossMeansPolling ==
    [][lost' \subseteq lost \cup torn \/ polling']_vars

\* Every message leaves the queue or the subscription unless both pull entries
\* go down for good, with two exceptions the code accepts: a back-fill that
\* failed on both entries is not repeated until the next connection, and HTTP
\* mode never goes back to Redis (backfillAfterSubscribe, runHTTPPullMode).
Collected ==
    \A m \in Messages :
        m \in queue \cup stream ~>
            \/ m \notin queue \cup stream
            \/ {"redis", "http"} \subseteq down
            \/ skipped
            \/ pc = "http" /\ "http" \in down

\* The batch is built "so that no message is lost by a later time-out", says
\* receiveSubscribeBatches; the deadline of the window can tear a message.
TimeoutLosesNothing == [][torn \cap lost' = {}]_vars
=============================================================================
