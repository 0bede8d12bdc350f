-------------------------- MODULE RedisIngestProofs --------------------------
(* Theorems about the ingest runner, for any number of messages, batch     *)
(* size, failures and kills, whichever entries go down; the last ones are  *)
(* about the runner together with the metadata scheduler's promise.        *)
EXTENDS MetadataFreshness, TLAPS

-----------------------------------------------------------------------------
(* Where the messages are. Batches are taken out of one place and put into *)
(* another; of a batch it matters only that it comes out of that place.    *)

places == <<published, queue, stream, torn, hand, inbox, lost>>

\* A batch consists of messages of the queue.
LEMMA BatchOfQueue == Batch \subseteq queue
BY DEF Batch

\* The first message of a set is one of its messages.
LEMMA FirstOfSet == ASSUME NEW S PROVE First(S) \subseteq S
BY DEF First

\* Nothing moves.
LEMMA Still == Accounted /\ UNCHANGED places => Accounted'
BY DEF Accounted, places

\* A pull that is stored.
LEMMA StorePulled ==
    ASSUME Accounted, NEW B, B \subseteq queue,
           queue' = queue \ B, inbox' = inbox \cup B,
           UNCHANGED <<published, stream, torn, hand, lost>>
    PROVE  Accounted'
BY DEF Accounted

\* A pull that is lost.
LEMMA LosePulled ==
    ASSUME Accounted, NEW B, B \subseteq queue,
           queue' = queue \ B, lost' = lost \cup B,
           UNCHANGED <<published, stream, torn, hand, inbox>>
    PROVE  Accounted'
BY DEF Accounted

\* A subscription that is closed after its batch was stored, or was not.
LEMMA LoseSubscription ==
    ASSUME Accounted, NEW B, NEW C, B \subseteq queue,
           hand = {} \/ C = hand \/ C = {},
           queue' = queue \ B,
           inbox' = inbox \cup (hand \ C),
           lost' = lost \cup stream \cup torn \cup B \cup (hand \cap C),
           stream' = {}, torn' = {}, hand' = {}, published' = published
    PROVE  Accounted'
BY DEF Accounted

\* Messages are in hand only while a window is open, and none is torn then.
WindowClean ==
    /\ hand # {} => pc = "window"
    /\ pc = "window" => torn = {}

\* The actions that leave the messages where they are.
LEMMA NothingMoves ==
    ASSUME Accounted,
           \/ Disconnect \/ (\E e \in Entries : GoDown(e)) \/ RetryDue
           \/ Subscribe \/ SubscribeFails \/ UNCHANGED vars
    PROVE  Accounted'
<1>1. UNCHANGED places
  <2>1. CASE Disconnect
    BY <2>1 DEF Disconnect, places
  <2>2. CASE \E e \in Entries : GoDown(e)
    BY <2>2 DEF GoDown, places
  <2>3. CASE RetryDue
    BY <2>3 DEF RetryDue, places, remote
  <2>4. CASE Subscribe
    BY <2>4 DEF Subscribe, places
  <2>5. CASE SubscribeFails
    BY <2>5 DEF SubscribeFails, places, remote
  <2>6. CASE UNCHANGED vars
    BY <2>6 DEF vars, places, remote
  <2> QED BY <2>1, <2>2, <2>3, <2>4, <2>5, <2>6
<1> QED BY <1>1, Still

\* A message is published into the subscription or the queue.
LEMMA PublishAccounted ==
    ASSUME TypeOK, Accounted, Publish PROVE Accounted'
<1> DEFINE new == published + 1
<1>1. /\ published \in Nat
      /\ 1..new = (1..published) \cup {new}
      /\ new \notin 1..published
  BY IngestAssumption DEF IngestAssumption, TypeOK
<1>2. /\ published' = new
      /\ UNCHANGED <<torn, hand, inbox, lost>>
      /\ \/ queue' = queue /\ stream' = stream \cup {new}
         \/ stream' = stream /\ queue' = queue \cup {new}
  BY DEF Publish
<1> HIDE DEF new
<1>3. new \notin queue \cup stream \cup torn \cup hand \cup inbox \cup lost
  BY <1>1 DEF Accounted
<1>4. CASE queue' = queue /\ stream' = stream \cup {new}
  BY <1>1, <1>2, <1>3, <1>4 DEF Accounted
<1>5. CASE stream' = stream /\ queue' = queue \cup {new}
  BY <1>1, <1>2, <1>3, <1>5 DEF Accounted
<1> QED BY <1>2, <1>4, <1>5

\* The three outcomes of serialPullAndWrite.
LEMMA PullAccounted ==
    ASSUME Accounted, WindowClean, NEW e, Pull(e) \/ PullFails(e) \/ PullNotStored(e)
    PROVE  Accounted'
<1>1. CASE Pull(e)
  <2>1. /\ queue' = queue \ Batch /\ inbox' = inbox \cup Batch
        /\ UNCHANGED <<published, stream, torn, hand, lost>>
    BY <1>1 DEF Pull, Stored, remote
  <2> QED BY <2>1, BatchOfQueue, StorePulled
<1>2. CASE PullFails(e)
  <2>1. PICK S \in {{}, Batch} : queue' = queue \ S /\ lost' = lost \cup S
    BY <1>2 DEF PullFails
  <2>2. S \subseteq queue
    BY <2>1, BatchOfQueue
  <2>3. UNCHANGED <<published, stream, torn, hand, inbox>>
    BY <1>2 DEF PullFails, remote
  <2> QED BY <2>1, <2>2, <2>3, LosePulled
<1>3. CASE PullNotStored(e) /\ SubState(pc) # "backfill"
  <2>1. /\ queue' = queue \ Batch /\ lost' = lost \cup Batch
        /\ UNCHANGED <<published, stream, torn, hand, inbox>>
    BY <1>3 DEF PullNotStored
  <2> QED BY <2>1, BatchOfQueue, LosePulled
<1>4. CASE PullNotStored(e) /\ SubState(pc) = "backfill"
  <2>1. hand = {}
    BY <1>4 DEF WindowClean, SubState
  <2>2. /\ queue' = queue \ Batch /\ UNCHANGED <<published, inbox>>
        /\ lost' = lost \cup stream \cup torn \cup Batch
        /\ stream' = {} /\ torn' = {} /\ hand' = {}
    BY <1>4 DEF PullNotStored, Close
  <2> QED BY <2>1, <2>2, BatchOfQueue, LoseSubscription
<1> QED BY <1>1, <1>2, <1>3, <1>4

\* Receiving, storing and closing the subscription.
LEMMA SubscriptionAccounted ==
    ASSUME Accounted, WindowClean,
           \/ Receive \/ StoreFullBatch \/ WindowEnds \/ BatchNotStored \/ Disconnected
           \/ SkipTorn \/ Crash
    PROVE  Accounted'
<1>1. CASE Receive
  <2>1. /\ hand' = hand \cup First(stream) /\ stream' = stream \ First(stream)
        /\ UNCHANGED <<published, queue, torn, inbox, lost>>
    BY <1>1 DEF Receive
  <2> QED BY <2>1, FirstOfSet DEF Accounted
<1>2. CASE StoreFullBatch
  <2>1. /\ inbox' = inbox \cup hand /\ hand' = {}
        /\ UNCHANGED <<published, queue, stream, torn, lost>>
    BY <1>2 DEF StoreFullBatch, Stored
  <2> QED BY <2>1 DEF Accounted
<1>3. CASE WindowEnds
  <2>1. PICK S \in {{}, First(stream)} : torn' = S /\ stream' = stream \ S
    BY <1>3 DEF WindowEnds
  <2>2. S \subseteq stream
    BY <2>1, FirstOfSet
  <2>3. /\ inbox' = inbox \cup hand /\ hand' = {} /\ torn = {}
        /\ UNCHANGED <<published, queue, lost>>
    BY <1>3 DEF WindowEnds, Stored, WindowClean
  <2> HIDE DEF WindowClean
  <2> QED BY <2>1, <2>2, <2>3 DEF Accounted
<1>4. CASE BatchNotStored \/ Crash
  <2>1. /\ UNCHANGED <<published, queue, inbox>>
        /\ lost' = lost \cup stream \cup torn \cup hand
        /\ stream' = {} /\ torn' = {} /\ hand' = {}
    BY <1>4 DEF BatchNotStored, Crash, Close
  <2> QED BY <2>1, LoseSubscription
<1>5. CASE Disconnected
  <2>1. /\ UNCHANGED <<published, queue>> /\ inbox' = inbox \cup hand
        /\ lost' = lost \cup stream \cup torn \cup {}
        /\ stream' = {} /\ torn' = {} /\ hand' = {}
    BY <1>5 DEF Disconnected, Close
  <2> QED BY <2>1 DEF Accounted
<1>6. CASE SkipTorn
  BY <1>6 DEF SkipTorn, Accounted
<1> QED BY <1>1, <1>2, <1>3, <1>4, <1>5, <1>6

-----------------------------------------------------------------------------
(* Types and routes: which source and which working entry fit the place    *)
(* the runner is in. Errors are recorded only where no entry is taken to   *)
(* work, and a source that is kept has been announced.                     *)

\* The types of the flags.
Flags ==
    /\ open \in BOOLEAN /\ err \in BOOLEAN /\ due \in BOOLEAN
    /\ polling \in BOOLEAN /\ skipped \in BOOLEAN

\* The types of the other variables but the sets of messages.
Typed ==
    /\ pc \in PCs
    /\ source \in {"none", "redis", "http"}
    /\ announced \in Entries \cup {"none"}
    /\ working \in Entries \cup {"none"}
    /\ failed \subseteq Entries
    /\ down \subseteq Entries
    /\ faults \in Nat /\ writeFaults \in Nat /\ crashes \in Nat

SourceFits ==
    /\ source # "none" => announced = source
    /\ SubState(pc) \in {"starting", "backfill", "receiving"} => source = "none"
    /\ pc = "redis" => source # "http"
    /\ pc = "redisHTTP" => source = "none"
    /\ SubState(pc) = "redisHTTP" => source # "redis"

WorkingFits ==
    /\ SubState(pc) = "starting" => working = "none"
    /\ SubState(pc) \in {"backfill", "receiving"} => working \in {"none", "subscribe"}
    /\ SubState(pc) = "degraded" => working # "subscribe"
    /\ pc = "degradedHTTP" => working # "redis"
    /\ pc = "redis" => working \in {"none", "redis"}
    /\ pc = "redisHTTP" => working = "none"
    /\ SubState(pc) \in {"redisHTTP", "http"} => working \in {"none", "http"}

\* The steps, with the entry they are about.
StepOf(e) ==
    \/ Publish \/ Disconnect \/ GoDown(e) \/ RetryDue \/ Subscribe
    \/ SubscribeFails \/ Probe(e) \/ ProbeRedisFails \/ ProbeHTTPFails
    \/ Backfill(e) \/ BackfillFails(e) \/ PullNotStored(e) \/ Receive
    \/ StoreFullBatch \/ WindowEnds \/ BatchNotStored \/ Disconnected \/ SkipTorn
    \/ Degraded(e) \/ DegradedRedisFails \/ DegradedHTTPFails \/ RedisActive
    \/ RedisFails \/ HTTPTakesOver \/ TakeOverFails \/ RedisRecovers
    \/ RecoveryFails \/ HTTPInstead \/ HTTPInsteadFails \/ HTTPActive
    \/ HTTPFails \/ Crash

Routed == SourceFits /\ WorkingFits /\ NoStaleError /\ ConnectionAnnounced

\* The sets of messages keep their type because each message is somewhere.
LEMMA AccountedIsTyped ==
    Accounted => \A S \in {queue, stream, torn, hand, inbox, lost} : S \subseteq 1..published
BY DEF Accounted

\* Every action keeps the flags Boolean.
LEMMA FlagsNext == ASSUME Flags, NEW e, e \in Entries, StepOf(e) PROVE Flags'
<1> USE DEF Flags
<1>1. CASE Publish
  BY <1>1 DEF Publish, bounds, remote
<1>2. CASE Disconnect
  BY <1>2 DEF Disconnect, MayFail
<1>3. CASE GoDown(e)
  BY <1>3 DEF GoDown, bounds, remote
<1>4. CASE RetryDue
  BY <1>4 DEF RetryDue, remote, bounds
<1>5. CASE Subscribe
  BY <1>5 DEF Subscribe, Subscribing, Worked, RecordState, bounds, SubState,
       remote
<1>6. CASE SubscribeFails
  BY <1>6 DEF SubscribeFails, Subscribing, MayFail, Broke, RecordWarning,
       remote, RecordState, SubState
<1>7. CASE Probe(e)
  BY <1>7 DEF Probe, Pull, Worked, RecordState, Pulling, Stored, remote,
       bounds, SubState
<1>8. CASE ProbeRedisFails
  BY <1>8 DEF ProbeRedisFails, PullFails, RecordWarning, Pulling, MayFail,
       Broke, remote, RecordState, SubState
<1>9. CASE ProbeHTTPFails
  BY <1>9 DEF ProbeHTTPFails, PullFails, RecordError, Pulling, MayFail, Broke,
       remote
<1>10. CASE Backfill(e)
  BY <1>10 DEF Backfill, SubState, Pull, RecordState, Pulling, Stored, remote,
       bounds
<1>11. CASE BackfillFails(e)
  BY <1>11 DEF BackfillFails, SubState, PullFails, RecordWarning, Pulling,
       MayFail, Broke, remote, RecordState
<1>12. CASE PullNotStored(e)
  BY <1>12 DEF PullNotStored, Pulling, WriteFault, SubState, Close,
       RecordError, LoopTop
<1>13. CASE Receive
  BY <1>13 DEF Receive, RecordState, bounds, SubState, remote
<1>14. CASE StoreFullBatch
  BY <1>14 DEF StoreFullBatch, Stored, RecordState, bounds, SubState, remote
<1>15. CASE WindowEnds
  BY <1>15 DEF WindowEnds, Stored, RecordState, bounds, SubState, remote
<1>16. CASE BatchNotStored
  BY <1>16 DEF BatchNotStored, WriteFault, Close, RecordError
<1>17. CASE Disconnected
  BY <1>17 DEF Disconnected, Close, RecordError, Broke, bounds, remote
<1>18. CASE SkipTorn
  BY <1>18 DEF SkipTorn, bounds, remote
<1>19. CASE Degraded(e)
  BY <1>19 DEF Degraded, SubState, Pull, MarkEstablished, Worked,
       RecordAvailable, Pulling, Stored, remote, bounds
<1>20. CASE DegradedRedisFails
  BY <1>20 DEF DegradedRedisFails, SubState, PullFails, MarkUnavailable,
       RecordWarning, Pulling, MayFail, Broke, remote, RecordState
<1>21. CASE DegradedHTTPFails
  BY <1>21 DEF DegradedHTTPFails, SubState, PullFails, MarkUnavailable,
       RecordError, Pulling, MayFail, Broke, remote
<1>22. CASE RedisActive
  BY <1>22 DEF RedisActive, Pull, RecordAvailable, MarkEstablished, Worked,
       Pulling, Stored, remote, bounds
<1>23. CASE RedisFails
  BY <1>23 DEF RedisFails, PullFails, MarkUnavailable, RecordWarning, Pulling,
       MayFail, Broke, remote, RecordState, SubState
<1>24. CASE HTTPTakesOver
  BY <1>24 DEF HTTPTakesOver, Pull, MarkEstablished, Worked, RecordAvailable,
       Pulling, Stored, remote, bounds
<1>25. CASE TakeOverFails
  BY <1>25 DEF TakeOverFails, PullFails, RecordError, Pulling, MayFail, Broke,
       remote
<1>26. CASE RedisRecovers
  BY <1>26 DEF RedisRecovers, Pull, RecordState, MarkEstablished, Worked,
       Pulling, Stored, remote, bounds, SubState
<1>27. CASE RecoveryFails
  BY <1>27 DEF RecoveryFails, PullFails, RecordWarning, Pulling, MayFail,
       Broke, remote, RecordState, SubState
<1>28. CASE HTTPInstead
  BY <1>28 DEF HTTPInstead, SubState, Pull, MarkEstablished, Worked,
       RecordAvailable, Pulling, Stored, remote, bounds
<1>29. CASE HTTPInsteadFails
  BY <1>29 DEF HTTPInsteadFails, SubState, PullFails, MarkUnavailable,
       RecordError, Pulling, MayFail, Broke, remote
<1>30. CASE HTTPActive
  BY <1>30 DEF HTTPActive, Pull, MarkEstablished, Worked, RecordAvailable,
       Pulling, Stored, remote, bounds
<1>31. CASE HTTPFails
  BY <1>31 DEF HTTPFails, PullFails, MarkUnavailable, RecordError, Pulling,
       MayFail, Broke, remote
<1>32. CASE Crash
  BY <1>32 DEF Crash, Close
<1> QED
  BY <1>1, <1>2, <1>3, <1>4, <1>5, <1>6, <1>7, <1>8, <1>9, <1>10, <1>11,
       <1>12, <1>13, <1>14, <1>15, <1>16, <1>17, <1>18, <1>19, <1>20, <1>21,
       <1>22, <1>23, <1>24, <1>25, <1>26, <1>27, <1>28, <1>29, <1>30, <1>31,
       <1>32 DEF StepOf

\* Every action keeps the other types and an open window clean.
LEMMA TypedNext ==
    ASSUME Typed, WindowClean, NEW e, e \in Entries, StepOf(e)
    PROVE  Typed' /\ WindowClean'
<1> USE DEF Typed, WindowClean, Entries, PCs
<1>1. CASE Publish
  BY <1>1 DEF Publish, bounds, remote
<1>2. CASE Disconnect
  BY <1>2 DEF Disconnect, MayFail
<1>3. CASE GoDown(e)
  BY <1>3 DEF GoDown, bounds, remote
<1>4. CASE RetryDue
  BY <1>4 DEF RetryDue, remote, bounds
<1>5. CASE Subscribe
  BY <1>5 DEF Subscribe, Subscribing, Worked, RecordState, bounds, SubState,
       remote
<1>6. CASE SubscribeFails
  BY <1>6 DEF SubscribeFails, Subscribing, MayFail, Broke, RecordWarning,
       remote, RecordState, SubState
<1>7. CASE Probe(e)
  BY <1>7 DEF Probe, Pull, Worked, RecordState, Pulling, Stored, remote,
       bounds, SubState
<1>8. CASE ProbeRedisFails
  BY <1>8 DEF ProbeRedisFails, PullFails, RecordWarning, Pulling, MayFail,
       Broke, remote, RecordState, SubState
<1>9. CASE ProbeHTTPFails
  BY <1>9 DEF ProbeHTTPFails, PullFails, RecordError, Pulling, MayFail, Broke,
       remote
<1>10. CASE Backfill(e)
  BY <1>10 DEF Backfill, SubState, Pull, RecordState, Pulling, Stored, remote,
       bounds
<1>11. CASE BackfillFails(e)
  BY <1>11 DEF BackfillFails, SubState, PullFails, RecordWarning, Pulling,
       MayFail, Broke, remote, RecordState
<1>12. CASE PullNotStored(e)
  BY <1>12 DEF PullNotStored, Pulling, WriteFault, SubState, Close,
       RecordError, LoopTop
<1>13. CASE Receive
  BY <1>13 DEF Receive, RecordState, bounds, SubState, remote
<1>14. CASE StoreFullBatch
  BY <1>14 DEF StoreFullBatch, Stored, RecordState, bounds, SubState, remote
<1>15. CASE WindowEnds
  BY <1>15 DEF WindowEnds, Stored, RecordState, bounds, SubState, remote
<1>16. CASE BatchNotStored
  BY <1>16 DEF BatchNotStored, WriteFault, Close, RecordError
<1>17. CASE Disconnected
  BY <1>17 DEF Disconnected, Close, RecordError, Broke, bounds, remote
<1>18. CASE SkipTorn
  BY <1>18 DEF SkipTorn, bounds, remote
<1>19. CASE Degraded(e)
  BY <1>19 DEF Degraded, SubState, Pull, MarkEstablished, Worked,
       RecordAvailable, Pulling, Stored, remote, bounds
<1>20. CASE DegradedRedisFails
  BY <1>20 DEF DegradedRedisFails, SubState, PullFails, MarkUnavailable,
       RecordWarning, Pulling, MayFail, Broke, remote, RecordState
<1>21. CASE DegradedHTTPFails
  BY <1>21 DEF DegradedHTTPFails, SubState, PullFails, MarkUnavailable,
       RecordError, Pulling, MayFail, Broke, remote
<1>22. CASE RedisActive
  BY <1>22 DEF RedisActive, Pull, RecordAvailable, MarkEstablished, Worked,
       Pulling, Stored, remote, bounds
<1>23. CASE RedisFails
  BY <1>23 DEF RedisFails, PullFails, MarkUnavailable, RecordWarning, Pulling,
       MayFail, Broke, remote, RecordState, SubState
<1>24. CASE HTTPTakesOver
  BY <1>24 DEF HTTPTakesOver, Pull, MarkEstablished, Worked, RecordAvailable,
       Pulling, Stored, remote, bounds
<1>25. CASE TakeOverFails
  BY <1>25 DEF TakeOverFails, PullFails, RecordError, Pulling, MayFail, Broke,
       remote
<1>26. CASE RedisRecovers
  BY <1>26 DEF RedisRecovers, Pull, RecordState, MarkEstablished, Worked,
       Pulling, Stored, remote, bounds, SubState
<1>27. CASE RecoveryFails
  BY <1>27 DEF RecoveryFails, PullFails, RecordWarning, Pulling, MayFail,
       Broke, remote, RecordState, SubState
<1>28. CASE HTTPInstead
  BY <1>28 DEF HTTPInstead, SubState, Pull, MarkEstablished, Worked,
       RecordAvailable, Pulling, Stored, remote, bounds
<1>29. CASE HTTPInsteadFails
  BY <1>29 DEF HTTPInsteadFails, SubState, PullFails, MarkUnavailable,
       RecordError, Pulling, MayFail, Broke, remote
<1>30. CASE HTTPActive
  BY <1>30 DEF HTTPActive, Pull, MarkEstablished, Worked, RecordAvailable,
       Pulling, Stored, remote, bounds
<1>31. CASE HTTPFails
  BY <1>31 DEF HTTPFails, PullFails, MarkUnavailable, RecordError, Pulling,
       MayFail, Broke, remote
<1>32. CASE Crash
  BY <1>32 DEF Crash, Close
<1> QED
  BY <1>1, <1>2, <1>3, <1>4, <1>5, <1>6, <1>7, <1>8, <1>9, <1>10, <1>11,
       <1>12, <1>13, <1>14, <1>15, <1>16, <1>17, <1>18, <1>19, <1>20, <1>21,
       <1>22, <1>23, <1>24, <1>25, <1>26, <1>27, <1>28, <1>29, <1>30, <1>31,
       <1>32 DEF StepOf

\* Every action keeps source, working entry and status fitting to each other.
LEMMA RoutedNext ==
    ASSUME Flags, Typed, Routed, NEW e, e \in Entries, StepOf(e)
    PROVE  Routed'
<1> USE DEF Routed, SourceFits, WorkingFits, NoStaleError, ConnectionAnnounced, Flags,
            Typed, Entries, PCs, Healthy, SubState
<1>1. CASE Publish
  BY <1>1 DEF Publish, bounds, remote
<1>2. CASE Disconnect
  BY <1>2 DEF Disconnect, MayFail
<1>3. CASE GoDown(e)
  BY <1>3 DEF GoDown, bounds, remote
<1>4. CASE RetryDue
  BY <1>4 DEF RetryDue, remote, bounds
<1>5. CASE Subscribe
  BY <1>5 DEF Subscribe, Subscribing, Worked, RecordState, bounds, remote
<1>6. CASE SubscribeFails
  BY <1>6 DEF SubscribeFails, Subscribing, MayFail, Broke, RecordWarning,
       remote, RecordState
<1>7. CASE Probe(e)
  BY <1>7 DEF Probe, Pull, Worked, RecordState, Pulling, Stored, remote,
       bounds
<1>8. CASE ProbeRedisFails
  BY <1>8 DEF ProbeRedisFails, PullFails, RecordWarning, Pulling, MayFail,
       Broke, remote, RecordState
<1>9. CASE ProbeHTTPFails
  BY <1>9 DEF ProbeHTTPFails, PullFails, RecordError, Pulling, MayFail, Broke,
       remote
<1>10. CASE Backfill(e)
  BY <1>10 DEF Backfill, Pull, RecordState, Pulling, Stored, remote, bounds
<1>11. CASE BackfillFails(e)
  BY <1>11 DEF BackfillFails, PullFails, RecordWarning, Pulling, MayFail,
       Broke, remote, RecordState
<1>12. CASE PullNotStored(e)
  <2>1. working' = "none" /\ UNCHANGED <<source, announced>> /\ pc' = LoopTop
    BY <1>12 DEF PullNotStored, RecordError
  <2>2. NoStaleError' /\ ConnectionAnnounced' /\ WorkingFits'
    BY <2>1
  <2>3. SourceFits'
    <3>1. CASE SubState(pc) \in {"starting", "backfill"}
      BY <2>1, <3>1 DEF LoopTop
    <3>2. CASE pc \in {"degraded", "degradedRedis", "degradedHTTP"}
      <4>1. pc' = "degraded"
        BY <2>1, <3>2 DEF LoopTop
      <4> QED BY <2>1, <4>1
    <3>3. CASE pc = "redis"
      <4>1. pc' = "redis"
        BY <2>1, <3>3 DEF LoopTop
      <4> QED BY <2>1, <3>3, <4>1
    <3>4. CASE pc = "redisHTTP"
      <4>1. pc' = "redis"
        BY <2>1, <3>4 DEF LoopTop
      <4> QED BY <2>1, <3>4, <4>1
    <3>5. CASE pc \in {"recover", "recoverHTTP"}
      <4>1. pc' = "recover"
        BY <2>1, <3>5 DEF LoopTop
      <4> QED BY <2>1, <3>5, <4>1
    <3>6. CASE pc = "http"
      <4>1. pc' = "http"
        BY <2>1, <3>6 DEF LoopTop
      <4> QED BY <2>1, <4>1
    <3>7. pc \notin {"receive", "window"}
      BY <1>12 DEF PullNotStored, Pulling
    <3> QED BY <3>1, <3>2, <3>3, <3>4, <3>5, <3>6, <3>7
  <2> QED BY <2>2, <2>3
<1>13. CASE Receive
  BY <1>13 DEF Receive, RecordState, bounds, remote
<1>14. CASE StoreFullBatch
  BY <1>14 DEF StoreFullBatch, Stored, RecordState, bounds, remote
<1>15. CASE WindowEnds
  BY <1>15 DEF WindowEnds, Stored, RecordState, bounds, remote
<1>16. CASE BatchNotStored
  BY <1>16 DEF BatchNotStored, WriteFault, Close, RecordError
<1>17. CASE Disconnected
  BY <1>17 DEF Disconnected, Close, RecordError, Broke, bounds, remote
<1>18. CASE SkipTorn
  BY <1>18 DEF SkipTorn, bounds, remote
<1>19. CASE Degraded(e)
  BY <1>19 DEF Degraded, Pull, MarkEstablished, Worked, RecordAvailable,
       Pulling, Stored, remote, bounds
<1>20. CASE DegradedRedisFails
  BY <1>20 DEF DegradedRedisFails, PullFails, MarkUnavailable, RecordWarning,
       Pulling, MayFail, Broke, remote, RecordState
<1>21. CASE DegradedHTTPFails
  BY <1>21 DEF DegradedHTTPFails, PullFails, MarkUnavailable, RecordError,
       Pulling, MayFail, Broke, remote
<1>22. CASE RedisActive
  BY <1>22 DEF RedisActive, Pull, RecordAvailable, MarkEstablished, Worked,
       Pulling, Stored, remote, bounds
<1>23. CASE RedisFails
  BY <1>23 DEF RedisFails, PullFails, MarkUnavailable, RecordWarning, Pulling,
       MayFail, Broke, remote, RecordState
<1>24. CASE HTTPTakesOver
  BY <1>24 DEF HTTPTakesOver, Pull, MarkEstablished, Worked, RecordAvailable,
       Pulling, Stored, remote, bounds
<1>25. CASE TakeOverFails
  BY <1>25 DEF TakeOverFails, PullFails, RecordError, Pulling, MayFail, Broke,
       remote
<1>26. CASE RedisRecovers
  BY <1>26 DEF RedisRecovers, Pull, RecordState, MarkEstablished, Worked,
       Pulling, Stored, remote, bounds
<1>27. CASE RecoveryFails
  BY <1>27 DEF RecoveryFails, PullFails, RecordWarning, Pulling, MayFail,
       Broke, remote, RecordState
<1>28. CASE HTTPInstead
  BY <1>28 DEF HTTPInstead, Pull, MarkEstablished, Worked, RecordAvailable,
       Pulling, Stored, remote, bounds
<1>29. CASE HTTPInsteadFails
  BY <1>29 DEF HTTPInsteadFails, PullFails, MarkUnavailable, RecordError,
       Pulling, MayFail, Broke, remote
<1>30. CASE HTTPActive
  BY <1>30 DEF HTTPActive, Pull, MarkEstablished, Worked, RecordAvailable,
       Pulling, Stored, remote, bounds
<1>31. CASE HTTPFails
  BY <1>31 DEF HTTPFails, PullFails, MarkUnavailable, RecordError, Pulling,
       MayFail, Broke, remote
<1>32. CASE Crash
  BY <1>32 DEF Crash, Close
<1> QED
  BY <1>1, <1>2, <1>3, <1>4, <1>5, <1>6, <1>7, <1>8, <1>9, <1>10, <1>11,
       <1>12, <1>13, <1>14, <1>15, <1>16, <1>17, <1>18, <1>19, <1>20, <1>21,
       <1>22, <1>23, <1>24, <1>25, <1>26, <1>27, <1>28, <1>29, <1>30, <1>31,
       <1>32 DEF StepOf

\* Whatever is lost besides a torn message leaves the scheduler polling.
LEMMA LossNext ==
    ASSUME NEW e, e \in Entries, StepOf(e)
    PROVE  lost' \subseteq lost \cup torn \/ polling'
<1>1. CASE Publish
  BY <1>1 DEF Publish, bounds, remote
<1>2. CASE Disconnect
  BY <1>2 DEF Disconnect, MayFail
<1>3. CASE GoDown(e)
  BY <1>3 DEF GoDown, bounds, remote
<1>4. CASE RetryDue
  BY <1>4 DEF RetryDue, remote, bounds
<1>5. CASE Subscribe
  BY <1>5 DEF Subscribe, Subscribing, Worked, RecordState, bounds, SubState,
       remote
<1>6. CASE SubscribeFails
  BY <1>6 DEF SubscribeFails, Subscribing, MayFail, Broke, RecordWarning,
       remote, RecordState, SubState
<1>7. CASE Probe(e)
  BY <1>7 DEF Probe, Pull, Worked, RecordState, Pulling, Stored, remote,
       bounds, SubState
<1>8. CASE ProbeRedisFails
  BY <1>8 DEF ProbeRedisFails, PullFails, RecordWarning, Pulling, MayFail,
       Broke, remote, RecordState, SubState
<1>9. CASE ProbeHTTPFails
  BY <1>9 DEF ProbeHTTPFails, PullFails, RecordError, Pulling, MayFail, Broke,
       remote
<1>10. CASE Backfill(e)
  BY <1>10 DEF Backfill, SubState, Pull, RecordState, Pulling, Stored, remote,
       bounds
<1>11. CASE BackfillFails(e)
  BY <1>11 DEF BackfillFails, SubState, PullFails, RecordWarning, Pulling,
       MayFail, Broke, remote, RecordState
<1>12. CASE PullNotStored(e)
  BY <1>12 DEF PullNotStored, Pulling, WriteFault, SubState, Close,
       RecordError, LoopTop
<1>13. CASE Receive
  BY <1>13 DEF Receive, RecordState, bounds, SubState, remote
<1>14. CASE StoreFullBatch
  BY <1>14 DEF StoreFullBatch, Stored, RecordState, bounds, SubState, remote
<1>15. CASE WindowEnds
  BY <1>15 DEF WindowEnds, Stored, RecordState, bounds, SubState, remote
<1>16. CASE BatchNotStored
  BY <1>16 DEF BatchNotStored, WriteFault, Close, RecordError
<1>17. CASE Disconnected
  BY <1>17 DEF Disconnected, Close, RecordError, Broke, bounds, remote
<1>18. CASE SkipTorn
  BY <1>18 DEF SkipTorn, bounds, remote
<1>19. CASE Degraded(e)
  BY <1>19 DEF Degraded, SubState, Pull, MarkEstablished, Worked,
       RecordAvailable, Pulling, Stored, remote, bounds
<1>20. CASE DegradedRedisFails
  BY <1>20 DEF DegradedRedisFails, SubState, PullFails, MarkUnavailable,
       RecordWarning, Pulling, MayFail, Broke, remote, RecordState
<1>21. CASE DegradedHTTPFails
  BY <1>21 DEF DegradedHTTPFails, SubState, PullFails, MarkUnavailable,
       RecordError, Pulling, MayFail, Broke, remote
<1>22. CASE RedisActive
  BY <1>22 DEF RedisActive, Pull, RecordAvailable, MarkEstablished, Worked,
       Pulling, Stored, remote, bounds
<1>23. CASE RedisFails
  BY <1>23 DEF RedisFails, PullFails, MarkUnavailable, RecordWarning, Pulling,
       MayFail, Broke, remote, RecordState, SubState
<1>24. CASE HTTPTakesOver
  BY <1>24 DEF HTTPTakesOver, Pull, MarkEstablished, Worked, RecordAvailable,
       Pulling, Stored, remote, bounds
<1>25. CASE TakeOverFails
  BY <1>25 DEF TakeOverFails, PullFails, RecordError, Pulling, MayFail, Broke,
       remote
<1>26. CASE RedisRecovers
  BY <1>26 DEF RedisRecovers, Pull, RecordState, MarkEstablished, Worked,
       Pulling, Stored, remote, bounds, SubState
<1>27. CASE RecoveryFails
  BY <1>27 DEF RecoveryFails, PullFails, RecordWarning, Pulling, MayFail,
       Broke, remote, RecordState, SubState
<1>28. CASE HTTPInstead
  BY <1>28 DEF HTTPInstead, SubState, Pull, MarkEstablished, Worked,
       RecordAvailable, Pulling, Stored, remote, bounds
<1>29. CASE HTTPInsteadFails
  BY <1>29 DEF HTTPInsteadFails, SubState, PullFails, MarkUnavailable,
       RecordError, Pulling, MayFail, Broke, remote
<1>30. CASE HTTPActive
  BY <1>30 DEF HTTPActive, Pull, MarkEstablished, Worked, RecordAvailable,
       Pulling, Stored, remote, bounds
<1>31. CASE HTTPFails
  BY <1>31 DEF HTTPFails, PullFails, MarkUnavailable, RecordError, Pulling,
       MayFail, Broke, remote
<1>32. CASE Crash
  BY <1>32 DEF Crash, Close
<1> QED
  BY <1>1, <1>2, <1>3, <1>4, <1>5, <1>6, <1>7, <1>8, <1>9, <1>10, <1>11,
       <1>12, <1>13, <1>14, <1>15, <1>16, <1>17, <1>18, <1>19, <1>20, <1>21,
       <1>22, <1>23, <1>24, <1>25, <1>26, <1>27, <1>28, <1>29, <1>30, <1>31,
       <1>32 DEF StepOf

-----------------------------------------------------------------------------
(* The inductive invariant and the theorems.                               *)

IngestInv == TypeOK /\ Accounted /\ WindowClean /\ Routed

\* The runner starts in the invariant.
LEMMA InvInit == Init => IngestInv
<1> SUFFICES ASSUME Init PROVE IngestInv
    OBVIOUS
<1>1. /\ published \in 0..MaxMessages
      /\ 1..published = {}
  BY IngestAssumption DEF IngestAssumption, Init
<1>2. Accounted /\ WindowClean
  BY <1>1 DEF Init, Accounted, WindowClean
<1>3. Flags
  BY Zenon DEF Init, Flags
<1>4. Typed
  BY DEF Init, Typed, PCs, Entries
<1>5. Routed
  BY DEF Init, Routed, SourceFits, WorkingFits, NoStaleError, ConnectionAnnounced, SubState
<1>6. TypeOK
  BY <1>1, <1>2, <1>3, <1>4, AccountedIsTyped DEF TypeOK, Flags, Typed
<1> QED BY <1>2, <1>5, <1>6 DEF IngestInv

\* Every step of the runner is a step about some entry.
LEMMA NextIsStep == Next => \E e \in Entries : StepOf(e)
<1> SUFFICES ASSUME Next PROVE \E e \in Entries : StepOf(e)
    OBVIOUS
<1>1. CASE \E e \in Entries : GoDown(e)
  BY <1>1 DEF StepOf
<1>2. CASE \E e \in {"redis", "http"} :
             Probe(e) \/ Backfill(e) \/ BackfillFails(e) \/ Degraded(e) \/ PullNotStored(e)
  BY <1>2 DEF StepOf, Entries
<1>3. "http" \in Entries
  BY DEF Entries
<1> QED BY <1>1, <1>2, <1>3 DEF Next, Runner, StepOf

\* Every step keeps each message accounted for.
LEMMA AccountedNext ==
    ASSUME TypeOK, Accounted, WindowClean, NEW e, e \in Entries, StepOf(e)
    PROVE  Accounted'
<1>1. CASE Publish
  BY <1>1, PublishAccounted
<1>2. CASE Disconnect \/ GoDown(e) \/ RetryDue \/ Subscribe \/ SubscribeFails
  BY <1>2, NothingMoves
<1>3. CASE \/ Receive \/ StoreFullBatch \/ WindowEnds \/ BatchNotStored \/ Disconnected
           \/ SkipTorn \/ Crash
  BY <1>3, SubscriptionAccounted
<1>4. CASE \/ Probe(e) \/ Backfill(e) \/ Degraded(e) \/ RedisActive \/ HTTPTakesOver
           \/ RedisRecovers \/ HTTPInstead \/ HTTPActive
  <2>1. Pull(e) \/ Pull("redis") \/ Pull("http")
    BY <1>4 DEF Probe, Backfill, Degraded, RedisActive, HTTPTakesOver, RedisRecovers,
                HTTPInstead, HTTPActive
  <2> QED BY <2>1, PullAccounted
<1>5. CASE \/ ProbeRedisFails \/ ProbeHTTPFails \/ BackfillFails(e) \/ DegradedRedisFails
           \/ DegradedHTTPFails \/ RedisFails \/ TakeOverFails \/ RecoveryFails
           \/ HTTPInsteadFails \/ HTTPFails
  <2>1. PullFails(e) \/ PullFails("redis") \/ PullFails("http")
    BY <1>5 DEF ProbeRedisFails, ProbeHTTPFails, BackfillFails, DegradedRedisFails,
                DegradedHTTPFails, RedisFails, TakeOverFails, RecoveryFails,
                HTTPInsteadFails, HTTPFails
  <2> QED BY <2>1, PullAccounted
<1>6. CASE PullNotStored(e)
  BY <1>6, PullAccounted
<1> QED BY <1>1, <1>2, <1>3, <1>4, <1>5, <1>6 DEF StepOf

\* Only publishing changes the number of messages.
LEMMA OnlyPublish ==
    ASSUME NEW e, e \in Entries, StepOf(e), ~Publish PROVE published' = published
BY DEF StepOf, Disconnect, GoDown, bounds, remote, RetryDue,
       Subscribe, SubscribeFails, Probe, Pull, ProbeRedisFails, PullFails,
       ProbeHTTPFails, Backfill, BackfillFails, PullNotStored, Close, Receive,
       StoreFullBatch, WindowEnds, BatchNotStored, Disconnected, SkipTorn,
       Degraded, DegradedRedisFails, DegradedHTTPFails, RedisActive,
       RedisFails, HTTPTakesOver, TakeOverFails, RedisRecovers, RecoveryFails,
       HTTPInstead, HTTPInsteadFails, HTTPActive, HTTPFails, Crash

\* The number of messages keeps its type.
LEMMA PublishedTyped ==
    ASSUME TypeOK, NEW e, e \in Entries, StepOf(e)
    PROVE  published' \in 0..MaxMessages
<1>1. CASE Publish
  BY <1>1, IngestAssumption DEF Publish, TypeOK, IngestAssumption
<1>2. CASE ~Publish
  BY <1>2, OnlyPublish DEF TypeOK
<1> QED BY <1>1, <1>2

\* Every step keeps the invariant.
LEMMA InvNext == IngestInv /\ [Next]_vars => IngestInv'
<1> SUFFICES ASSUME IngestInv, [Next]_vars
             PROVE  IngestInv'
    OBVIOUS
<1>1. CASE Next
  <2>1. PICK e \in Entries : StepOf(e)
    BY <1>1, NextIsStep
  <2>2. Flags /\ Typed
    BY DEF IngestInv, TypeOK, Flags, Typed
  <2>3. TypeOK /\ Accounted /\ WindowClean /\ Routed
    BY DEF IngestInv
  <2>4. Accounted'
    BY <2>1, <2>3, AccountedNext
  <2>5. Flags'
    BY <2>1, <2>2, FlagsNext
  <2>6. Typed' /\ WindowClean'
    BY <2>1, <2>2, <2>3, TypedNext
  <2>7. Routed'
    BY <2>1, <2>2, <2>3, RoutedNext
  <2>8. published' \in 0..MaxMessages
    BY <2>1, <2>3, PublishedTyped
  <2>9. (\A S \in {queue, stream, torn, hand, inbox, lost} : S \subseteq 1..published)'
    BY <2>4, AccountedIsTyped, PTL
  <2>10. TypeOK'
    BY <2>5, <2>6, <2>8, <2>9 DEF TypeOK, Flags, Typed
  <2> QED BY <2>4, <2>6, <2>7, <2>10 DEF IngestInv
<1>2. CASE UNCHANGED vars
  <2>1. UNCHANGED <<published, open, stream, torn, hand, down, queue, inbox, lost, pc, err,
                    source, due, polling, announced, working, failed, skipped, faults,
                    writeFaults, crashes>>
    BY <1>2 DEF vars, remote, bounds
  <2>2. TypeOK' /\ Accounted' /\ WindowClean'
    BY <2>1 DEF IngestInv, TypeOK, Accounted, WindowClean
  <2>3. Routed'
    BY <2>1 DEF IngestInv, Routed, SourceFits, WorkingFits, NoStaleError,
                ConnectionAnnounced, SubState
  <2> QED BY <2>2, <2>3 DEF IngestInv
<1> QED BY <1>1, <1>2

\* The invariant holds of every behaviour.
LEMMA InvHolds == Spec => []IngestInv
BY InvInit, InvNext, PTL DEF Spec

\* Every variable of the ingest runner keeps its type (RedisIngestRunner).
THEOREM TypeCorrect == Spec => []TypeOK
<1>1. IngestInv => TypeOK
  BY DEF IngestInv
<1> QED BY <1>1, InvHolds, PTL

\* No message is forgotten or stored twice, whatever mode, fallback, failure
\* or kill it meets: it is in one place, or counted as lost.
THEOREM EveryMessageAccounted == Spec => []Accounted
<1>1. IngestInv => Accounted
  BY DEF IngestInv
<1> QED BY <1>1, InvHolds, PTL

\* The status shows no error while messages come through an entry
\* (recordState, recordAvailable).
THEOREM StatusIsFresh == Spec => []NoStaleError
<1>1. IngestInv => NoStaleError
  BY DEF IngestInv, Routed
<1> QED BY <1>1, InvHolds, PTL

\* The entry in use was announced after its last failure
\* (markConnectionEstablished, markConnectionUnavailable).
THEOREM UsedMeansAnnounced == Spec => []ConnectionAnnounced
<1>1. IngestInv => ConnectionAnnounced
  BY DEF IngestInv, Routed
<1> QED BY <1>1, InvHolds, PTL

\* A loss that is not a torn message sends the metadata scheduler to polling
\* (recordFailure).
THEOREM LossIsNoticed == Spec => LossMeansPolling
<1>1. [Next]_vars => [lost' \subseteq lost \cup torn \/ polling']_vars
  <2> SUFFICES ASSUME Next PROVE lost' \subseteq lost \cup torn \/ polling'
      OBVIOUS
  <2>1. PICK e \in Entries : StepOf(e)
    BY NextIsStep
  <2> QED BY <2>1, LossNext
<1> QED BY <1>1, PTL DEF Spec, LossMeansPolling

-----------------------------------------------------------------------------
(* The runner with the scheduler's promise. A change that no synchronisation *)
(* has seen can be gone only where that is noticed: a synchronisation is     *)
(* asked for, or the next entry that works is a new connection, which asks   *)
(* for one. The polling is not needed for it.                                *)

Fetchable == queue \cup stream \cup torn \cup hand

GoneIsNoticed ==
    \/ asked \/ ~activated \/ Connection = "none"
    \/ unseen \ overlooked \subseteq Fetchable

UnseenFits == unseen \subseteq changes \cap 1..published /\ overlooked \subseteq unseen

\* What messages come by has been announced, and has not failed since.
ConnectionWorks ==
    /\ announced \notin failed
    /\ SubState(pc) \in {"backfill", "receiving"} => announced = "subscribe"

FreshnessInv == IngestInv /\ ConnectionWorks /\ UnseenFits /\ GoneIsNoticed

\* An entry that is announced works, until it breaks.
LEMMA AnnouncedWorksNext ==
    ASSUME announced \notin failed, failed \subseteq Entries, NEW e \in Entries, StepOf(e)
    PROVE  (announced \notin failed)'
<1> USE DEF Entries
<1>1. ASSUME NEW x \in Entries, Broke(x) PROVE announced' \notin failed'
  BY <1>1 DEF Broke
<1>2. ASSUME NEW x \in Entries, Worked(x), announced' \in {announced, x}
      PROVE  announced' \notin failed'
  BY <1>2 DEF Worked
<1>3. CASE \/ Publish \/ Disconnect \/ GoDown(e) \/ RetryDue \/ Backfill(e) \/ Receive
           \/ StoreFullBatch \/ WindowEnds \/ BatchNotStored \/ SkipTorn \/ PullNotStored(e)
  <2>1. announced' = announced /\ failed' \subseteq failed
    BY <1>3 DEF Publish, Disconnect, GoDown, RetryDue, Backfill, Receive, StoreFullBatch,
                WindowEnds, BatchNotStored, SkipTorn, PullNotStored
  <2> QED BY <2>1
<1>4. CASE SubscribeFails \/ Disconnected
  BY <1>1, <1>4 DEF SubscribeFails, Disconnected
<1>5. CASE \/ ProbeRedisFails \/ ProbeHTTPFails \/ BackfillFails(e) \/ DegradedRedisFails
           \/ DegradedHTTPFails \/ RedisFails \/ TakeOverFails \/ RecoveryFails
           \/ HTTPInsteadFails \/ HTTPFails
  <2>1. PullFails(e) \/ PullFails("redis") \/ PullFails("http")
    BY <1>5, Zenon DEF ProbeRedisFails, ProbeHTTPFails, BackfillFails, DegradedRedisFails,
                DegradedHTTPFails, RedisFails, TakeOverFails, RecoveryFails,
                HTTPInsteadFails, HTTPFails
  <2> QED BY <1>1, <2>1 DEF PullFails
<1>6. CASE \/ Subscribe \/ Probe(e) \/ Degraded(e) \/ RedisActive \/ HTTPTakesOver
           \/ RedisRecovers \/ HTTPInstead \/ HTTPActive
  <2>1. \E x \in Entries : Worked(x) /\ announced' \in {announced, x}
    BY <1>6 DEF Subscribe, Probe, Degraded, RedisActive, HTTPTakesOver, RedisRecovers,
                HTTPInstead, HTTPActive, MarkEstablished
  <2> QED BY <1>2, <2>1
<1>7. CASE Crash
  BY <1>7 DEF Crash
<1> QED BY <1>3, <1>4, <1>5, <1>6, <1>7 DEF StepOf

\* Only subscribing opens a subscription, and no other step begins to back-fill
\* or to receive.
LEMMA SubscribedNext ==
    ASSUME Typed, ConnectionWorks, NEW e \in Entries, StepOf(e), ~Subscribe
    PROVE  /\ open' => open
           /\ SubState(pc)' \in {"backfill", "receiving"} =>
                  SubState(pc) \in {"backfill", "receiving"} /\ announced' = "subscribe"
<1> DEFINE Reading == SubState(pc) \in {"backfill", "receiving"}
<1>1. CASE \/ Publish \/ Disconnect \/ GoDown(e) \/ RetryDue \/ Receive \/ StoreFullBatch
           \/ WindowEnds \/ SkipTorn
  <2>1. open' => open
    BY <1>1, Zenon DEF Publish, Disconnect, GoDown, RetryDue, Receive, StoreFullBatch,
                       WindowEnds, SkipTorn, remote
  <2>2. announced' = announced /\ (Reading' => Reading)
    BY <1>1 DEF Publish, Disconnect, GoDown, RetryDue, Receive, StoreFullBatch, WindowEnds,
                SkipTorn, RecordState, SubState
  <2> QED BY <2>1, <2>2 DEF ConnectionWorks
<1>2. CASE \/ Probe(e) \/ Degraded(e) \/ RedisActive \/ HTTPTakesOver \/ RedisRecovers
           \/ HTTPInstead \/ HTTPActive
  <2>1. open' => open
    BY <1>2, Zenon DEF Probe, Degraded, RedisActive, HTTPTakesOver, RedisRecovers,
                       HTTPInstead, HTTPActive, Pull, remote
  <2>2. ~Reading'
    BY <1>2 DEF Probe, Degraded, RedisActive, HTTPTakesOver, RedisRecovers, HTTPInstead,
                HTTPActive, RecordState, RecordAvailable, SubState, Pull, Pulling
  <2> QED BY <2>1, <2>2
<1>3. CASE \/ ProbeRedisFails \/ ProbeHTTPFails \/ DegradedRedisFails \/ DegradedHTTPFails
           \/ RedisFails \/ TakeOverFails \/ RecoveryFails \/ HTTPInsteadFails \/ HTTPFails
           \/ SubscribeFails
  <2>1. open' => open
    BY <1>3, Zenon DEF ProbeRedisFails, ProbeHTTPFails, DegradedRedisFails,
                DegradedHTTPFails, RedisFails, TakeOverFails, RecoveryFails,
                HTTPInsteadFails, HTTPFails, SubscribeFails, PullFails, remote
  <2>2. ~Reading'
    BY <1>3 DEF ProbeRedisFails, ProbeHTTPFails, DegradedRedisFails, DegradedHTTPFails,
                RedisFails, TakeOverFails, RecoveryFails, HTTPInsteadFails, HTTPFails,
                SubscribeFails, RecordWarning, RecordError, RecordState, SubState
  <2> QED BY <2>1, <2>2
<1>4. CASE Backfill(e)
  <2>1. open' => open
    BY <1>4, Zenon DEF Backfill, Pull, remote
  <2>2. announced' = announced /\ Reading
    BY <1>4 DEF Backfill
  <2> QED BY <2>1, <2>2 DEF ConnectionWorks
<1>5. CASE BackfillFails(e)
  <2>1. open' => open
    BY <1>5, Zenon DEF BackfillFails, PullFails, remote
  <2>2. Reading /\ e # "subscribe"
    BY <1>5 DEF BackfillFails, PullFails, Pulling
  <2>3. announced' = "subscribe"
    BY <1>5, <2>2 DEF BackfillFails, PullFails, Broke, ConnectionWorks
  <2> QED BY <2>1, <2>2, <2>3
<1>6. CASE PullNotStored(e)
  <2>1. open' => open
    BY <1>6, Zenon DEF PullNotStored, Close
  <2>2. ~Reading'
    BY <1>6 DEF PullNotStored, RecordError, LoopTop, SubState
  <2> QED BY <2>1, <2>2
<1>7. CASE BatchNotStored \/ Disconnected \/ Crash
  BY <1>7 DEF BatchNotStored, Disconnected, Crash, Close, RecordError, SubState
<1> QED BY <1>1, <1>2, <1>3, <1>4, <1>5, <1>6, <1>7, Zenon DEF StepOf

\* Only publishing changes the number of messages, and takes none out.
LEMMA PublishedGrows ==
    ASSUME TypeOK, Accounted, NEW e \in Entries, StepOf(e)
    PROVE  \/ published' = published
           \/ /\ published' = published + 1
              /\ UNCHANGED <<inbox, lost>>
<1>1. CASE Publish
  BY <1>1 DEF Publish
<1>2. CASE ~Publish
  BY <1>2, OnlyPublish
<1> QED BY <1>1, <1>2

\* Subscribing opens, and begins the back-fill through Redis.
LEMMA SubscribeConnects ==
    ASSUME Subscribe
    PROVE  /\ pc' = "backfillRedis" /\ announced' = "subscribe"
           /\ SubState(pc) \notin {"backfill", "receiving"}
BY DEF Subscribe, Subscribing, RecordState, SubState

\* Every step keeps what messages come by announced and free of failures.
LEMMA ConnectionWorksNext ==
    ASSUME Typed, ConnectionWorks, NEW e \in Entries, StepOf(e) PROVE ConnectionWorks'
<1>1. (announced \notin failed)'
  BY AnnouncedWorksNext DEF Typed, ConnectionWorks
<1>2. SubState(pc)' \in {"backfill", "receiving"} => announced' = "subscribe"
  BY SubscribedNext, SubscribeConnects
<1> QED BY <1>1, <1>2 DEF ConnectionWorks

\* A connection that did not exist before the step is a new one.
LEMMA ConnectionNext ==
    ASSUME Typed, SourceFits, ConnectionWorks, NEW e \in Entries, StepOf(e),
           ~Connected, Connection' # "none"
    PROVE  Connection' = Connection
<1>1. ~Subscribe
  BY SubscribeConnects DEF Connected
<1>2. CASE SubState(pc)' \in {"backfill", "receiving"}
  <2>1. open' /\ Connection' = "subscribe"
    BY <1>2 DEF Connection
  <2>2. open /\ SubState(pc) \in {"backfill", "receiving"}
    BY <1>1, <1>2, <2>1, SubscribedNext
  <2> QED BY <2>1, <2>2 DEF Connection
<1>3. CASE SubState(pc)' \notin {"backfill", "receiving"}
  <2>1. Connection' = source' /\ source' = source
    BY <1>3 DEF Connection, Connected
  <2>2. SubState(pc) \notin {"backfill", "receiving"}
    BY <2>1 DEF SourceFits
  <2> QED BY <2>1, <2>2 DEF Connection
<1> QED BY <1>2, <1>3

\* What messages come by has not failed.
LEMMA ConnectionHasNotFailed ==
    ASSUME SourceFits, ConnectionWorks, Connection # "none" PROVE Connection \notin failed
BY DEF SourceFits, ConnectionWorks, Connection

-----------------------------------------------------------------------------
(* The steps of the two together.                                          *)

\* A new change is announced by a message that was just published.
LEMMA UnseenNext == FreshnessInv /\ IngestInv' /\ IngestStep => UnseenFits'
<1> SUFFICES ASSUME FreshnessInv, IngestInv', IngestStep PROVE UnseenFits'
    OBVIOUS
<1>1. PICK e \in Entries : StepOf(e)
  BY NextIsStep DEF IngestStep
<1>2. published' = published \/ published' = published + 1
  BY <1>1, PublishedGrows DEF FreshnessInv, IngestInv
<1>3. published \in Nat /\ 1..published \subseteq 1..published'
  BY <1>2, IngestAssumption DEF FreshnessInv, IngestInv, TypeOK, IngestAssumption
<1>4. PICK announcing \in SUBSET (published + 1 .. published') :
          changes' = changes \cup announcing /\ unseen' = unseen \cup announcing
  BY DEF IngestStep
<1>5. announcing \subseteq 1..published'
  BY <1>3
<1>6. overlooked' \subseteq overlooked \cup unseen
  BY DEF IngestStep
<1> QED BY <1>3, <1>4, <1>5, <1>6 DEF FreshnessInv, UnseenFits

\* A message that can no longer be fetched was given to the writer or lost.
LEMMA FetchedNext ==
    ASSUME IngestInv, IngestInv', NEW e \in Entries, StepOf(e)
    PROVE  \A m \in 1..published' :
               \/ m \in Fetchable'
               \/ m \in (inbox' \ inbox) \cup (lost' \ lost)
               \/ m \in 1..published /\ m \notin Fetchable
<1>1. Accounted /\ Accounted'
  BY DEF IngestInv
<1>2. CASE published' = published
  BY <1>1, <1>2 DEF Accounted, Fetchable
<1>3. CASE published' = published + 1 /\ UNCHANGED <<inbox, lost>>
  BY <1>1, <1>3 DEF Accounted, Fetchable
<1> QED BY <1>2, <1>3, PublishedGrows DEF IngestInv

\* A message that was just published can be fetched.
LEMMA NewIsFetchable ==
    ASSUME IngestInv, IngestInv', NEW e \in Entries, StepOf(e),
           NEW m \in published + 1 .. published'
    PROVE  m \in Fetchable'
<1>1. Accounted /\ Accounted' /\ published \in Nat
  BY IngestAssumption DEF IngestInv, TypeOK, IngestAssumption
<1>2. m \in 1..published' /\ m \notin 1..published
  BY <1>1, PublishedGrows DEF IngestInv
<1>3. published' # published
  BY <1>1
<1>4. UNCHANGED <<inbox, lost>>
  BY <1>3, PublishedGrows DEF IngestInv
<1> QED BY <1>1, <1>2, <1>4 DEF Accounted, Fetchable

\* No step of the runner makes a change unnoticed.
LEMMA GoneNext ==
    FreshnessInv /\ IngestInv' /\ ConnectionWorks' /\ UnseenFits' /\ IngestStep
        => GoneIsNoticed'
<1> SUFFICES ASSUME FreshnessInv, IngestInv', ConnectionWorks', UnseenFits', IngestStep
             PROVE  GoneIsNoticed'
    OBVIOUS
<1>1. PICK e \in Entries : StepOf(e)
  BY NextIsStep DEF IngestStep
<1>2. /\ activated' = (~Killed /\ (activated \/ Connected))
      /\ asked' = (~Killed /\ (asked \/ Connected \/ (Requested /\ activated)))
  BY Zenon DEF IngestStep
<1>3. CASE Killed
  <2>1. ~activated'
    BY <1>2, <1>3, Zenon
  <2> QED BY <2>1, Zenon DEF GoneIsNoticed
<1>4. CASE ~Killed /\ Connected
  <2>1. asked'
    BY <1>2, <1>4, Zenon
  <2> QED BY <2>1, Zenon DEF GoneIsNoticed
<1>5. CASE ~Killed /\ ~Connected /\ (asked \/ ~activated \/ Requested)
  <2>1. asked' \/ ~activated'
    BY <1>2, <1>5, Zenon
  <2> QED BY <2>1, Zenon DEF GoneIsNoticed
<1>6. CASE Connection' = "none"
  BY <1>6, Zenon DEF GoneIsNoticed
<1>7. ASSUME ~Connected, ~(asked \/ ~activated \/ Requested), Connection' # "none"
      PROVE  GoneIsNoticed'
  <2>1. Connection' = Connection
    BY <1>1, <1>7, ConnectionNext DEF FreshnessInv, IngestInv, TypeOK, Typed, Routed
  <2>2. (Connection \notin failed)'
    <3>1. SourceFits'
      BY DEF IngestInv, Routed
    <3> QED BY <1>7, <3>1 DEF SourceFits, ConnectionWorks, Connection
  <2>3. GoesOn
    BY <1>7, <2>1, <2>2 DEF GoesOn
  <2>4. unseen \ overlooked \subseteq Fetchable
    BY <1>7, <2>1, Zenon DEF FreshnessInv, GoneIsNoticed
  <2>5. overlooked' = overlooked \cup ((unseen \cap (lost' \ lost)) \ GivenToWriter)
    BY <2>3 DEF IngestStep
  <2>6. unseen \subseteq changes
    BY DEF FreshnessInv, UnseenFits
  <2>7. inbox' \ inbox \subseteq GivenToWriter /\ GivenToWriter \cap changes = {}
    BY <1>7 DEF GivenToWriter, Requested
  <2>8. unseen' \subseteq 1..published'
    BY DEF UnseenFits
  <2>9. unseen' \subseteq unseen \cup (published + 1 .. published')
    BY DEF IngestStep
  <2>10. published \in Nat
    BY IngestAssumption DEF FreshnessInv, IngestInv, TypeOK, IngestAssumption
  <2> HIDE DEF Fetchable, GivenToWriter
  <2>11. ASSUME NEW m \in unseen', m \notin overlooked' PROVE m \in Fetchable'
    <3>1. m \in 1..published'
      BY <2>8
    <3>2. \/ m \in Fetchable'
          \/ m \in (inbox' \ inbox) \cup (lost' \ lost)
          \/ m \in 1..published /\ m \notin Fetchable
      BY <1>1, <3>1, FetchedNext DEF FreshnessInv
    <3>3. CASE m \in unseen
      BY <2>4, <2>5, <2>6, <2>7, <2>11, <3>2, <3>3
    <3>4. CASE m \notin unseen
      BY <1>1, <2>9, <2>10, <3>4, NewIsFetchable DEF FreshnessInv
    <3> QED BY <3>3, <3>4
  <2>12. unseen' \ overlooked' \subseteq Fetchable'
    BY <2>11
  <2> QED BY <2>12, Zenon DEF GoneIsNoticed
<1> QED BY <1>3, <1>4, <1>5, <1>6, <1>7

\* Every step of the composition keeps the invariant.
LEMMA FreshnessInvNext ==
    FreshnessInv /\ [FreshnessNext]_<<vars, freshnessVars>> => FreshnessInv'
<1> SUFFICES ASSUME FreshnessInv, [FreshnessNext]_<<vars, freshnessVars>>
             PROVE  FreshnessInv'
    OBVIOUS
<1>1. [Next]_vars
  BY Zenon DEF FreshnessNext, IngestStep, Synchronise
<1>2. IngestInv'
  BY <1>1, InvNext DEF FreshnessInv
<1>3. CASE IngestStep
  <2>1. PICK e \in Entries : StepOf(e)
    BY <1>3, NextIsStep DEF IngestStep
  <2>2. ConnectionWorks'
    BY <2>1, ConnectionWorksNext DEF FreshnessInv, IngestInv, TypeOK, Typed
  <2>3. UnseenFits'
    BY <1>2, <1>3, UnseenNext
  <2>4. GoneIsNoticed'
    BY <1>2, <1>3, <2>2, <2>3, GoneNext
  <2> QED BY <1>2, <2>2, <2>3, <2>4 DEF FreshnessInv
<1>4. CASE UNCHANGED vars
  <2>1. UNCHANGED <<published, open, stream, torn, hand, pc, queue, source, announced,
                    failed>>
    BY <1>4 DEF vars, remote
  <2>2. ConnectionWorks'
    BY <2>1 DEF FreshnessInv, ConnectionWorks, SubState
  <2>3. CASE Synchronise
    <3>1. unseen' = {} /\ overlooked' = {}
      BY <2>3 DEF Synchronise
    <3>2. UnseenFits'
      BY <3>1 DEF UnseenFits
    <3>3. GoneIsNoticed'
      BY <3>1 DEF GoneIsNoticed
    <3> QED BY <1>2, <2>2, <3>2, <3>3 DEF FreshnessInv
  <2>4. CASE UNCHANGED <<vars, freshnessVars>>
    <3>1. UNCHANGED <<changes, unseen, activated, asked, overlooked>>
      BY <2>4 DEF freshnessVars
    <3>2. UnseenFits'
      BY <2>1, <3>1 DEF FreshnessInv, UnseenFits
    <3>3. Connection' = Connection /\ Fetchable' = Fetchable
      BY <2>1 DEF Connection, Fetchable, SubState
    <3>4. GoneIsNoticed'
      BY <3>1, <3>3 DEF FreshnessInv, GoneIsNoticed
    <3> QED BY <1>2, <2>2, <3>2, <3>4 DEF FreshnessInv
  <2>5. IngestStep \/ Synchronise \/ UNCHANGED <<vars, freshnessVars>>
    BY Zenon DEF FreshnessNext
  <2> QED BY <1>3, <2>3, <2>4, <2>5
<1> QED BY <1>1, <1>3, <1>4, Zenon DEF FreshnessNext, Synchronise

\* The composition starts in the invariant.
LEMMA FreshnessInvInit == FreshnessInit => FreshnessInv
<1> SUFFICES ASSUME FreshnessInit PROVE FreshnessInv
    OBVIOUS
<1>1. IngestInv
  BY InvInit DEF FreshnessInit
<1>2. ConnectionWorks /\ UnseenFits
  BY DEF FreshnessInit, Init, ConnectionWorks, UnseenFits, SubState
<1>3. GoneIsNoticed
  BY DEF FreshnessInit, GoneIsNoticed
<1> QED BY <1>1, <1>2, <1>3 DEF FreshnessInv

\* What the composition does to the runner's variables is what the runner does,
\* so that the theorems above hold of it too.
THEOREM CompositionRunsTheRunner == FreshnessSpec => Spec
<1>1. FreshnessInit => Init
  BY DEF FreshnessInit
<1>2. [FreshnessNext]_<<vars, freshnessVars>> => [Next]_vars
  BY Zenon DEF FreshnessNext, IngestStep, Synchronise
<1> QED BY <1>1, <1>2, PTL DEF FreshnessSpec, Spec

\* A change that no synchronisation has seen is one that a synchronisation will
\* be asked for, or its message can still be fetched, unless the message was lost
\* beside a connection that went on (ingestInboxWriter's metadata sync requests,
\* onConnectionEstablished).
THEOREM ChangesAreNoticed == FreshnessSpec => []ChangesAreSeen
<1>1. FreshnessInv => ChangesAreSeen
  <2> SUFFICES ASSUME FreshnessInv PROVE ChangesAreSeen
      OBVIOUS
  <2>1. CASE asked \/ ~activated \/ Connection = "none"
    BY <2>1, Zenon DEF ChangesAreSeen
  <2>2. CASE unseen \ overlooked \subseteq Fetchable
    BY <2>2 DEF FreshnessInv, UnseenFits, Fetchable, ChangesAreSeen
  <2> QED BY <2>1, <2>2, Zenon DEF FreshnessInv, GoneIsNoticed
<1> QED BY <1>1, FreshnessInvInit, FreshnessInvNext, PTL DEF FreshnessSpec
=============================================================================
