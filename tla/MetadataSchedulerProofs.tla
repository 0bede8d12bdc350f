----------------------- MODULE MetadataSchedulerProofs -----------------------
(* Theorems about the metadata scheduler, for any number of requests.      *)
EXTENDS MetadataScheduler, TLAPS

-----------------------------------------------------------------------------
(* Type correctness.                                                       *)

\* The scheduler starts with its variables in their types.
LEMMA TypeInit == Init => TypeOK
<1> SUFFICES ASSUME Init PROVE TypeOK
    OBVIOUS
<1>1. requests \in 0..MaxRequests
  BY SchedulerAssumption, SMT DEF SchedulerAssumption, Init
<1>2. /\ connected \in BOOLEAN /\ refresh \in BOOLEAN /\ activated \in BOOLEAN
      /\ notification \in BOOLEAN /\ recent \in BOOLEAN
      /\ owed \in BOOLEAN /\ reconnected \in BOOLEAN
  BY Zenon DEF Init
<1>3. /\ debounce \in {"none", "armed", "stale", "fired"}
      /\ periodic \in {"off", "armed", "fired"}
      /\ pc \in {"select", "activate", "drained", "start", "syncing"}
      /\ why \in {"connection", "tick", "refresh"}
      /\ sender \in {"idle", "send"}
  BY Zenon DEF Init
<1> QED BY <1>1, <1>2, <1>3 DEF TypeOK

\* Every step keeps the types.
LEMMA TypeNext == TypeOK /\ [Next]_vars => TypeOK'
<1> SUFFICES ASSUME TypeOK, [Next]_vars
             PROVE  TypeOK'
    OBVIOUS
<1> USE DEF TypeOK
<1>1. CASE Ingest
  <2>1. CASE NotifyIngestConnected
    BY <2>1 DEF NotifyIngestConnected
  <2>2. CASE MarkRefreshSupported
    <3>1. notification' \in BOOLEAN
      BY <2>2, Zenon DEF MarkRefreshSupported
    <3> QED BY <2>2, <3>1 DEF MarkRefreshSupported
  <2>3. CASE MarkRefreshPollingRequired
    <3>1. notification' \in BOOLEAN
      BY <2>3, Zenon DEF MarkRefreshPollingRequired
    <3> QED BY <2>3, <3>1 DEF MarkRefreshPollingRequired
  <2>4. CASE RecordRefreshRequest
    <3>1. requests' \in 0..MaxRequests
      BY <2>4, SchedulerAssumption DEF SchedulerAssumption, RecordRefreshRequest
    <3>2. notification' \in BOOLEAN /\ owed' \in BOOLEAN
      BY <2>4, Zenon DEF RecordRefreshRequest
    <3>3. /\ recent' \in BOOLEAN
          /\ sender' \in {"idle", "send"}
          /\ debounce' \in {"none", "armed", "stale", "fired"}
      <4>1. CASE activated
        <5>1. recent' \in BOOLEAN
          BY <2>4, <4>1, Zenon DEF RecordRefreshRequest
        <5>2. sender' \in {"idle", "send"}
          BY <2>4, <4>1 DEF RecordRefreshRequest
        <5>3. debounce' \in {"none", "armed", "stale", "fired"}
          BY <2>4, <4>1 DEF RecordRefreshRequest
        <5> QED BY <5>1, <5>2, <5>3
      <4>2. CASE ~activated
        BY <2>4, <4>2 DEF RecordRefreshRequest
      <4> QED BY <4>1, <4>2
    <3> QED BY <2>4, <3>1, <3>2, <3>3 DEF RecordRefreshRequest
  <2> QED BY <1>1, <2>1, <2>2, <2>3, <2>4 DEF Ingest
<1>2. CASE SendRefreshRequest
  BY <1>2 DEF SendRefreshRequest
<1>3. CASE Clock
  <2>1. CASE WindowPasses
    <3>1. recent' \in BOOLEAN
      BY <2>1, Zenon DEF WindowPasses
    <3> QED BY <2>1, <3>1 DEF WindowPasses
  <2>2. CASE DebounceFires
    BY <2>2 DEF DebounceFires
  <2>3. CASE PeriodicFires
    BY <2>3 DEF PeriodicFires
  <2> QED BY <1>3, <2>1, <2>2, <2>3 DEF Clock
<1>4. CASE Select
  <2>1. CASE TakeConnected
    <3>1. connected' \in BOOLEAN
      BY <2>1, Zenon DEF TakeConnected
    <3> QED BY <2>1, <3>1 DEF TakeConnected
  <2>2. CASE TakeTick
    BY <2>2 DEF TakeTick
  <2>3. CASE TakeRefresh
    <3>1. refresh' \in BOOLEAN
      BY <2>3, Zenon DEF TakeRefresh
    <3> QED BY <2>3, <3>1 DEF TakeRefresh
  <2>4. CASE TakeDebounce
    <3>1. refresh' \in BOOLEAN
      BY <2>4, Zenon DEF TakeDebounce
    <3> QED BY <2>4, <3>1 DEF TakeDebounce
  <2> QED BY <1>4, <2>1, <2>2, <2>3, <2>4 DEF Select
<1>5. CASE Step
  <2>1. CASE Activate
    BY <2>1 DEF Activate
  <2>2. CASE CheckWindow
    BY <2>2 DEF CheckWindow
  <2>3. CASE StartSync
    <3>1. owed' \in BOOLEAN /\ reconnected' \in BOOLEAN
      BY <2>3, Zenon DEF StartSync
    <3> QED BY <2>3, <3>1 DEF StartSync
  <2>4. CASE EndSync
    BY <2>4 DEF EndSync, ResetPeriodic
  <2> QED BY <1>5, <2>1, <2>2, <2>3, <2>4 DEF Step
<1>6. CASE UNCHANGED vars
  BY <1>6 DEF vars
<1> QED BY <1>1, <1>2, <1>3, <1>4, <1>5, <1>6 DEF Next

\* Every variable of the scheduler keeps its type (NewMetadataSyncRunner, Run).
THEOREM TypeCorrect == Spec => []TypeOK
BY TypeInit, TypeNext, PTL DEF Spec

-----------------------------------------------------------------------------
(* No request is forgotten. The invariant is inductive once the types are  *)
(* known: what leaves one of its places enters another, and only the       *)
(* beginning of a synchronisation clears the debt.                         *)

\* Every step keeps each open request in one of its places.
LEMMA ForgetsNothing == TypeOK /\ RefreshNotForgotten /\ [Next]_vars => RefreshNotForgotten'
<1> SUFFICES ASSUME TypeOK, RefreshNotForgotten, [Next]_vars
             PROVE  RefreshNotForgotten'
    OBVIOUS
<1> USE DEF TypeOK, RefreshNotForgotten
<1>1. CASE Ingest
  <2>1. CASE NotifyIngestConnected
    BY <2>1 DEF NotifyIngestConnected
  <2>2. CASE MarkRefreshSupported
    BY <2>2 DEF MarkRefreshSupported
  <2>3. CASE MarkRefreshPollingRequired
    BY <2>3 DEF MarkRefreshPollingRequired
  <2>4. CASE RecordRefreshRequest
    BY <2>4 DEF RecordRefreshRequest
  <2> QED BY <1>1, <2>1, <2>2, <2>3, <2>4 DEF Ingest
<1>2. CASE SendRefreshRequest
  BY <1>2 DEF SendRefreshRequest
<1>3. CASE Clock
  BY <1>3 DEF Clock, WindowPasses, DebounceFires, PeriodicFires
<1>4. CASE Select
  <2>1. CASE TakeConnected
    BY <2>1 DEF TakeConnected
  <2>2. CASE TakeTick
    BY <2>2 DEF TakeTick
  <2>3. CASE TakeRefresh
    BY <2>3 DEF TakeRefresh
  <2>4. CASE TakeDebounce
    BY <2>4 DEF TakeDebounce
  <2> QED BY <1>4, <2>1, <2>2, <2>3, <2>4 DEF Select
<1>5. CASE Step
  <2>1. CASE Activate
    BY <2>1 DEF Activate
  <2>2. CASE CheckWindow
    BY <2>2 DEF CheckWindow
  <2>3. CASE StartSync
    BY <2>3 DEF StartSync
  <2>4. CASE EndSync
    BY <2>4 DEF EndSync
  <2> QED BY <1>5, <2>1, <2>2, <2>3, <2>4 DEF Step
<1>6. CASE UNCHANGED vars
  BY <1>6 DEF vars
<1> QED BY <1>1, <1>2, <1>3, <1>4, <1>5, <1>6 DEF Next

\* Neither merging in the one-slot channels, nor draining, nor a request that
\* comes during a synchronisation loses a request or a connection.
THEOREM NothingForgotten == Spec => []RefreshNotForgotten
<1>1. Init => RefreshNotForgotten
  BY DEF Init, RefreshNotForgotten
<1> QED BY <1>1, TypeCorrect, ForgetsNothing, PTL DEF Spec

-----------------------------------------------------------------------------
(* The scheduler implements the promise. Every step changes what a caller   *)
(* may count on as one step of the promise does, or not at all; no step     *)
(* relies on an earlier one, so that the types are invariant enough.        *)

\* A new scheduler has promised nothing yet.
LEMMA PromiseStarts == Init => Promise!PromiseInit
BY DEF Init, Asked, Promise!PromiseInit

\* The calls of the ingest side are what the promise is given for.
LEMMA CallsAreKept == TypeOK /\ Ingest => Promise!PromiseNext \/ UNCHANGED Promise!promiseVars
<1> SUFFICES ASSUME TypeOK, Ingest
             PROVE  Promise!PromiseNext \/ UNCHANGED Promise!promiseVars
    OBVIOUS
<1> USE DEF TypeOK, Asked
<1>1. CASE NotifyIngestConnected
  <2>1. Promise!Connect
    BY <1>1 DEF NotifyIngestConnected, Promise!Connect
  <2> QED BY <2>1 DEF Promise!PromiseNext
<1>2. CASE MarkRefreshSupported \/ MarkRefreshPollingRequired
  <2>1. Promise!ChangeMode \/ UNCHANGED Promise!promiseVars
    BY <1>2 DEF MarkRefreshSupported, MarkRefreshPollingRequired, Promise!ChangeMode,
                Promise!promiseVars
  <2> QED BY <2>1 DEF Promise!PromiseNext
<1>3. CASE RecordRefreshRequest
  <2>1. Promise!Request
    BY <1>3 DEF RecordRefreshRequest, Promise!Request
  <2> QED BY <2>1 DEF Promise!PromiseNext
<1> QED BY <1>1, <1>2, <1>3 DEF Ingest

\* What the scheduler does by itself synchronises, or is a tick, or moves what
\* it was asked for to another place.
LEMMA WorkIsKept ==
    TypeOK /\ (SendRefreshRequest \/ Clock \/ Select \/ Step)
      => Promise!PromiseNext \/ UNCHANGED Promise!promiseVars
<1> SUFFICES ASSUME TypeOK, SendRefreshRequest \/ Clock \/ Select \/ Step
             PROVE  Promise!PromiseNext \/ UNCHANGED Promise!promiseVars
    OBVIOUS
<1> USE DEF TypeOK, Asked
<1>1. CASE SendRefreshRequest
  BY <1>1 DEF SendRefreshRequest, Promise!promiseVars
<1>2. CASE Clock
  BY <1>2 DEF Clock, WindowPasses, DebounceFires, PeriodicFires, Promise!promiseVars
<1>3. CASE TakeTick
  <2>1. CASE Polls
    <3>1. Promise!Tick
      BY <1>3, <2>1 DEF TakeTick, Polls, Promise!Tick
    <3> QED BY <3>1 DEF Promise!PromiseNext
  <2>2. CASE ~Polls
    BY <1>3, <2>2 DEF TakeTick, Promise!promiseVars
  <2> QED BY <2>1, <2>2
<1>4. CASE TakeConnected \/ TakeRefresh \/ TakeDebounce
  BY <1>4 DEF TakeConnected, TakeRefresh, TakeDebounce, Promise!promiseVars
<1>5. CASE StartSync
  <2>1. Promise!Synchronise
    BY <1>5 DEF StartSync, Promise!Synchronise
  <2> QED BY <2>1 DEF Promise!PromiseNext
<1>6. CASE Activate \/ CheckWindow \/ EndSync
  BY <1>6 DEF Activate, CheckWindow, EndSync, Promise!promiseVars
<1> QED BY <1>1, <1>2, <1>3, <1>4, <1>5, <1>6 DEF Select, Step

\* The channels that merge, the debounce and the select with its timers refine
\* the promise MetadataFreshness builds on, for any number of requests.
THEOREM SchedulerImplementsPromise == Spec => ImplementsPromise
<1>1. TypeOK /\ [Next]_vars => [Promise!PromiseNext]_Promise!promiseVars
  <2>1. UNCHANGED vars => UNCHANGED Promise!promiseVars
    BY DEF vars, Asked, Promise!promiseVars
  <2> QED BY <2>1, CallsAreKept, WorkIsKept DEF Next
<1> QED BY <1>1, PromiseStarts, TypeCorrect, PTL
       DEF Spec, ImplementsPromise, Promise!PromiseSpec
=============================================================================
