-------------------------- MODULE MetadataScheduler --------------------------
(***************************************************************************)
(* When the metadata of CPA is synchronised: MetadataSyncRunner.           *)
(*                                                                         *)
(* One goroutine selects among a connection signal, a periodic tick, a     *)
(* refresh request and the end of the debounce window. The ingest side     *)
(* calls it from other goroutines: it announces connections, asks for a    *)
(* refresh, and switches between polling and notifications. Both signals   *)
(* go through channels with one slot, so that some are merged; none may    *)
(* be lost. The whole state is in memory: a restart is the initial state.  *)
(***************************************************************************)
EXTENDS Integers

CONSTANT MaxRequests    \* bound: how many refresh requests arrive

ASSUME SchedulerAssumption == MaxRequests \in Nat

VARIABLES
    connected,    \* connectedRequests holds a signal
    refresh,      \* refreshRequests holds a signal
    activated,
    notification, \* notificationMode
    recent,       \* the last refresh request is younger than refreshDebounce
    debounce,     \* the debounce timer; "stale": armed before the last request
    periodic,     \* the periodic timer; "off": its tick is being handled
    pc,           \* where Run is
    why,          \* what the current synchronisation is for
    sender,       \* RequestMetadataRefresh, between its two halves
    owed,         \* history: no synchronisation began since the last request
    reconnected,  \* history: none began since the last connection
    requests

vars == <<connected, refresh, activated, notification, recent, debounce, periodic,
          pc, why, sender, owed, reconnected, requests>>

TypeOK ==
    /\ connected \in BOOLEAN
    /\ refresh \in BOOLEAN
    /\ activated \in BOOLEAN
    /\ notification \in BOOLEAN
    /\ recent \in BOOLEAN
    /\ debounce \in {"none", "armed", "stale", "fired"}
    /\ periodic \in {"off", "armed", "fired"}
    /\ pc \in {"select", "activate", "drained", "start", "syncing"}
    /\ why \in {"connection", "tick", "refresh"}
    /\ sender \in {"idle", "send"}
    /\ owed \in BOOLEAN
    /\ reconnected \in BOOLEAN
    /\ requests \in 0..MaxRequests

Init ==
    /\ connected = FALSE /\ refresh = FALSE
    /\ activated = FALSE /\ notification = FALSE /\ recent = FALSE
    /\ debounce = "none" /\ periodic = "armed"
    /\ pc = "select" /\ why = "tick" /\ sender = "idle"
    /\ owed = FALSE /\ reconnected = FALSE /\ requests = 0

-----------------------------------------------------------------------------
(* Called by the ingest goroutine.                                         *)

NotifyIngestConnected ==
    /\ connected' = TRUE /\ reconnected' = TRUE
    /\ UNCHANGED <<refresh, activated, notification, recent, debounce, periodic, pc,
                   why, sender, owed, requests>>

MarkRefreshSupported ==
    /\ notification' = TRUE
    /\ UNCHANGED <<connected, refresh, activated, recent, debounce, periodic, pc, why,
                   sender, owed, reconnected, requests>>

MarkRefreshPollingRequired ==
    /\ notification' = FALSE
    /\ UNCHANGED <<connected, refresh, activated, recent, debounce, periodic, pc, why,
                   sender, owed, reconnected, requests>>

\* RequestMetadataRefresh, first half: under the lock. A request before the
\* first connection is left to the synchronisation of that connection.
RecordRefreshRequest ==
    /\ sender = "idle" /\ requests < MaxRequests
    /\ requests' = requests + 1
    /\ notification' = TRUE /\ owed' = TRUE
    /\ IF activated
       THEN /\ recent' = TRUE /\ sender' = "send"
            /\ debounce' = IF debounce = "armed" THEN "stale" ELSE debounce
       ELSE UNCHANGED <<recent, sender, debounce>>
    /\ UNCHANGED <<connected, refresh, activated, periodic, pc, why, reconnected>>

\* Second half: a full channel already holds a request.
SendRefreshRequest ==
    /\ sender = "send" /\ sender' = "idle"
    /\ refresh' = TRUE
    /\ UNCHANGED <<connected, activated, notification, recent, debounce, periodic, pc,
                   why, owed, reconnected, requests>>

-----------------------------------------------------------------------------
(* The clock. A debounce timer armed for the last request does not fire    *)
(* before the window of that request has passed.                           *)

WindowPasses ==
    /\ recent /\ recent' = FALSE
    /\ UNCHANGED <<connected, refresh, activated, notification, debounce, periodic, pc,
                   why, sender, owed, reconnected, requests>>

DebounceFires ==
    /\ debounce = "stale" \/ (debounce = "armed" /\ ~recent)
    /\ debounce' = "fired"
    /\ UNCHANGED <<connected, refresh, activated, notification, recent, periodic, pc,
                   why, sender, owed, reconnected, requests>>

PeriodicFires ==
    /\ periodic = "armed" /\ periodic' = "fired"
    /\ UNCHANGED <<connected, refresh, activated, notification, recent, debounce, pc,
                   why, sender, owed, reconnected, requests>>

-----------------------------------------------------------------------------
(* Run.                                                                    *)

TakeConnected ==
    /\ pc = "select" /\ connected
    /\ connected' = FALSE
    /\ pc' = "activate"
    /\ UNCHANGED <<refresh, activated, notification, recent, debounce, periodic, why,
                   sender, owed, reconnected, requests>>

\* markActivated
Activate ==
    /\ pc = "activate"
    /\ activated' = TRUE
    /\ pc' = "start" /\ why' = "connection"
    /\ UNCHANGED <<connected, refresh, notification, recent, debounce, periodic, sender,
                   owed, reconnected, requests>>

Polls == activated /\ ~notification

TakeTick ==
    /\ pc = "select" /\ periodic = "fired"
    /\ IF Polls THEN pc' = "start" /\ why' = "tick" /\ periodic' = "off"
                ELSE periodic' = "armed" /\ UNCHANGED <<pc, why>>
    /\ UNCHANGED <<connected, refresh, activated, notification, recent, debounce,
                   sender, owed, reconnected, requests>>

\* A new debounce timer, or the running one reset.
TakeRefresh ==
    /\ pc = "select" /\ refresh
    /\ refresh' = FALSE
    /\ debounce' = "armed"
    /\ UNCHANGED <<connected, activated, notification, recent, periodic, pc, why,
                   sender, owed, reconnected, requests>>

\* drainRefreshRequests
TakeDebounce ==
    /\ pc = "select" /\ debounce = "fired"
    /\ debounce' = "none"
    /\ refresh' = FALSE
    /\ pc' = "drained"
    /\ UNCHANGED <<connected, activated, notification, recent, periodic, why, sender,
                   owed, reconnected, requests>>

\* Mutant: a request within the window does not arm the timer again.
CheckWindowOnce ==
    /\ pc = "drained"
    /\ IF recent THEN pc' = "select" /\ UNCHANGED why
                 ELSE pc' = "start" /\ why' = "refresh"
    /\ UNCHANGED <<connected, refresh, activated, notification, recent, debounce,
                   periodic, sender, owed, reconnected, requests>>

\* refreshDebounceDelay: a newer request moves the end of the window.
CheckWindow ==
    /\ pc = "drained"
    /\ IF recent THEN pc' = "select" /\ debounce' = "armed" /\ UNCHANGED why
                 ELSE pc' = "start" /\ why' = "refresh" /\ UNCHANGED debounce
    /\ UNCHANGED <<connected, refresh, activated, notification, recent, periodic,
                   sender, owed, reconnected, requests>>

\* From here on the synchronisation reads what CPA has now.
StartSync ==
    /\ pc = "start" /\ pc' = "syncing"
    /\ owed' = FALSE /\ reconnected' = FALSE
    /\ UNCHANGED <<connected, refresh, activated, notification, recent, debounce,
                   periodic, why, sender, requests>>

\* A synchronisation for a connection or a tick starts the interval again.
ResetPeriodic == periodic' = IF why = "refresh" THEN periodic ELSE "armed"

\* Mutant: requests that came in meanwhile are taken for answered.
EndSyncDrained ==
    /\ pc = "syncing" /\ pc' = "select"
    /\ ResetPeriodic
    /\ refresh' = FALSE
    /\ UNCHANGED <<connected, activated, notification, recent, debounce, why, sender,
                   owed, reconnected, requests>>

\* Failed or not: a failure is only logged.
EndSync ==
    /\ pc = "syncing" /\ pc' = "select"
    /\ ResetPeriodic
    /\ UNCHANGED <<connected, refresh, activated, notification, recent, debounce, why,
                   sender, owed, reconnected, requests>>

Step == Activate \/ CheckWindow \/ StartSync \/ EndSync
Ingest == NotifyIngestConnected \/ MarkRefreshSupported \/ MarkRefreshPollingRequired
              \/ RecordRefreshRequest
Clock == WindowPasses \/ DebounceFires \/ PeriodicFires
Select == TakeConnected \/ TakeTick \/ TakeRefresh \/ TakeDebounce

Next == Ingest \/ SendRefreshRequest \/ Clock \/ Select \/ Step

Spec == Init /\ [][Next]_vars

\* Goroutines go on and timers fire. A select with several ready cases picks
\* one at random, so that a case which is ready again and again is picked.
FairSpec ==
    /\ Spec
    /\ WF_vars(Step) /\ WF_vars(SendRefreshRequest)
    /\ WF_vars(WindowPasses) /\ WF_vars(DebounceFires) /\ WF_vars(PeriodicFires)
    /\ SF_vars(TakeConnected) /\ SF_vars(TakeTick)
    /\ SF_vars(TakeRefresh) /\ SF_vars(TakeDebounce)

-----------------------------------------------------------------------------
\* A refresh request that no synchronisation has answered is still on its way
\* to one: about to be sent, in the channel, in the debounce timer, or drained
\* by the branch that is about to decide. The same holds of a connection.
RefreshNotForgotten ==
    /\ owed /\ activated =>
           \/ sender = "send" \/ refresh \/ debounce # "none"
           \/ pc \in {"drained", "start"}
    /\ reconnected => connected \/ pc \in {"activate", "start"}

\* A refresh request is answered by a synchronisation that begins after it, if
\* the scheduler is active or a connection is announced: the merging of
\* requests, and the requests before the activation, lose none.
RefreshAnswered == owed /\ (activated \/ reconnected) ~> ~owed

\* Each announced connection leads to a synchronisation that begins after it.
ConnectionAnswered == reconnected ~> ~reconnected

\* Once active, the scheduler synchronises again and again unless CPA notifies
\* it of changes: a fallback to polling is never stuck on a silent timer.
PollingGoesOn == activated ~> pc = "syncing" \/ notification

\* Whatever asks for a synchronisation gets one: requests, connections, ticks.
RequestsAnswered == RefreshAnswered /\ ConnectionAnswered /\ PollingGoesOn

\* What will lead to a synchronisation: a signal in a channel or about to be
\* sent, a timer, or a place of Run on the way there.
Asked ==
    \/ connected \/ sender = "send" \/ refresh \/ debounce # "none"
    \/ pc \in {"activate", "drained", "start"}

\* The scheduler keeps its promise: it is asked as soon as it is called, and
\* whatever the channels merge and the debounce defers, nothing but the begin
\* of a synchronisation makes it forget.
Promise == INSTANCE MetadataPromise WITH
    activated <- activated \/ connected \/ pc = "activate", polling <- ~notification,
    asked <- Asked, fresh <- ~owed /\ ~reconnected
ImplementsPromise == Promise!PromiseSpec
=============================================================================
