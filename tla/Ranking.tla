------------------------------- MODULE Ranking -------------------------------
(* Taking part in the community ranking: the identity kept in the settings,   *)
(* registration, reports with persistent sequence numbers, reconciliation and *)
(* deletion against a center that is remote: a call may be lost on the way    *)
(* there or back, or arrive after its caller gave up.                         *)
EXTENDS Integers, Sequences, FiniteSetsExt

CONSTANTS Profiles,         \* what a participant is called
          MaxSequence, MaxRankingEvents, MaxRankingDay, MaxGiveUps \* bounds

ASSUME RankingAssumption ==
    MaxSequence \in Nat /\ MaxRankingEvents \in Nat /\ MaxRankingDay \in Nat /\ MaxGiveUps \in Nat

VARIABLES
    rankStore,    \* settings: [status, profile, sequence, started, completeDay, completeEvent]
    reconciled, dynamicDay, dynamicEvent,  \* memory of the service
    operation,    \* who holds the lock: [pc, ...], see NoOperation
    inFlight,     \* sent and not yet delivered
    center,       \* external: [status, profile, sequence, reports]
    eventDay,     \* event id -> day; ids from 1
    rankingDay, earlyHours,
    rankBackup, restored,  \* a copy of the settings made by a backup; it was put back
    giveUps       \* bound: calls given up and crashes

rankingVars == <<rankStore, reconciled, dynamicDay, dynamicEvent, operation, inFlight, center,
                 eventDay, rankingDay, earlyHours, rankBackup, restored, giveUps>>
rankingMemory == <<reconciled, dynamicDay, dynamicEvent>>
rankingWorld == <<eventDay, rankingDay, earlyHours, rankBackup, restored>>

NoProfile == "none"
Disabled == [status |-> "disabled", profile |-> NoProfile, sequence |-> 0, started |-> 0,
             completeDay |-> 0, completeEvent |-> 0]
(* today: when the synchronisation began; day, event, events, complete: of    *)
(* the report under way; last: no reconciliation follows the reports, or no   *)
(* second attempt a deletion                                                  *)
NoOperation == [pc |-> "idle", goal |-> "none", last |-> FALSE, complete |-> FALSE, today |-> 0,
                day |-> 0, event |-> 0, events |-> {}, sequence |-> 0]

RankingInit ==
    /\ rankStore = Disabled /\ reconciled = FALSE /\ dynamicDay = 0 /\ dynamicEvent = 0
    /\ operation = NoOperation /\ inFlight = {}
    /\ center = [status |-> "unknown", profile |-> NoProfile, sequence |-> 0, reports |-> {}]
    /\ eventDay = <<>> /\ rankingDay = 1 /\ earlyHours = TRUE /\ giveUps = 0
    /\ rankBackup = Disabled /\ restored = FALSE

-----------------------------------------------------------------------------
(* Starting an operation: only one at a time, the others return at once       *)

Join ==
    /\ operation.pc = "idle" /\ rankStore.status \in {"disabled", "joining"}
    /\ \E p \in Profiles :
        /\ rankStore.status = "joining" => p = rankStore.profile
        /\ rankStore' = [rankStore EXCEPT !.status = "joining", !.profile = p]
    /\ operation' = [NoOperation EXCEPT !.pc = "register", !.goal = "sync",
                                        !.last = TRUE]
    /\ UNCHANGED <<rankingMemory, inFlight, center, rankingWorld, giveUps>>

(* by the runner or by hand *)
RunOnce ==
    /\ operation.pc = "idle" /\ rankStore.status = "active"
    /\ operation' = [NoOperation EXCEPT !.pc = IF reconciled THEN "sync" ELSE "reconcile",
                                        !.goal = "sync", !.last = ~reconciled]
    /\ UNCHANGED <<rankStore, rankingMemory, inFlight, center, rankingWorld, giveUps>>

Pause ==
    /\ operation.pc = "idle" /\ rankStore.status = "active"
    /\ rankStore' = [rankStore EXCEPT !.status = "paused"]
    /\ UNCHANGED <<rankingMemory, operation, inFlight, center, rankingWorld, giveUps>>

Resume ==
    /\ operation.pc = "idle" /\ rankStore.status = "paused"
    /\ rankStore' = [rankStore EXCEPT !.status = "active"]
    /\ UNCHANGED <<rankingMemory, operation, inFlight, center, rankingWorld, giveUps>>

Exit ==
    /\ operation.pc = "idle" /\ rankStore.status \in {"joining", "active", "paused"}
    /\ operation' = [NoOperation EXCEPT !.goal = "delete",
                        !.pc = IF rankStore.status = "joining" THEN "register"
                               ELSE IF reconciled THEN "allocate" ELSE "reconcile"]
    /\ UNCHANGED <<rankStore, rankingMemory, inFlight, center, rankingWorld, giveUps>>

-----------------------------------------------------------------------------
(* Registration and reconciliation                                           *)

MarkDeleted == rankStore' = [rankStore EXCEPT !.status = "deleted"] /\ operation' = NoOperation

(* idempotent at the center, by the key of the registration; the answer may   *)
(* not come back                                                              *)
Register ==
    /\ operation.pc = "register"
    /\ IF center.status = "deleted"
       THEN MarkDeleted /\ UNCHANGED <<reconciled, center>>
       ELSE /\ center' = [center EXCEPT !.status = "active", !.profile = rankStore.profile]
            /\ rankStore' = [rankStore EXCEPT !.status = "active", !.started = rankingDay]
            /\ reconciled' = TRUE
            /\ operation' = [operation EXCEPT !.pc =
                                IF operation.goal = "sync" THEN "sync" ELSE "allocate"]
    /\ UNCHANGED <<dynamicDay, dynamicEvent, inFlight, rankingWorld, giveUps>>

RegisterUnanswered ==
    /\ operation.pc = "register" /\ giveUps < MaxGiveUps /\ giveUps' = giveUps + 1
    /\ center.status # "deleted"
    /\ center' = [center EXCEPT !.status = "active", !.profile = rankStore.profile]
    /\ operation' = NoOperation
    /\ UNCHANGED <<rankStore, rankingMemory, inFlight, rankingWorld>>

Reconcile ==
    /\ operation.pc = "reconcile"
    /\ IF center.status = "deleted"
       THEN MarkDeleted /\ UNCHANGED reconciled
       ELSE /\ rankStore' = [rankStore EXCEPT !.sequence = Max({@, center.sequence})]
            /\ reconciled' = TRUE
            /\ operation' = [operation EXCEPT !.pc =
                                IF operation.goal = "delete" THEN "allocate"
                                ELSE IF operation.last THEN "sync" ELSE "end"]
    /\ UNCHANGED <<dynamicDay, dynamicEvent, inFlight, center, rankingWorld, giveUps>>

-----------------------------------------------------------------------------
(* Synchronisation: yesterday while the day is young, then today             *)

Events(day) == {e \in DOMAIN eventDay : eventDay[e] = day}
LatestEvent(day) == Max({0} \cup Events(day))

(* the newest event is read before the day is aggregated *)
LookAtYesterday ==
    /\ operation.pc = "sync"
    /\ LET day == rankingDay - 1
           latest == LatestEvent(day)
           wanted == rankStore.started < rankingDay /\ earlyHours
           stored == rankStore.completeDay = day
       IN /\ operation' = [operation EXCEPT !.today = rankingDay, !.day = day, !.event = latest, !.complete = TRUE,
                !.pc = IF wanted /\ latest # 0 /\ ~(stored /\ rankStore.completeEvent = latest)
                       THEN "aggregate" ELSE "today"]
          /\ rankStore' = IF wanted /\ latest = 0 /\ ~stored
                          THEN [rankStore EXCEPT !.completeDay = day, !.completeEvent = 0]
                          ELSE rankStore
    /\ UNCHANGED <<rankingMemory, inFlight, center, rankingWorld, giveUps>>

LookAtToday ==
    /\ operation.pc = "today"
    /\ LET today == operation.today
           latest == LatestEvent(today)
           seen == dynamicDay = today /\ dynamicEvent = latest
       IN /\ operation' = [operation EXCEPT !.day = today, !.event = latest, !.complete = FALSE,
                !.pc = IF latest # 0 /\ ~seen THEN "aggregate" ELSE "reported"]
          /\ dynamicDay' = IF latest = 0 THEN today ELSE dynamicDay
          /\ dynamicEvent' = IF latest = 0 THEN 0 ELSE dynamicEvent
    /\ UNCHANGED <<rankStore, reconciled, inFlight, center, rankingWorld, giveUps>>

AggregateDay ==
    /\ operation.pc = "aggregate"
    /\ operation' = [operation EXCEPT !.pc = "allocate", !.events = Events(operation.day)]
    /\ UNCHANGED <<rankStore, rankingMemory, inFlight, center, rankingWorld, giveUps>>

Request == [kind |-> IF operation.goal = "delete" THEN "delete" ELSE "report",
            sequence |-> rankStore.sequence + 1, day |-> operation.day,
            complete |-> operation.complete, events |-> operation.events]

(* Mutant: the number is stored with the answer. *)
AllocateInMemory ==
    /\ operation.pc = "allocate" /\ rankStore.sequence < MaxSequence
    /\ inFlight' = inFlight \cup {Request}
    /\ operation' = [operation EXCEPT !.pc = "sent", !.sequence = rankStore.sequence + 1]
    /\ UNCHANGED <<rankStore, rankingMemory, center, rankingWorld, giveUps>>

(* the number is stored before the request is sent *)
Allocate ==
    /\ operation.pc = "allocate" /\ rankStore.sequence < MaxSequence
    /\ rankStore' = [rankStore EXCEPT !.sequence = @ + 1]
    /\ inFlight' = inFlight \cup {Request}
    /\ operation' = [operation EXCEPT !.pc = "sent", !.sequence = rankStore.sequence + 1]
    /\ UNCHANGED <<rankingMemory, center, rankingWorld, giveUps>>

Waits(r) == operation.pc = "sent" /\ operation.sequence = r.sequence

AfterReport == [operation EXCEPT !.pc = IF operation.complete THEN "today" ELSE "reported"]

(* the center takes a request if its number is new, and whoever still waits   *)
(* for it hears so                                                            *)
Accepted(r) ==
    /\ center.status = "active" /\ r.sequence > center.sequence
    /\ center' = [center EXCEPT !.sequence = r.sequence,
                    !.status = IF r.kind = "delete" THEN "deleted" ELSE @,
                    !.reports = IF r.kind = "delete" THEN @ ELSE
                        {q \in @ : q.day # r.day} \cup {[day |-> r.day, events |-> r.events]}]
    /\ IF ~Waits(r) THEN UNCHANGED <<rankStore, operation, dynamicDay, dynamicEvent>>
       ELSE IF r.kind = "delete" THEN MarkDeleted /\ UNCHANGED <<dynamicDay, dynamicEvent>>
       ELSE /\ rankStore' = IF r.complete
                            THEN [rankStore EXCEPT !.completeDay = operation.day,
                                                   !.completeEvent = operation.event]
                            ELSE rankStore
            /\ operation' = AfterReport
            /\ dynamicDay' = IF r.complete THEN dynamicDay ELSE operation.day
            /\ dynamicEvent' = IF r.complete THEN dynamicEvent ELSE operation.event
    /\ UNCHANGED reconciled

Replayed(r) ==
    /\ center.status = "active" /\ r.sequence <= center.sequence
    /\ reconciled' = IF Waits(r) THEN FALSE ELSE reconciled
    /\ operation' = IF ~Waits(r) THEN operation
                    ELSE IF r.kind = "delete" /\ ~operation.last
                    THEN [operation EXCEPT !.pc = "reconcile", !.last = TRUE]
                    ELSE NoOperation
    /\ UNCHANGED <<rankStore, center, dynamicDay, dynamicEvent>>

Gone(r) ==
    /\ center.status # "active"
    /\ IF Waits(r) THEN MarkDeleted ELSE UNCHANGED <<rankStore, operation>>
    /\ UNCHANGED <<rankingMemory, center>>

Deliver(r) ==
    /\ r \in inFlight /\ inFlight' = inFlight \ {r}
    /\ Accepted(r) \/ Replayed(r) \/ Gone(r)
    /\ UNCHANGED <<rankingWorld, giveUps>>

EndSync ==
    /\ operation.pc \in {"reported", "end"}
    /\ operation' = IF operation.pc = "end" \/ operation.last THEN NoOperation
                    ELSE [operation EXCEPT !.pc = "reconcile"]
    /\ UNCHANGED <<rankStore, rankingMemory, inFlight, center, rankingWorld, giveUps>>

(* an error, or nobody answered in time: a report of yesterday that fails     *)
(* leaves the one of today to be tried                                        *)
GiveUp ==
    /\ operation.pc # "idle" /\ giveUps < MaxGiveUps /\ giveUps' = giveUps + 1
    /\ operation' = IF operation.goal = "sync" /\ operation.complete /\ operation.pc # "reconcile"
                    THEN [operation EXCEPT !.pc = "today"] ELSE NoOperation
    /\ UNCHANGED <<rankStore, rankingMemory, inFlight, center, rankingWorld>>

LoseRequest(r) ==
    /\ r \in inFlight /\ ~Waits(r) /\ inFlight' = inFlight \ {r}
    /\ UNCHANGED <<rankStore, rankingMemory, operation, center, rankingWorld, giveUps>>

Forget == reconciled' = FALSE /\ dynamicDay' = 0 /\ dynamicEvent' = 0 /\ operation' = NoOperation

CrashKeeper ==
    /\ giveUps < MaxGiveUps /\ giveUps' = giveUps + 1 /\ Forget
    /\ UNCHANGED <<rankStore, inFlight, center, rankingWorld>>

BackupStore ==
    /\ rankStore.status = "active" /\ rankBackup = Disabled /\ rankBackup' = rankStore
    /\ UNCHANGED <<rankStore, rankingMemory, operation, inFlight, center, eventDay, rankingDay,
                   earlyHours, restored, giveUps>>

(* with the keeper stopped, for longer than a request can take *)
RestoreStore ==
    /\ rankBackup # Disabled /\ ~restored /\ restored' = TRUE /\ rankStore' = rankBackup /\ Forget
    /\ inFlight' = {}
    /\ UNCHANGED <<center, eventDay, rankingDay, earlyHours, rankBackup, giveUps>>

CommitEvent ==
    /\ Len(eventDay) < MaxRankingEvents
    /\ \E d \in {rankingDay - 1, rankingDay} : eventDay' = Append(eventDay, d)
    /\ UNCHANGED <<rankStore, rankingMemory, operation, inFlight, center, rankingDay, earlyHours,
                   rankBackup, restored, giveUps>>

RankingTick ==
    /\ IF earlyHours THEN UNCHANGED rankingDay
                     ELSE rankingDay < MaxRankingDay /\ rankingDay' = rankingDay + 1
    /\ earlyHours' = ~earlyHours
    /\ UNCHANGED <<rankStore, rankingMemory, operation, inFlight, center, eventDay, rankBackup,
                   restored, giveUps>>

RankingNext ==
    \/ Join \/ RunOnce \/ Pause \/ Resume \/ Exit \/ Register \/ RegisterUnanswered \/ Reconcile
    \/ LookAtYesterday \/ LookAtToday \/ AggregateDay \/ Allocate \/ EndSync \/ GiveUp
    \/ CrashKeeper \/ BackupStore \/ RestoreStore \/ CommitEvent \/ RankingTick
    \/ \E r \in inFlight : Deliver(r) \/ LoseRequest(r)

RankingSpec == RankingInit /\ [][RankingNext]_rankingVars

-----------------------------------------------------------------------------
(* A day believed complete was reported with every event up to the one noted  *)
(* with it, and so was what the memory takes as reported of today.            *)
HasReport(day, event) ==
    \E q \in center.reports : q.day = day /\ {e \in Events(day) : e <= event} \subseteq q.events

ReportedMeansReceived ==
    /\ rankStore.completeEvent # 0 => HasReport(rankStore.completeDay, rankStore.completeEvent)
    /\ dynamicEvent # 0 => HasReport(dynamicDay, dynamicEvent)

(* Whatever was lost or given up, after any crash and after older settings    *)
(* were put back, a request waited for has a number new to the center.        *)
NumbersAreFresh ==
    \A r \in inFlight : Waits(r) => r.sequence > center.sequence

(* Only what the center has deleted counts as deleted here.                   *)
DeletedTogether == rankStore.status = "deleted" => center.status = "deleted"

RankingAgrees == ReportedMeansReceived /\ NumbersAreFresh /\ DeletedTogether
=============================================================================
