---------------------------- MODULE QuotaRefresh ----------------------------
(* The refresh tasks of the quota service: internal/quota/refresh.go,      *)
(* auto_refresh.go, inspection.go and the life cycle of service.go.        *)
(* One record per credential is shared by three kinds of handlers (a       *)
(* request of a user, the automatic round, an inspection), by the          *)
(* dispatcher goroutine each of them starts and by the workers.            *)
(* Every action is one critical section or one channel operation.          *)
EXTENDS Naturals, FiniteSets

CONSTANTS Keys,     \* credentials, the auth_index values of the Auth Files
          Slots,    \* handlers, each with its dispatcher, under way at once
          Workers,  \* the worker tokens
          MaxStarts \* bound on the handlers that are ever started

ASSUME QuotaAssumption == MaxStarts \in Nat

VARIABLES
    task,         \* refreshTasks: the record of each credential
    op,           \* what a slot was started for
    pc,           \* where the slot's goroutine is
    todo,         \* credentials it has still to examine, dispatch or fail
    hand,         \* the credential between its check and its task (0 or 1)
    queued,       \* credentials it created a task for
    adopted,      \* credentials whose task it counts as its own
    worker,       \* the goroutine that holds each worker token
    autoRunning,  \* autoRefreshRunning
    roundActive,  \* inspectionRoundActive
    roundKeys,    \* inspectionRoundAuthIndexSet
    completed,    \* inspectionCompletedAt is set
    lifecycle,    \* up, context cancelled, refreshClosing, stopped
    started,      \* handlers started so far
    abandoned     \* history: queued by a request that ended in an error

slotVars == <<op, pc, todo, hand, queued, adopted>>
roundVars == <<roundActive, roundKeys, completed>>
appVars == <<lifecycle, started, abandoned>>
restVars == <<worker, autoRunning, roundVars, appVars>>
vars == <<task, slotVars, restVars>>

Sources == {"manual", "scheduled", "inspection"}

(* A list is walked in its order; which order does not matter here.        *)
First(keys) == CHOOSE k \in keys : TRUE

(* Mutant: only a queued task keeps others from queueing the credential. *)
ActiveQueued(k) == task[k].status = "queued"

(* Source is kept while the task is active; nothing reads it later.        *)
Absent == [status |-> "none", source |-> "none"]
Queued(source) == [status |-> "queued", source |-> source]

Active(k) == task[k].status \in {"queued", "running"}

(* A result goes into the record the credential has, whatever it is.       *)
Settled(k, status) ==
    IF task[k] = Absent THEN Absent
    ELSE [status |-> status, source |-> "none"]

(* denied: failed with a status of RefreshCacheableHTTPStatusCodes. Only   *)
(* failures expire; which are past their time is left open, as the clock   *)
(* is not modelled.                                                        *)
CleanupExpired ==
    \E gone \in SUBSET {k \in Keys : task[k].status \in {"failed", "denied"}} :
        task' = [k \in Keys |-> IF k \in gone THEN Absent ELSE task[k]]

SourceOf(r) ==
    CASE op[r] = "auto"    -> "scheduled"
      [] op[r] = "inspect" -> "inspection"
      [] OTHER             -> "manual"

GoTo(r, place) == pc' = [pc EXCEPT ![r] = place]

Free(r) ==
    /\ op' = [op EXCEPT ![r] = "none"]
    /\ GoTo(r, "idle")
    /\ todo' = [todo EXCEPT ![r] = {}]
    /\ hand' = [hand EXCEPT ![r] = {}]
    /\ queued' = [queued EXCEPT ![r] = {}]
    /\ adopted' = [adopted EXCEPT ![r] = {}]

CanStart(r) ==
    /\ pc[r] = "idle"
    /\ lifecycle # "stopped"
    /\ started < MaxStarts
    /\ started' = started + 1

Begin(r, what, place, keys) ==
    /\ CanStart(r)
    /\ op' = [op EXCEPT ![r] = what]
    /\ GoTo(r, place)
    /\ todo' = [todo EXCEPT ![r] = keys]
    /\ UNCHANGED <<hand, queued, adopted>>

Init ==
    /\ task = [k \in Keys |-> Absent]
    /\ op = [r \in Slots |-> "none"]
    /\ pc = [r \in Slots |-> "idle"]
    /\ todo = [r \in Slots |-> {}]
    /\ hand = [r \in Slots |-> {}]
    /\ queued = [r \in Slots |-> {}]
    /\ adopted = [r \in Slots |-> {}]
    /\ worker = [w \in Workers |-> [pc |-> "idle", keys |-> {}]]
    /\ autoRunning = FALSE
    /\ roundActive = FALSE
    /\ roundKeys = {}
    /\ completed = FALSE
    /\ lifecycle = "up"
    /\ started = 0
    /\ abandoned = {}

-----------------------------------------------------------------------------
(* Handlers: what creates tasks.                                           *)

(* Refresh: the request of a user for some credentials.                    *)
BeginRefresh(r) ==
    /\ \E keys \in (SUBSET Keys) \ {{}} : Begin(r, "refresh", "examine", keys)
    /\ CleanupExpired
    /\ UNCHANGED <<worker, autoRunning, roundVars, lifecycle, abandoned>>

(* StartInspection, up to its first critical section.                      *)
BeginInspection(r) ==
    /\ Begin(r, "inspect", "clear", {})
    /\ UNCHANGED <<task, worker, autoRunning, roundVars, lifecycle, abandoned>>

(* StartAutoRefresh is one goroutine: it begins a round when it is not in  *)
(* the handler part of another and the previous round is over.             *)
InAutoHandler(r) == op[r] = "auto" /\ pc[r] \in {"list", "examine"}

BeginAutoRefresh(r) ==
    /\ lifecycle = "up"
    /\ \A s \in Slots : ~InAutoHandler(s)
    /\ ~autoRunning
    /\ autoRunning' = TRUE
    /\ Begin(r, "auto", "list", {})
    /\ UNCHANGED <<task, worker, roundVars, lifecycle, abandoned>>

(* clearSettledRefreshTasks                                                *)
ClearSettled(r) ==
    /\ pc[r] = "clear"
    /\ task' = [k \in Keys |-> IF Active(k) THEN task[k] ELSE Absent]
    /\ GoTo(r, "reset")
    /\ UNCHANGED <<op, todo, hand, queued, adopted, restVars>>

(* resetInspectionRound                                                    *)
ResetRound(r) ==
    /\ pc[r] = "reset"
    /\ roundActive' = FALSE
    /\ roundKeys' = {}
    /\ completed' = FALSE
    /\ GoTo(r, "list")
    /\ UNCHANGED <<task, op, todo, hand, queued, adopted, worker,
                   autoRunning, appVars>>

(* Mutant: the round that cannot list keeps its flag. *)
ListFailsKeeping(r) ==
    /\ pc[r] = "list"
    /\ Free(r)
    /\ CleanupExpired
    /\ UNCHANGED restVars

(* queueAuthFileRefreshRound begins: the clean-up, then the list of the    *)
(* Auth Files, any of which may be disabled or gone by now.                *)
ListAuthFiles(r) ==
    /\ pc[r] = "list"
    /\ \E keys \in SUBSET Keys : todo' = [todo EXCEPT ![r] = keys]
    /\ GoTo(r, "examine")
    /\ CleanupExpired
    /\ UNCHANGED <<op, hand, queued, adopted, restVars>>

ListFails(r) ==
    /\ pc[r] = "list"
    /\ Free(r)
    /\ autoRunning' = (autoRunning /\ op[r] # "auto")
    /\ CleanupExpired
    /\ UNCHANGED <<worker, roundVars, appVars>>

Examinable(r) == pc[r] = "examine" /\ hand[r] = {}

(* A user's request is refused for a credential with an active task, the   *)
(* automatic round skips one with a cached 401 or 402.                     *)
Skipped(r, k) ==
    \/ op[r] = "refresh" /\ Active(k)
    \/ op[r] = "auto" /\ task[k].status = "denied"

(* The credential is refused, unsupported or skipped; otherwise its task   *)
(* is created in the next critical section.                                *)
Refuse(r) ==
    /\ Examinable(r)
    /\ todo[r] # {}
    /\ todo' = [todo EXCEPT ![r] = @ \ {First(@)}]
    /\ UNCHANGED <<task, op, pc, hand, queued, adopted, restVars>>

Admit(r) ==
    /\ Examinable(r)
    /\ todo[r] # {}
    /\ ~Skipped(r, First(todo[r]))
    /\ todo' = [todo EXCEPT ![r] = @ \ {First(@)}]
    /\ hand' = [hand EXCEPT ![r] = {First(todo[r])}]
    /\ UNCHANGED <<task, op, pc, queued, adopted, restVars>>

(* validateRefreshAuthIndex returns an error of the database: Refresh      *)
(* returns at once, before it has dispatched what it queued already.       *)
ValidationFails(r) ==
    /\ Examinable(r)
    /\ op[r] = "refresh"
    /\ todo[r] # {}
    /\ ~Active(First(todo[r]))
    /\ abandoned' = abandoned \cup queued[r]
    /\ Free(r)
    /\ UNCHANGED <<task, worker, autoRunning, roundVars, lifecycle, started>>

(* ensureRefreshTaskWithIdentity and what its callers make of the answer.  *)
Ensure(r, k) ==
    /\ pc[r] = "examine"
    /\ k \in hand[r]
    /\ hand' = [hand EXCEPT ![r] = {}]
    /\ IF Active(k)
       THEN /\ adopted' = IF op[r] = "inspect" /\ task[k].source = "inspection"
                          THEN [adopted EXCEPT ![r] = @ \cup {k}]
                          ELSE adopted
            /\ UNCHANGED <<task, queued>>
       ELSE /\ task' = [task EXCEPT ![k] = Queued(SourceOf(r))]
            /\ queued' = [queued EXCEPT ![r] = @ \cup {k}]
            /\ UNCHANGED adopted
    /\ UNCHANGED <<op, pc, todo, restVars>>

Examined(r) == Examinable(r) /\ todo[r] = {}

(* setInspectionRoundAuthIndexes                                           *)
RecordRound(r) ==
    /\ Examined(r)
    /\ op[r] = "inspect"
    /\ roundActive' = TRUE
    /\ roundKeys' = queued[r] \cup adopted[r]
    /\ adopted' = [adopted EXCEPT ![r] = {}]
    /\ GoTo(r, "launch")
    /\ UNCHANGED <<task, op, todo, hand, queued, worker, autoRunning,
                   completed, appVars>>

ReadyToLaunch(r) ==
    pc[r] = "launch" \/ (Examined(r) /\ op[r] \in {"refresh", "auto"})

(* startRefreshGoroutine: a dispatcher, unless the service is closing.     *)
Launch(r) ==
    /\ ReadyToLaunch(r)
    /\ queued[r] # {}
    /\ GoTo(r, IF lifecycle = "closing" THEN "refused" ELSE "dispatch")
    /\ todo' = [todo EXCEPT ![r] = queued[r]]
    /\ queued' = [queued EXCEPT ![r] = IF op[r] = "auto" THEN @ ELSE {}]
    /\ UNCHANGED <<task, op, hand, adopted, restVars>>

NothingToLaunch(r) ==
    /\ ReadyToLaunch(r)
    /\ queued[r] = {}
    /\ Free(r)
    /\ autoRunning' = (autoRunning /\ op[r] # "auto")
    /\ UNCHANGED <<task, worker, roundVars, appVars>>

-----------------------------------------------------------------------------
(* Dispatchers.                                                            *)

(* Mutant: a cancelled dispatcher leaves the rest of its list queued. *)
DispatchCancelledDropping(r) ==
    /\ pc[r] = "dispatch"
    /\ todo[r] # {}
    /\ lifecycle # "up"
    /\ todo' = [todo EXCEPT ![r] = {}]
    /\ UNCHANGED <<task, op, pc, hand, queued, adopted, restVars>>

(* A token is free, the worker is started with it. When the service has    *)
(* begun to close, the token goes back and the rest of the list fails.     *)
TakeToken(r, w) ==
    /\ pc[r] = "dispatch"
    /\ worker[w].pc = "idle"
    /\ todo[r] # {}
    /\ IF lifecycle = "closing"
       THEN GoTo(r, "failing") /\ UNCHANGED <<todo, worker>>
       ELSE /\ worker' = [worker EXCEPT ![w] =
                            [pc |-> "start", keys |-> {First(todo[r])}]]
            /\ todo' = [todo EXCEPT ![r] = @ \ {First(@)}]
            /\ UNCHANGED pc
    /\ UNCHANGED <<task, op, hand, queued, adopted, autoRunning,
                   roundVars, appVars>>

DispatchCancelled(r) ==
    /\ pc[r] = "dispatch"
    /\ todo[r] # {}
    /\ lifecycle # "up"
    /\ GoTo(r, "failing")
    /\ UNCHANGED <<task, op, todo, hand, queued, adopted, restVars>>

(* markQueuedRefreshTasksFailed, one record after the other.               *)
FailQueued(r) ==
    /\ pc[r] \in {"failing", "refused"}
    /\ todo[r] # {}
    /\ LET k == First(todo[r]) IN
        /\ task' = [task EXCEPT ![k] = Settled(k, "failed")]
        /\ todo' = [todo EXCEPT ![r] = @ \ {k}]
    /\ UNCHANGED <<op, pc, hand, queued, adopted, restVars>>

Dispatched(r) == pc[r] \in {"dispatch", "failing", "refused"} /\ todo[r] = {}

DispatcherEnds(r) ==
    /\ Dispatched(r)
    /\ op[r] # "auto"
    /\ Free(r)
    /\ UNCHANGED <<task, restVars>>

(* hasActiveRefreshTask, the condition of waitForAutoRefreshTasks.         *)
RoundStillActive(r) ==
    \E k \in queued[r] : Active(k) /\ task[k].source = "scheduled"

(* dispatchAutoRefreshTasks: the round ends when its tasks have, or when   *)
(* the context is cancelled.                                               *)
AutoRoundEnds(r) ==
    /\ Dispatched(r)
    /\ op[r] = "auto"
    /\ ~RoundStillActive(r) \/ lifecycle # "up"
    /\ autoRunning' = FALSE
    /\ Free(r)
    /\ UNCHANGED <<task, worker, roundVars, appVars>>

-----------------------------------------------------------------------------
(* Workers: runRefreshTaskWithWorker.                                      *)

(* markRefreshTaskRunning: only a queued task is run.                      *)
StartTask(w) ==
    /\ worker[w].pc = "start"
    /\ \E k \in worker[w].keys :
        IF task[k].status = "queued"
        THEN /\ task' = [task EXCEPT ![k].status = "running"]
             /\ worker' = [worker EXCEPT ![w].pc = "check"]
        ELSE /\ worker' = [worker EXCEPT ![w] = [pc |-> "cool", keys |-> {}]]
             /\ UNCHANGED task
    /\ UNCHANGED <<slotVars, autoRunning, roundVars, appVars>>

(* The provider has answered, or the time-out of the task has. A type that *)
(* is no longer supported removes the record.                              *)
Results(k) ==
    {Settled(k, status) : status \in {"completed", "failed", "denied"}}
        \cup {Absent}

FinishTask(w) ==
    /\ worker[w].pc = "check"
    /\ \E k \in worker[w].keys :
        \E result \in Results(k) : task' = [task EXCEPT ![k] = result]
    /\ worker' = [worker EXCEPT ![w] = [pc |-> "cool", keys |-> {}]]
    /\ UNCHANGED <<slotVars, autoRunning, roundVars, appVars>>

(* The pause of a second, then the token is given back.                    *)
ReleaseToken(w) ==
    /\ worker[w].pc = "cool"
    /\ worker' = [worker EXCEPT ![w].pc = "idle"]
    /\ UNCHANGED <<task, slotVars, autoRunning, roundVars,
                   appVars>>

-----------------------------------------------------------------------------
(* Reads and the life cycle.                                               *)

InspectionActive(k) == Active(k) /\ task[k].source = "inspection"

(* inspectionRoundCompletedLocked                                          *)
RoundCompleted ==
    /\ roundActive
    /\ roundKeys # {}
    /\ completed \/ \A k \in roundKeys : ~InspectionActive(k)

(* GetInspectionStatus: the first poll that finds the round done notes it. *)
PollInspection ==
    /\ RoundCompleted
    /\ completed' = TRUE
    /\ UNCHANGED <<task, slotVars, worker, autoRunning, roundActive,
                   roundKeys, appVars>>

(* GetCachedQuota, GetRefreshTaskByAuthIndex and each poll clean up first. *)
ReadTasks ==
    /\ CleanupExpired
    /\ UNCHANGED <<slotVars, restVars>>

(* App.stopBackgroundTasks cancels the context and waits for the loop of   *)
(* the automatic refresh, StopRefreshTasks closes the group of goroutines  *)
(* and waits for them.                                                     *)
CancelContext ==
    /\ lifecycle = "up"
    /\ lifecycle' = "cancelled"
    /\ UNCHANGED <<task, slotVars, worker, autoRunning, roundVars,
                   started, abandoned>>

CloseTasks ==
    /\ lifecycle = "cancelled"
    /\ \A r \in Slots : ~InAutoHandler(r)
    /\ lifecycle' = "closing"
    /\ UNCHANGED <<task, slotVars, worker, autoRunning, roundVars,
                   started, abandoned>>

Drained ==
    /\ \A r \in Slots : pc[r] \notin {"dispatch", "failing"}
    /\ \A w \in Workers : worker[w].pc = "idle"

Stopped ==
    /\ lifecycle = "closing"
    /\ Drained
    /\ lifecycle' = "stopped"
    /\ UNCHANGED <<task, slotVars, worker, autoRunning, roundVars,
                   started, abandoned>>

-----------------------------------------------------------------------------
Handler(r) ==
    \/ ClearSettled(r) \/ ResetRound(r) \/ ListAuthFiles(r) \/ ListFails(r)
    \/ Refuse(r) \/ Admit(r) \/ \E k \in Keys : Ensure(r, k)
    \/ ValidationFails(r)
    \/ RecordRound(r) \/ Launch(r) \/ NothingToLaunch(r)

Dispatcher(r) ==
    \/ DispatchCancelled(r) \/ FailQueued(r)
    \/ DispatcherEnds(r) \/ AutoRoundEnds(r)

Worker(w) == StartTask(w) \/ FinishTask(w) \/ ReleaseToken(w)

Next ==
    \/ \E r \in Slots :
        \/ BeginRefresh(r) \/ BeginInspection(r) \/ BeginAutoRefresh(r)
        \/ Handler(r) \/ Dispatcher(r)
        \/ \E w \in Workers : TakeToken(r, w)
    \/ \E w \in Workers : Worker(w)
    \/ PollInspection \/ ReadTasks
    \/ CancelContext \/ CloseTasks \/ Stopped

Spec == Init /\ [][Next]_vars

(* Goroutines run on; a sender that waits on the channel of tokens is      *)
(* served in its turn; the shutdown goes on once its wait is over.         *)
Fairness ==
    /\ \A r \in Slots :
        /\ WF_vars(Handler(r))
        /\ WF_vars(Dispatcher(r))
        /\ SF_vars(\E w \in Workers : TakeToken(r, w))
    /\ \A w \in Workers : WF_vars(Worker(w))
    /\ WF_vars(CloseTasks)
    /\ WF_vars(Stopped)

FairSpec == Spec /\ Fairness

-----------------------------------------------------------------------------
(* Properties *)

TypeOK ==
    /\ task \in [Keys -> [status : {"none", "queued", "running", "completed",
                                    "failed", "denied"},
                          source : Sources \cup {"none"}]]
    /\ op \in [Slots -> {"none", "refresh", "inspect", "auto"}]
    /\ pc \in [Slots -> {"idle", "clear", "reset", "list", "examine", "launch",
                         "dispatch", "failing", "refused"}]
    /\ todo \in [Slots -> SUBSET Keys]
    /\ hand \in [Slots -> SUBSET Keys]
    /\ queued \in [Slots -> SUBSET Keys]
    /\ adopted \in [Slots -> SUBSET Keys]
    /\ worker \in [Workers -> [pc : {"idle", "start", "check", "cool"},
                               keys : SUBSET Keys]]
    /\ autoRunning \in BOOLEAN
    /\ roundActive \in BOOLEAN
    /\ roundKeys \in SUBSET Keys
    /\ completed \in BOOLEAN
    /\ lifecycle \in {"up", "cancelled", "closing", "stopped"}
    /\ started \in 0..MaxStarts
    /\ abandoned \in SUBSET Keys

(* No credential is checked twice at once, and a worker that comes back    *)
(* with a result finds the record it was computed for, still running: the  *)
(* results are written by name, without a look at the record's state.      *)
ResultHitsItsTask ==
    /\ \A w \in Workers : worker[w].pc = "check" =>
          \A k \in worker[w].keys : task[k].status = "running"
    /\ \A v, w \in Workers :
          v # w /\ worker[v].pc = "check" /\ worker[w].pc = "check"
              => worker[v].keys \cap worker[w].keys = {}

(* autoRefreshRunning is set exactly while a round is under way, from its  *)
(* scan to the end of its last task, and there is one round at most: a     *)
(* flag that is left behind would end the automatic refresh for good.      *)
OneAutoRound ==
    /\ autoRunning <=> \E r \in Slots : op[r] = "auto"
    /\ \A r, s \in Slots : op[r] = "auto" /\ op[s] = "auto" => r = s

(* Every task comes to an end, also across a shutdown, unless the request  *)
(* that queued it was abandoned by a failing look-up in the database.      *)
EveryTaskSettles ==
    \A k \in Keys : Active(k) ~> ~Active(k) \/ k \in abandoned

(* A round of an inspection is over at some time and a poll would report   *)
(* it, unless another inspection has reset it or put an empty one there.   *)
InspectionEnds ==
    roundActive /\ roundKeys # {}
        ~> RoundCompleted \/ ~roundActive \/ roundKeys = {}

(* The automatic round gives its flag back.                                *)
AutoRoundEnding == autoRunning ~> ~autoRunning

(* StopRefreshTasks returns: the dispatchers that wait for a token and the *)
(* workers that hold one do not wait for each other.                       *)
StopReturns == lifecycle = "cancelled" ~> lifecycle = "stopped"

(* Whatever is started ends: tasks, rounds, the automatic round, the stop. *)
StartedWorkEnds ==
    EveryTaskSettles /\ InspectionEnds /\ AutoRoundEnding /\ StopReturns

(* A comment in GetInspectionStatus (inspection.go:178) says that an       *)
(* inspection is completed only when no inspection task is active.         *)
CompletedMeansSettled ==
    roundActive /\ completed => \A k \in roundKeys : ~InspectionActive(k)
=============================================================================
