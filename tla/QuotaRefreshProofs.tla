------------------------- MODULE QuotaRefreshProofs -------------------------
(* Theorems about the refresh tasks of the quota service, for any number of  *)
(* credentials, handlers and worker tokens.                                  *)
EXTENDS QuotaRefresh, TLAPS

-----------------------------------------------------------------------------
(* Type correctness.                                                         *)

Records == [status : {"none", "queued", "running", "completed", "failed", "denied"},
            source : Sources \cup {"none"}]

SlotsTyped ==
    /\ op \in [Slots -> {"none", "refresh", "inspect", "auto"}]
    /\ pc \in [Slots -> {"idle", "clear", "reset", "list", "examine", "launch",
                         "dispatch", "failing", "refused"}]
    /\ todo \in [Slots -> SUBSET Keys] /\ hand \in [Slots -> SUBSET Keys]
    /\ queued \in [Slots -> SUBSET Keys] /\ adopted \in [Slots -> SUBSET Keys]

WorkersTyped ==
    worker \in [Workers -> [pc : {"idle", "start", "check", "cool"}, keys : SUBSET Keys]]

RoundsTyped ==
    /\ autoRunning \in BOOLEAN /\ roundActive \in BOOLEAN /\ roundKeys \in SUBSET Keys
    /\ completed \in BOOLEAN

AppTyped ==
    /\ lifecycle \in {"up", "cancelled", "closing", "stopped"}
    /\ started \in 0..MaxStarts /\ abandoned \in SUBSET Keys

\* The type invariant is made of these parts.
LEMMA TypeParts ==
    TypeOK <=> /\ task \in [Keys -> Records] /\ SlotsTyped /\ WorkersTyped /\ RoundsTyped
               /\ AppTyped
BY Zenon DEF TypeOK, Records, SlotsTyped, WorkersTyped, RoundsTyped, AppTyped

\* The first of some credentials is one of them.
LEMMA FirstOfKeys == ASSUME NEW S, S # {} PROVE First(S) \in S
BY DEF First

\* The clean-up leaves records of their type.
LEMMA CleanupTyped ==
    ASSUME task \in [Keys -> Records], CleanupExpired PROVE task' \in [Keys -> Records]
BY DEF CleanupExpired, Records, Absent

\* What a result makes of a record is a record.
LEMMA SettledTyped ==
    ASSUME NEW k \in Keys, NEW status \in {"completed", "failed", "denied"}
    PROVE  Settled(k, status) \in Records /\ Absent \in Records
BY DEF Settled, Absent, Records

\* Tasks keep their type.
LEMMA TasksNext == ASSUME TypeOK, Next PROVE task' \in [Keys -> Records]
<1>0. task \in [Keys -> Records]
  BY TypeParts
<1>1. CASE UNCHANGED task
  BY <1>0, <1>1
<1>2. CASE CleanupExpired
  BY <1>0, <1>2, CleanupTyped
<1>3. ASSUME NEW r \in Slots, ClearSettled(r) PROVE task' \in [Keys -> Records]
  BY <1>0, <1>3 DEF ClearSettled, Absent, Records
<1>4. ASSUME NEW r \in Slots, NEW k \in Keys, Ensure(r, k) PROVE task' \in [Keys -> Records]
  BY <1>0, <1>4 DEF Ensure, Queued, SourceOf, Records, Sources
<1>5. ASSUME NEW r \in Slots, FailQueued(r) PROVE task' \in [Keys -> Records]
  <2>1. First(todo[r]) \in Keys
    BY <1>5, FirstOfKeys DEF FailQueued, TypeOK
  <2>2. Settled(First(todo[r]), "failed") \in Records
    BY <2>1, SettledTyped
  <2>3. task' = [task EXCEPT ![First(todo[r])] = Settled(First(todo[r]), "failed")]
    BY <1>5 DEF FailQueued
  <2> QED BY <1>0, <2>1, <2>2, <2>3
<1>6. ASSUME NEW w \in Workers, StartTask(w) PROVE task' \in [Keys -> Records]
  <2>1. PICK k \in worker[w].keys :
          task' = [task EXCEPT ![k].status = "running"] \/ UNCHANGED task
    BY <1>6 DEF StartTask
  <2>2. k \in Keys
    BY <2>1 DEF TypeOK
  <2> QED BY <1>0, <2>1, <2>2 DEF Records
<1>7. ASSUME NEW w \in Workers, FinishTask(w) PROVE task' \in [Keys -> Records]
  <2>1. PICK k \in worker[w].keys :
          \E result \in Results(k) : task' = [task EXCEPT ![k] = result]
    BY <1>7 DEF FinishTask
  <2>2. k \in Keys
    BY <2>1 DEF TypeOK
  <2>3. Results(k) \subseteq Records
    BY <2>2, SettledTyped DEF Results
  <2> QED BY <1>0, <2>1, <2>2, <2>3
<1>8. ASSUME NEW r \in Slots,
             BeginRefresh(r) \/ ListAuthFiles(r) \/ ListFails(r)
      PROVE  CleanupExpired
  BY <1>8, Zenon DEF BeginRefresh, ListAuthFiles, ListFails
<1>9. ASSUME NEW r \in Slots,
             \/ BeginInspection(r) \/ BeginAutoRefresh(r) \/ ResetRound(r) \/ Refuse(r)
             \/ Admit(r) \/ ValidationFails(r) \/ RecordRound(r) \/ Launch(r)
             \/ NothingToLaunch(r) \/ DispatchCancelled(r) \/ DispatcherEnds(r)
             \/ AutoRoundEnds(r) \/ \E w \in Workers : TakeToken(r, w)
      PROVE  UNCHANGED task
  BY <1>9, Zenon DEF BeginInspection, BeginAutoRefresh, ResetRound, Refuse, Admit,
       ValidationFails, RecordRound, Launch, NothingToLaunch, DispatchCancelled,
       DispatcherEnds, AutoRoundEnds, TakeToken
<1>10. ASSUME \/ \E w \in Workers : ReleaseToken(w)
              \/ PollInspection \/ CancelContext \/ CloseTasks \/ Stopped
       PROVE  UNCHANGED task
  BY <1>10, Zenon DEF ReleaseToken, PollInspection, CancelContext, CloseTasks, Stopped
<1>11. CASE ReadTasks
  BY <1>11, <1>2 DEF ReadTasks
<1> QED BY <1>1, <1>2, <1>3, <1>4, <1>5, <1>6, <1>7, <1>8, <1>9, <1>10, <1>11, Zenon
        DEF Next, Handler, Dispatcher, Worker

\* A slot that is given back keeps the types of the slots.
LEMMA FreeTyped == ASSUME SlotsTyped, NEW r \in Slots, Free(r) PROVE SlotsTyped'
BY DEF SlotsTyped, Free, GoTo

\* Slots keep their type.
LEMMA SlotsNext == ASSUME TypeOK, Next PROVE SlotsTyped'
<1>0. SlotsTyped
  BY TypeParts
<1> USE <1>0 DEF SlotsTyped
<1>1. ASSUME NEW r \in Slots, BeginRefresh(r) PROVE SlotsTyped'
  BY <1>1 DEF BeginRefresh, Begin, GoTo
<1>2. ASSUME NEW r \in Slots, BeginInspection(r) \/ BeginAutoRefresh(r) PROVE SlotsTyped'
  BY <1>2 DEF BeginInspection, BeginAutoRefresh, Begin, GoTo
<1>3. ASSUME NEW r \in Slots, ClearSettled(r) \/ ResetRound(r) PROVE SlotsTyped'
  BY <1>3 DEF ClearSettled, ResetRound, GoTo
<1>4. ASSUME NEW r \in Slots, ListAuthFiles(r) PROVE SlotsTyped'
  BY <1>4 DEF ListAuthFiles, GoTo
<1>5. ASSUME NEW r \in Slots,
             \/ ListFails(r) \/ ValidationFails(r) \/ NothingToLaunch(r)
             \/ DispatcherEnds(r) \/ AutoRoundEnds(r)
      PROVE  SlotsTyped'
  <2>1. Free(r)
    BY <1>5, Zenon DEF ListFails, ValidationFails, NothingToLaunch, DispatcherEnds, AutoRoundEnds
  <2> QED BY <2>1, FreeTyped
<1>6. ASSUME NEW r \in Slots, Refuse(r) PROVE SlotsTyped'
  BY <1>6 DEF Refuse
<1>7. ASSUME NEW r \in Slots, Admit(r) PROVE SlotsTyped'
  <2>1. First(todo[r]) \in Keys
    BY <1>7, FirstOfKeys DEF Admit
  <2> QED BY <1>7, <2>1 DEF Admit
<1>8. ASSUME NEW r \in Slots, NEW k \in Keys, Ensure(r, k) PROVE SlotsTyped'
  BY <1>8 DEF Ensure
<1>9. ASSUME NEW r \in Slots, RecordRound(r) PROVE SlotsTyped'
  BY <1>9 DEF RecordRound, GoTo
<1>10. ASSUME NEW r \in Slots, Launch(r) PROVE SlotsTyped'
  BY <1>10 DEF Launch, GoTo
<1>11. ASSUME NEW r \in Slots, DispatchCancelled(r) \/ FailQueued(r) PROVE SlotsTyped'
  BY <1>11 DEF DispatchCancelled, FailQueued, GoTo
<1>12. ASSUME NEW r \in Slots, NEW w \in Workers, TakeToken(r, w) PROVE SlotsTyped'
  BY <1>12 DEF TakeToken, GoTo
<1>13. ASSUME (\E w \in Workers : Worker(w)) \/ PollInspection \/ ReadTasks \/ CancelContext
              \/ CloseTasks \/ Stopped
       PROVE  SlotsTyped'
  <2>1. UNCHANGED slotVars
    BY <1>13, Zenon DEF Worker, StartTask, FinishTask, ReleaseToken, PollInspection, ReadTasks,
         CancelContext, CloseTasks, Stopped
  <2> QED BY <2>1 DEF slotVars
<1> QED BY <1>1, <1>2, <1>3, <1>4, <1>5, <1>6, <1>7, <1>8, <1>9, <1>10, <1>11, <1>12, <1>13,
           Zenon DEF Next, Handler, Dispatcher

\* Workers keep their type.
LEMMA WorkersNext == ASSUME TypeOK, Next PROVE WorkersTyped'
<1>0. WorkersTyped
  BY TypeParts
<1>1. CASE UNCHANGED worker
  BY <1>0, <1>1 DEF WorkersTyped
<1>2. ASSUME NEW r \in Slots, NEW w \in Workers, TakeToken(r, w) PROVE WorkersTyped'
  <2>1. First(todo[r]) \in Keys
    BY <1>2, FirstOfKeys DEF TakeToken, TypeOK
  <2> QED BY <1>0, <1>2, <2>1 DEF TakeToken, WorkersTyped
<1>3. ASSUME NEW w \in Workers, Worker(w) PROVE WorkersTyped'
  BY <1>0, <1>3 DEF Worker, StartTask, FinishTask, ReleaseToken, WorkersTyped
<1>4. ASSUME \/ \E r \in Slots : BeginRefresh(r) \/ BeginInspection(r) \/ BeginAutoRefresh(r)
                                   \/ Handler(r) \/ Dispatcher(r)
             \/ PollInspection \/ ReadTasks \/ CancelContext \/ CloseTasks \/ Stopped
      PROVE  UNCHANGED worker
  BY <1>4, Zenon DEF BeginRefresh, BeginInspection, BeginAutoRefresh, Handler, ClearSettled,
       ResetRound, ListAuthFiles, ListFails, Refuse, Admit, Ensure, ValidationFails,
       RecordRound, Launch, NothingToLaunch, Dispatcher, DispatchCancelled, FailQueued,
       DispatcherEnds, AutoRoundEnds, PollInspection, ReadTasks, CancelContext, CloseTasks,
       Stopped, restVars
<1> QED BY <1>1, <1>2, <1>3, <1>4, Zenon DEF Next

\* The flags and the keys of the round keep their type.
LEMMA RoundsNext == ASSUME TypeOK, Next PROVE RoundsTyped'
<1>0. RoundsTyped
  BY TypeParts
<1>1. CASE UNCHANGED <<autoRunning, roundVars>>
  BY <1>0, <1>1 DEF RoundsTyped, roundVars
<1>2. ASSUME NEW r \in Slots, BeginAutoRefresh(r) \/ ResetRound(r) PROVE RoundsTyped'
  BY <1>0, <1>2, Zenon DEF BeginAutoRefresh, ResetRound, RoundsTyped, roundVars
<1>3. ASSUME NEW r \in Slots, ListFails(r) \/ NothingToLaunch(r) \/ AutoRoundEnds(r)
      PROVE  RoundsTyped'
  BY <1>0, <1>3, Zenon DEF ListFails, NothingToLaunch, AutoRoundEnds, RoundsTyped, roundVars
<1>4. ASSUME NEW r \in Slots, RecordRound(r) PROVE RoundsTyped'
  <2>1. roundKeys' \in SUBSET Keys
    BY <1>4 DEF RecordRound, TypeOK
  <2> QED BY <1>0, <1>4, <2>1, Zenon DEF RecordRound, RoundsTyped
<1>5. CASE PollInspection
  BY <1>0, <1>5, Zenon DEF PollInspection, RoundsTyped
<1>6. ASSUME \/ \E r \in Slots :
                  \/ BeginRefresh(r) \/ BeginInspection(r) \/ ClearSettled(r)
                  \/ ListAuthFiles(r) \/ Refuse(r) \/ Admit(r) \/ (\E k \in Keys : Ensure(r, k))
                  \/ ValidationFails(r) \/ Launch(r) \/ DispatchCancelled(r) \/ FailQueued(r)
                  \/ DispatcherEnds(r) \/ \E w \in Workers : TakeToken(r, w)
             \/ (\E w \in Workers : Worker(w)) \/ ReadTasks \/ CancelContext \/ CloseTasks
             \/ Stopped
      PROVE  UNCHANGED <<autoRunning, roundVars>>
  BY <1>6, Zenon DEF BeginRefresh, BeginInspection, ClearSettled, ListAuthFiles, Refuse, Admit,
       Ensure, ValidationFails, Launch, DispatchCancelled, FailQueued, DispatcherEnds,
       TakeToken, Worker, StartTask, FinishTask, ReleaseToken, ReadTasks, CancelContext,
       CloseTasks, Stopped, restVars
<1> QED BY <1>1, <1>2, <1>3, <1>4, <1>5, <1>6, Zenon DEF Next, Handler, Dispatcher

\* The life cycle, the count and the history keep their type.
LEMMA AppNext == ASSUME TypeOK, Next PROVE AppTyped'
<1>0. AppTyped
  BY TypeParts
<1>1. CASE UNCHANGED appVars
  BY <1>0, <1>1 DEF AppTyped, appVars
<1>2. ASSUME NEW r \in Slots, BeginRefresh(r) \/ BeginInspection(r) \/ BeginAutoRefresh(r)
      PROVE  AppTyped'
  <2>1. CanStart(r) /\ UNCHANGED <<lifecycle, abandoned>>
    BY <1>2, Zenon DEF BeginRefresh, BeginInspection, BeginAutoRefresh, Begin
  <2> QED BY <1>0, <2>1, QuotaAssumption DEF CanStart, QuotaAssumption, AppTyped
<1>3. ASSUME NEW r \in Slots, ValidationFails(r) PROVE AppTyped'
  <2>1. abandoned' \in SUBSET Keys
    BY <1>3 DEF ValidationFails, TypeOK
  <2> QED BY <1>0, <1>3, <2>1 DEF ValidationFails, AppTyped
<1>4. CASE CancelContext \/ CloseTasks \/ Stopped
  BY <1>0, <1>4 DEF CancelContext, CloseTasks, Stopped, AppTyped
<1>5. ASSUME \/ \E r \in Slots :
                  \/ ClearSettled(r) \/ ResetRound(r) \/ ListAuthFiles(r) \/ ListFails(r)
                  \/ Refuse(r) \/ Admit(r) \/ (\E k \in Keys : Ensure(r, k))
                  \/ RecordRound(r) \/ Launch(r) \/ NothingToLaunch(r) \/ Dispatcher(r)
                  \/ \E w \in Workers : TakeToken(r, w)
             \/ (\E w \in Workers : Worker(w)) \/ PollInspection \/ ReadTasks
      PROVE  UNCHANGED appVars
  BY <1>5, Zenon DEF ClearSettled, ResetRound, ListAuthFiles, ListFails, Refuse, Admit, Ensure,
       RecordRound, Launch, NothingToLaunch, Dispatcher, DispatchCancelled, FailQueued,
       DispatcherEnds, AutoRoundEnds, TakeToken, Worker, StartTask, FinishTask, ReleaseToken,
       PollInspection, ReadTasks, restVars
<1> QED BY <1>1, <1>2, <1>3, <1>4, <1>5, Zenon DEF Next, Handler

\* Every variable of the refresh tasks keeps its type (refresh.go,
\* auto_refresh.go, inspection.go).
THEOREM TypeCorrect == Spec => []TypeOK
<1>1. Init => TypeOK
  <2> SUFFICES ASSUME Init PROVE TypeOK
    OBVIOUS
  <2>1. /\ task \in [Keys -> Records] /\ SlotsTyped /\ WorkersTyped
    BY DEF Init, Records, Absent, SlotsTyped, WorkersTyped
  <2>2. RoundsTyped
    BY Zenon DEF Init, RoundsTyped
  <2>3. AppTyped
    BY QuotaAssumption DEF QuotaAssumption, Init, AppTyped
  <2> QED BY <2>1, <2>2, <2>3, TypeParts
<1>2. TypeOK /\ [Next]_vars => TypeOK'
  <2>1. ASSUME TypeOK, Next PROVE TypeOK'
    BY <2>1, TasksNext, SlotsNext, WorkersNext, RoundsNext, AppNext, Zenon
       DEF TypeOK, Records, SlotsTyped, WorkersTyped, RoundsTyped, AppTyped
  <2>2. ASSUME TypeOK, UNCHANGED vars PROVE TypeOK'
    BY <2>2, Zenon DEF TypeOK, vars, slotVars, restVars, roundVars, appVars
  <2> QED BY <2>1, <2>2
<1> QED BY <1>1, <1>2, PTL DEF Spec

-----------------------------------------------------------------------------
(* One automatic round at a time.                                            *)

\* A slot is idle exactly when it was started for nothing, and what it queued
\* belongs to the handler that runs in it.
IdleIsFree ==
    /\ \A r \in Slots : pc[r] = "idle" <=> op[r] = "none"
    /\ \A r \in Slots : pc[r] \in {"idle", "clear", "reset", "list"} => queued[r] = {}

\* A slot that is given back is free, whatever it was started for.
LEMMA FreeIsFree ==
    ASSUME TypeOK, IdleIsFree, NEW r \in Slots, Free(r)
    PROVE  /\ IdleIsFree'
           /\ op'[r] = "none" /\ \A s \in Slots \ {r} : op'[s] = op[s]
BY DEF TypeOK, IdleIsFree, Free, GoTo

\* Every step keeps a slot idle while it is started for nothing.
LEMMA IdleNext == ASSUME TypeOK, IdleIsFree, Next PROVE IdleIsFree'
<1> USE DEF TypeOK, IdleIsFree
<1>1. ASSUME NEW r \in Slots, BeginRefresh(r) \/ BeginInspection(r) \/ BeginAutoRefresh(r)
      PROVE  IdleIsFree'
  <2>1. PICK what \in {"refresh", "inspect", "auto"}, place \in {"examine", "clear", "list"} :
          /\ op' = [op EXCEPT ![r] = what] /\ pc' = [pc EXCEPT ![r] = place]
          /\ pc[r] = "idle" /\ queued' = queued
    <3>1. CASE BeginRefresh(r)
      BY <3>1 DEF BeginRefresh, Begin, GoTo, CanStart
    <3>2. CASE BeginInspection(r)
      BY <3>2 DEF BeginInspection, Begin, GoTo, CanStart
    <3>3. CASE BeginAutoRefresh(r)
      BY <3>3 DEF BeginAutoRefresh, Begin, GoTo, CanStart
    <3> QED BY <1>1, <3>1, <3>2, <3>3
  <2> QED BY <2>1
<1>2. ASSUME NEW r \in Slots,
             \/ ListFails(r) \/ ValidationFails(r) \/ NothingToLaunch(r)
             \/ DispatcherEnds(r) \/ AutoRoundEnds(r)
      PROVE  IdleIsFree'
  <2>1. Free(r)
    BY <1>2, Zenon DEF ListFails, ValidationFails, NothingToLaunch, DispatcherEnds, AutoRoundEnds
  <2> QED BY <2>1, FreeIsFree
<1>3. ASSUME NEW r \in Slots, ClearSettled(r) \/ ResetRound(r) \/ ListAuthFiles(r) \/ RecordRound(r)
      PROVE  IdleIsFree'
  BY <1>3 DEF ClearSettled, ResetRound, ListAuthFiles, RecordRound, GoTo, Examined, Examinable
<1>4. ASSUME NEW r \in Slots, Refuse(r) \/ Admit(r) \/ FailQueued(r)
      PROVE  IdleIsFree'
  BY <1>4, Zenon DEF Refuse, Admit, FailQueued
<1>5. ASSUME NEW r \in Slots, NEW k \in Keys, Ensure(r, k) PROVE IdleIsFree'
  BY <1>5 DEF Ensure
<1>6. ASSUME NEW r \in Slots, Launch(r) PROVE IdleIsFree'
  BY <1>6 DEF Launch, ReadyToLaunch, Examined, Examinable, GoTo
<1>7. ASSUME NEW r \in Slots, DispatchCancelled(r) PROVE IdleIsFree'
  BY <1>7 DEF DispatchCancelled, GoTo
<1>8. ASSUME NEW r \in Slots, NEW w \in Workers, TakeToken(r, w) PROVE IdleIsFree'
  BY <1>8 DEF TakeToken, GoTo
<1>9. ASSUME (\E w \in Workers : Worker(w)) \/ PollInspection \/ ReadTasks \/ CancelContext
             \/ CloseTasks \/ Stopped
      PROVE  IdleIsFree'
  <2>1. UNCHANGED slotVars
    BY <1>9, Zenon DEF Worker, StartTask, FinishTask, ReleaseToken, PollInspection, ReadTasks,
         CancelContext, CloseTasks, Stopped
  <2> QED BY <2>1 DEF slotVars
<1> QED BY <1>1, <1>2, <1>3, <1>4, <1>5, <1>6, <1>7, <1>8, <1>9, Zenon
        DEF Next, Handler, Dispatcher

\* Every step keeps the flag with the round.
LEMMA AutoNext == ASSUME TypeOK, IdleIsFree, OneAutoRound, Next PROVE OneAutoRound'
<1> DEFINE Same == autoRunning' = autoRunning /\ \A s \in Slots : op'[s] = op[s]
<1>1. CASE Same
  BY <1>1, Zenon DEF OneAutoRound
<1>2. ASSUME NEW r \in Slots, BeginRefresh(r) \/ BeginInspection(r) PROVE OneAutoRound'
  <2>1. PICK what \in {"refresh", "inspect"} : op' = [op EXCEPT ![r] = what]
    BY <1>2, Zenon DEF BeginRefresh, BeginInspection, Begin
  <2>2. autoRunning' = autoRunning /\ op[r] = "none"
    BY <1>2, Zenon DEF BeginRefresh, BeginInspection, Begin, CanStart, IdleIsFree
  <2>3. \A s \in Slots : op'[s] = "auto" <=> op[s] = "auto"
    BY <2>1, <2>2 DEF TypeOK
  <2> QED BY <2>2, <2>3, Zenon DEF OneAutoRound
<1>3. ASSUME NEW r \in Slots, BeginAutoRefresh(r) PROVE OneAutoRound'
  <2>1. op' = [op EXCEPT ![r] = "auto"] /\ autoRunning' = TRUE /\ ~autoRunning
    BY <1>3, Zenon DEF BeginAutoRefresh, Begin
  <2>2. \A s \in Slots : op[s] # "auto"
    BY <2>1, Zenon DEF OneAutoRound
  <2>3. \A s \in Slots : op'[s] = "auto" <=> s = r
    BY <2>1, <2>2 DEF TypeOK
  <2> QED BY <2>1, <2>3, Zenon DEF OneAutoRound
<1>4. ASSUME NEW r \in Slots,
             \/ ListFails(r) \/ ValidationFails(r) \/ NothingToLaunch(r)
             \/ DispatcherEnds(r) \/ AutoRoundEnds(r)
      PROVE  OneAutoRound'
  <2>1. Free(r)
    BY <1>4, Zenon DEF ListFails, ValidationFails, NothingToLaunch, DispatcherEnds, AutoRoundEnds
  <2>2. op'[r] = "none" /\ \A s \in Slots \ {r} : op'[s] = op[s]
    BY <2>1, FreeIsFree
  <2>3. autoRunning' <=> autoRunning /\ op[r] # "auto"
    <3>1. CASE ListFails(r) \/ NothingToLaunch(r)
      BY <3>1, Zenon DEF ListFails, NothingToLaunch
    <3>2. CASE ValidationFails(r) \/ DispatcherEnds(r)
      <4>1. op[r] # "auto"
        BY <3>2 DEF ValidationFails, DispatcherEnds
      <4>2. autoRunning' = autoRunning
        BY <3>2, Zenon DEF ValidationFails, DispatcherEnds, restVars
      <4> QED BY <4>1, <4>2, Zenon
    <3>3. CASE AutoRoundEnds(r)
      BY <3>3, Zenon DEF AutoRoundEnds
    <3> QED BY <1>4, <3>1, <3>2, <3>3
  <2>4. CASE op[r] = "auto"
    <3>1. ~autoRunning' /\ \A s \in Slots : op'[s] # "auto"
      <4>1. \A s \in Slots \ {r} : op[s] # "auto"
        BY <2>4, Zenon DEF OneAutoRound
      <4>2. op'[r] # "auto"
        BY <2>2
      <4> QED BY <2>2, <2>3, <2>4, <4>1, <4>2, Zenon
    <3> QED BY <3>1, Zenon DEF OneAutoRound
  <2>5. CASE op[r] # "auto"
    <3>1. \A s \in Slots : op'[s] = "auto" <=> op[s] = "auto"
      <4>1. op'[r] # "auto"
        BY <2>2
      <4> QED BY <2>2, <2>5, <4>1, Zenon
    <3>2. autoRunning' <=> autoRunning
      BY <2>3, <2>5, Zenon
    <3> QED BY <3>1, <3>2, Zenon DEF OneAutoRound
  <2> QED BY <2>4, <2>5
<1>5. ASSUME \/ \E r \in Slots :
                  \/ ClearSettled(r) \/ ResetRound(r) \/ ListAuthFiles(r) \/ Refuse(r) \/ Admit(r)
                  \/ (\E k \in Keys : Ensure(r, k)) \/ RecordRound(r) \/ Launch(r)
                  \/ DispatchCancelled(r) \/ FailQueued(r) \/ \E w \in Workers : TakeToken(r, w)
             \/ (\E w \in Workers : Worker(w)) \/ PollInspection \/ ReadTasks \/ CancelContext
             \/ CloseTasks \/ Stopped
      PROVE  Same
  <2>1. UNCHANGED <<autoRunning, op>>
    BY <1>5, Zenon DEF ClearSettled, ResetRound, ListAuthFiles, Refuse, Admit, Ensure,
         RecordRound, Launch, DispatchCancelled, FailQueued, TakeToken, Worker, StartTask,
         FinishTask, ReleaseToken, PollInspection, ReadTasks, CancelContext, CloseTasks,
         Stopped, slotVars, restVars
  <2> QED BY <2>1, Zenon
<1> QED BY <1>1, <1>2, <1>3, <1>4, <1>5, Zenon DEF Next, Handler, Dispatcher

\* The flag of the automatic refresh is set while a round is under way and only
\* then (refreshAuthFilesAutomatically), whoever else lists, fails or stops.
THEOREM OneAutomaticRound == Spec => []OneAutoRound
<1>1. Init => IdleIsFree /\ OneAutoRound
  BY DEF Init, IdleIsFree, OneAutoRound
<1>2. TypeOK /\ IdleIsFree /\ OneAutoRound /\ [Next]_vars => (IdleIsFree /\ OneAutoRound)'
  <2>1. ASSUME IdleIsFree, OneAutoRound, UNCHANGED vars PROVE (IdleIsFree /\ OneAutoRound)'
    BY <2>1, Zenon DEF IdleIsFree, OneAutoRound, vars, slotVars, restVars
  <2> QED BY <2>1, IdleNext, AutoNext
<1> QED BY <1>1, <1>2, TypeCorrect, PTL DEF Spec

-----------------------------------------------------------------------------
(* A result finds the record it was computed for. Every task that is queued  *)
(* has one owner, which alone settles it or hands it on.                     *)

\* The tasks a slot has queued and not handed on. The automatic round keeps the
\* list of all it queued until it ends, so it matters where the slot is.
Owned(r) ==
    CASE pc[r] \in {"examine", "launch"} -> queued[r]
      [] pc[r] \in {"dispatch", "failing", "refused"} -> todo[r]
      [] OTHER -> {}

\* A slot's tasks are queued and nobody else's.
SlotsOwn ==
    /\ \A r \in Slots : \A k \in Owned(r) : task[k].status = "queued"
    /\ \A r, s \in Slots : r # s => Owned(r) \cap Owned(s) = {}
    /\ \A r \in Slots, w \in Workers : Owned(r) \cap worker[w].keys = {}

\* A worker's task is queued until the worker starts it and runs until it has
\* its result; a worker has one, and no two have the same.
WorkersOwn ==
    /\ \A w \in Workers : worker[w].pc = "start" => \A k \in worker[w].keys : task[k].status = "queued"
    /\ \A w \in Workers : worker[w].pc = "check" => \A k \in worker[w].keys : task[k].status = "running"
    /\ \A w \in Workers : worker[w].pc \in {"idle", "cool"} => worker[w].keys = {}
    /\ \A w \in Workers : \A k, l \in worker[w].keys : k = l
    /\ \A v, w \in Workers : v # w => worker[v].keys \cap worker[w].keys = {}

OwnersFit == SlotsOwn /\ WorkersOwn

\* What leaves active tasks as they are, and gives no slot more than it had.
LEMMA NothingGained ==
    ASSUME TypeOK, OwnersFit, worker' = worker,
           \A k \in Keys : Active(k) => task'[k].status = task[k].status,
           \A r \in Slots : Owned(r)' \subseteq Owned(r)
    PROVE  OwnersFit'
<1>1. \A r \in Slots : Owned(r) \subseteq Keys
  BY DEF TypeOK, Owned
<1>2. \A w \in Workers : worker[w].keys \subseteq Keys
  BY DEF TypeOK
<1>3. SlotsOwn'
  <2> HIDE DEF Owned
  <2>1. \A r \in Slots : \A k \in Owned(r)' : task'[k].status = "queued"
    BY <1>1 DEF OwnersFit, SlotsOwn, Active
  <2> QED BY <2>1 DEF OwnersFit, SlotsOwn
<1>4. WorkersOwn'
  BY <1>2, SMTT(30) DEF OwnersFit, WorkersOwn, Active
<1> QED BY <1>3, <1>4 DEF OwnersFit

\* The clean-up touches no active task.
LEMMA CleanupKeeps ==
    ASSUME TypeOK, CleanupExpired
    PROVE  \A k \in Keys : Active(k) => task'[k].status = task[k].status
BY DEF CleanupExpired, Active

\* A slot that changes gets no more; the others have what they had.
LEMMA OtherSlots ==
    ASSUME TypeOK, NEW r \in Slots,
           \A s \in Slots \ {r} : pc'[s] = pc[s] /\ queued'[s] = queued[s] /\ todo'[s] = todo[s],
           Owned(r)' \subseteq Owned(r)
    PROVE  \A s \in Slots : Owned(s)' \subseteq Owned(s)
BY DEF Owned

\* The steps of a handler that list, examine and record.
LEMMA ListingOwns ==
    ASSUME TypeOK, IdleIsFree, OwnersFit, NEW r \in Slots,
           \/ BeginRefresh(r) \/ BeginInspection(r) \/ BeginAutoRefresh(r)
           \/ ClearSettled(r) \/ ResetRound(r) \/ ListAuthFiles(r)
           \/ Refuse(r) \/ Admit(r) \/ RecordRound(r)
    PROVE  OwnersFit'
<1>1. \A s \in Slots \ {r} : pc'[s] = pc[s] /\ queued'[s] = queued[s] /\ todo'[s] = todo[s]
  BY DEF TypeOK, BeginRefresh, BeginInspection, BeginAutoRefresh, Begin, GoTo, ClearSettled,
     ResetRound, ListAuthFiles, Refuse, Admit, RecordRound
<1>2. Owned(r)' \subseteq Owned(r)
  <2>1. CASE BeginRefresh(r) \/ BeginInspection(r) \/ BeginAutoRefresh(r)
    <3>1. queued'[r] = {} /\ pc'[r] \in {"examine", "clear", "list"}
      BY <2>1 DEF TypeOK, IdleIsFree, BeginRefresh, BeginInspection, BeginAutoRefresh, Begin,
         CanStart, GoTo
    <3> QED BY <3>1 DEF Owned
  <2>2. CASE ClearSettled(r) \/ ResetRound(r)
    BY <2>2 DEF TypeOK, ClearSettled, ResetRound, GoTo, Owned
  <2>3. CASE ListAuthFiles(r)
    BY <2>3 DEF TypeOK, IdleIsFree, ListAuthFiles, GoTo, Owned
  <2>4. CASE Refuse(r) \/ Admit(r)
    BY <2>4 DEF TypeOK, Refuse, Admit, Examinable, Owned
  <2>5. CASE RecordRound(r)
    BY <2>5 DEF TypeOK, RecordRound, Examined, Examinable, GoTo, Owned
  <2> QED BY <2>1, <2>2, <2>3, <2>4, <2>5
<1>3. worker' = worker
  BY Zenon DEF BeginRefresh, BeginInspection, BeginAutoRefresh, ClearSettled, ResetRound,
     ListAuthFiles, Refuse, Admit, RecordRound, restVars
<1>4. \A k \in Keys : Active(k) => task'[k].status = task[k].status
  <2>1. CASE BeginRefresh(r) \/ ListAuthFiles(r)
    <3>1. CleanupExpired
      BY <2>1, Zenon DEF BeginRefresh, ListAuthFiles
    <3> QED BY <3>1, CleanupKeeps
  <2>2. CASE ClearSettled(r)
    BY <2>2 DEF ClearSettled
  <2>3. CASE \/ BeginInspection(r) \/ BeginAutoRefresh(r) \/ ResetRound(r) \/ Refuse(r)
             \/ Admit(r) \/ RecordRound(r)
    BY <2>3, Zenon DEF BeginInspection, BeginAutoRefresh, ResetRound, Refuse, Admit, RecordRound
  <2> QED BY <2>1, <2>2, <2>3
<1> QED BY <1>1, <1>2, <1>3, <1>4, OtherSlots, NothingGained

\* The steps that give a slot back, start its dispatcher or let it give up.
LEMMA EndingOwns ==
    ASSUME TypeOK, OwnersFit, NEW r \in Slots,
           \/ ListFails(r) \/ ValidationFails(r) \/ NothingToLaunch(r) \/ Launch(r)
           \/ DispatchCancelled(r) \/ DispatcherEnds(r) \/ AutoRoundEnds(r)
    PROVE  OwnersFit'
<1>1. \A s \in Slots \ {r} : pc'[s] = pc[s] /\ queued'[s] = queued[s] /\ todo'[s] = todo[s]
  BY DEF TypeOK, ListFails, ValidationFails, NothingToLaunch, Launch, DispatchCancelled,
     DispatcherEnds, AutoRoundEnds, Free, GoTo
<1>2. Owned(r)' \subseteq Owned(r)
  <2>1. CASE \/ ListFails(r) \/ ValidationFails(r) \/ NothingToLaunch(r) \/ DispatcherEnds(r)
             \/ AutoRoundEnds(r)
    <3>1. Free(r)
      BY <2>1, Zenon DEF ListFails, ValidationFails, NothingToLaunch, DispatcherEnds, AutoRoundEnds
    <3> QED BY <3>1 DEF TypeOK, Free, GoTo, Owned
  <2>2. CASE Launch(r)
    BY <2>2 DEF TypeOK, Launch, ReadyToLaunch, Examined, Examinable, GoTo, Owned
  <2>3. CASE DispatchCancelled(r)
    BY <2>3 DEF TypeOK, DispatchCancelled, GoTo, Owned
  <2> QED BY <2>1, <2>2, <2>3
<1>3. worker' = worker
  BY Zenon DEF ListFails, ValidationFails, NothingToLaunch, Launch, DispatchCancelled,
     DispatcherEnds, AutoRoundEnds, restVars
<1>4. \A k \in Keys : Active(k) => task'[k].status = task[k].status
  <2>1. CASE ListFails(r)
    BY <2>1, CleanupKeeps DEF ListFails
  <2>2. CASE ~ListFails(r)
    BY <2>2, Zenon DEF ValidationFails, NothingToLaunch, Launch, DispatchCancelled,
       DispatcherEnds, AutoRoundEnds
  <2> QED BY <2>1, <2>2
<1> QED BY <1>1, <1>2, <1>3, <1>4, OtherSlots, NothingGained

\* A task that is created belongs to nobody yet.
LEMMA EnsureOwns ==
    ASSUME TypeOK, OwnersFit, NEW r \in Slots, NEW k \in Keys, Ensure(r, k)
    PROVE  OwnersFit'
<1>1. pc[r] = "examine" /\ pc' = pc /\ todo' = todo /\ worker' = worker
  BY Zenon DEF Ensure, restVars
<1>2. CASE Active(k)
  <2>1. UNCHANGED <<task, queued>>
    BY <1>2, Zenon DEF Ensure
  <2>2. \A s \in Slots : Owned(s)' \subseteq Owned(s)
    BY <1>1, <2>1 DEF Owned
  <2> QED BY <1>1, <2>1, <2>2, NothingGained, Zenon
<1>3. CASE ~Active(k)
  <2>1. /\ task'[k].status = "queued" /\ \A l \in Keys \ {k} : task'[l] = task[l]
        /\ queued' = [queued EXCEPT ![r] = @ \cup {k}]
    BY <1>3 DEF Ensure, Queued, TypeOK
  <2>2. /\ Owned(r)' = Owned(r) \cup {k}
        /\ \A s \in Slots \ {r} : Owned(s)' = Owned(s)
    BY <1>1, <2>1 DEF Owned, TypeOK
  <2>3. /\ \A s \in Slots : Owned(s) \subseteq Keys /\ k \notin Owned(s)
        /\ \A w \in Workers : worker[w].keys \subseteq Keys
        /\ \A w \in Workers : worker[w].pc \in {"idle", "start", "check", "cool"}
    <3>1. \A s \in Slots : Owned(s) \subseteq Keys
      BY DEF Owned, TypeOK
    <3>2. \A s \in Slots : k \notin Owned(s)
      BY <1>3 DEF OwnersFit, SlotsOwn, Active
    <3> QED BY <3>1, <3>2 DEF TypeOK
  <2>4. \A w \in Workers : k \notin worker[w].keys
    BY <1>3, <2>3 DEF OwnersFit, WorkersOwn, Active
  <2>5. SlotsOwn'
    <3> HIDE DEF Owned
    <3>1. \A s \in Slots : \A l \in Owned(s)' : task'[l].status = "queued"
      BY <2>1, <2>2, <2>3 DEF OwnersFit, SlotsOwn
    <3>2. \A s, t \in Slots : s # t => Owned(s)' \cap Owned(t)' = {}
      BY <2>2, <2>3 DEF OwnersFit, SlotsOwn
    <3>3. \A s \in Slots, w \in Workers : Owned(s)' \cap worker'[w].keys = {}
      BY <1>1, <2>2, <2>4 DEF OwnersFit, SlotsOwn
    <3> QED BY <3>1, <3>2, <3>3 DEF SlotsOwn
  <2>6. WorkersOwn'
    BY <1>1, <2>1, <2>3, <2>4 DEF OwnersFit, WorkersOwn
  <2> QED BY <2>5, <2>6 DEF OwnersFit
<1> QED BY <1>2, <1>3

\* A task that a dispatcher fails is its own, and no longer then.
LEMMA FailingOwns ==
    ASSUME TypeOK, OwnersFit, NEW r \in Slots, FailQueued(r) PROVE OwnersFit'
<1> DEFINE k == First(todo[r])
<1>1. k \in todo[r] /\ pc[r] \in {"failing", "refused"}
  BY FirstOfKeys DEF FailQueued
<1>2. /\ todo' = [todo EXCEPT ![r] = @ \ {k}] /\ UNCHANGED <<pc, queued, worker>>
      /\ task' = [task EXCEPT ![k] = Settled(k, "failed")]
  BY DEF FailQueued, restVars
<1>3. k \in Owned(r)
  BY <1>1 DEF Owned
<1> HIDE DEF k
<1>4. /\ Owned(r)' = Owned(r) \ {k}
      /\ \A s \in Slots \ {r} : Owned(s)' = Owned(s)
  BY <1>1, <1>2 DEF Owned, TypeOK
<1>5. /\ \A s \in Slots : Owned(s) \subseteq Keys
      /\ \A w \in Workers : worker[w].keys \subseteq Keys
      /\ \A l \in Keys \ {k} : task'[l] = task[l]
  BY <1>2 DEF Owned, TypeOK
<1>6. /\ \A s \in Slots \ {r} : k \notin Owned(s)
      /\ \A w \in Workers : k \notin worker[w].keys
  BY <1>3 DEF OwnersFit, SlotsOwn
<1>7. SlotsOwn'
  <2> HIDE DEF Owned
  <2>1. \A s \in Slots : \A l \in Owned(s)' : task'[l].status = "queued"
    BY <1>4, <1>5, <1>6 DEF OwnersFit, SlotsOwn
  <2> QED BY <1>2, <1>4, <2>1 DEF OwnersFit, SlotsOwn
<1>8. WorkersOwn'
  BY <1>2, <1>5, <1>6 DEF OwnersFit, WorkersOwn
<1> QED BY <1>7, <1>8 DEF OwnersFit

\* A task is handed to the worker that takes a token.
LEMMA TokenOwns ==
    ASSUME TypeOK, OwnersFit, NEW r \in Slots, NEW w \in Workers, TakeToken(r, w)
    PROVE  OwnersFit'
<1>1. CASE lifecycle = "closing"
  <2>1. /\ worker' = worker /\ task' = task
        /\ \A s \in Slots \ {r} : pc'[s] = pc[s] /\ queued'[s] = queued[s] /\ todo'[s] = todo[s]
        /\ Owned(r)' \subseteq Owned(r)
    BY <1>1 DEF TakeToken, TypeOK, GoTo, Owned
  <2> QED BY <2>1, OtherSlots, NothingGained
<1>2. CASE lifecycle # "closing"
  <2> DEFINE k == First(todo[r])
  <2>1. k \in todo[r] /\ pc[r] = "dispatch" /\ worker[w].pc = "idle"
    BY FirstOfKeys DEF TakeToken
  <2>2. /\ worker' = [worker EXCEPT ![w] = [pc |-> "start", keys |-> {k}]]
        /\ todo' = [todo EXCEPT ![r] = @ \ {k}]
        /\ UNCHANGED <<task, pc, queued>>
    BY <1>2 DEF TakeToken
  <2>3. k \in Owned(r)
    BY <2>1 DEF Owned
  <2> HIDE DEF k
  <2>4. /\ Owned(r)' = Owned(r) \ {k}
        /\ \A s \in Slots \ {r} : Owned(s)' = Owned(s)
    BY <2>1, <2>2 DEF Owned, TypeOK
  <2>5. /\ worker'[w].pc = "start" /\ worker'[w].keys = {k}
        /\ \A v \in Workers \ {w} : worker'[v] = worker[v]
    BY <2>2 DEF TypeOK
  <2>6. /\ \A s \in Slots \ {r} : k \notin Owned(s)
        /\ \A v \in Workers : k \notin worker[v].keys
        /\ task[k].status = "queued"
    BY <2>3 DEF OwnersFit, SlotsOwn
  <2>7. SlotsOwn'
    <3> HIDE DEF Owned
    <3>1. \A s \in Slots : \A v \in Workers : Owned(s)' \cap worker'[v].keys = {}
      <4>1. \A s \in Slots : Owned(s)' \cap worker'[w].keys = {}
        BY <2>4, <2>5, <2>6
      <4>2. \A s \in Slots : \A v \in Workers \ {w} : Owned(s)' \cap worker'[v].keys = {}
        BY <2>4, <2>5 DEF OwnersFit, SlotsOwn
      <4> QED BY <4>1, <4>2
    <3>2. /\ \A s \in Slots : \A l \in Owned(s)' : task'[l].status = "queued"
          /\ \A s, t \in Slots : s # t => Owned(s)' \cap Owned(t)' = {}
      BY <2>2, <2>4 DEF OwnersFit, SlotsOwn
    <3> QED BY <3>1, <3>2 DEF SlotsOwn
  <2>8. WorkersOwn'
    BY <2>2, <2>5, <2>6 DEF OwnersFit, WorkersOwn
  <2> QED BY <2>7, <2>8 DEF OwnersFit
<1> QED BY <1>1, <1>2

\* A worker starts its own task only, and its result is for that task.
LEMMA WorkerOwns ==
    ASSUME TypeOK, OwnersFit, NEW w \in Workers, Worker(w) PROVE OwnersFit'
<1>1. \A s \in Slots : Owned(s)' = Owned(s) /\ Owned(s) \subseteq Keys
  <2>1. UNCHANGED <<pc, queued, todo>>
    BY Zenon DEF Worker, StartTask, FinishTask, ReleaseToken, slotVars
  <2> QED BY <2>1 DEF Owned, TypeOK
<1>2. worker[w].keys \subseteq Keys /\ \A v \in Workers : worker[v].keys \subseteq Keys
  BY DEF TypeOK
<1>3. ASSUME NEW k \in worker[w].keys, NEW keys \in {{}, {k}}, NEW place \in {"check", "cool"},
             place = "cool" => keys = {},
             place = "check" => task'[k].status = "running",
             worker'[w].pc = place, worker'[w].keys = keys,
             \A v \in Workers \ {w} : worker'[v] = worker[v],
             \A l \in Keys \ {k} : task'[l] = task[l]
      PROVE  OwnersFit'
  <2>1. /\ \A s \in Slots : k \notin Owned(s)
        /\ \A v \in Workers \ {w} : k \notin worker[v].keys
    BY DEF OwnersFit, SlotsOwn, WorkersOwn
  <2>2. SlotsOwn'
    <3> HIDE DEF Owned
    <3>1. \A s \in Slots : \A l \in Owned(s)' : task'[l].status = "queued"
      BY <1>1, <1>3, <2>1 DEF OwnersFit, SlotsOwn
    <3>2. \A s \in Slots, v \in Workers : Owned(s)' \cap worker'[v].keys = {}
      BY <1>1, <1>3 DEF OwnersFit, SlotsOwn
    <3> QED BY <1>1, <3>1, <3>2 DEF OwnersFit, SlotsOwn
  <2>3. WorkersOwn'
    <3>1. \A v \in Workers \ {w} : \A l \in worker[v].keys : task'[l] = task[l]
      BY <1>2, <1>3, <2>1
    <3>2. worker'[w].keys \subseteq worker[w].keys
      BY <1>3
    <3> QED BY <1>3, <3>1, <3>2 DEF OwnersFit, WorkersOwn
  <2> QED BY <2>2, <2>3 DEF OwnersFit
<1>4. CASE StartTask(w)
  <2>1. PICK k \in worker[w].keys :
          IF task[k].status = "queued"
          THEN /\ task' = [task EXCEPT ![k].status = "running"]
               /\ worker' = [worker EXCEPT ![w].pc = "check"]
          ELSE /\ worker' = [worker EXCEPT ![w] = [pc |-> "cool", keys |-> {}]]
               /\ UNCHANGED task
    BY <1>4 DEF StartTask
  <2>2. k \in Keys /\ worker[w].keys = {k} /\ task \in [Keys -> Records]
    BY <1>2, TypeParts DEF OwnersFit, WorkersOwn
  <2>3. CASE task[k].status = "queued"
    <3>1. /\ task'[k].status = "running" /\ \A l \in Keys \ {k} : task'[l] = task[l]
      BY <2>1, <2>2, <2>3 DEF Records
    <3>2. /\ worker'[w].pc = "check" /\ worker'[w].keys = {k}
          /\ \A v \in Workers \ {w} : worker'[v] = worker[v]
      BY <2>1, <2>2, <2>3 DEF TypeOK
    <3> QED BY <3>1, <3>2, <1>3
  <2>4. CASE task[k].status # "queued"
    <3>1. /\ worker'[w].pc = "cool" /\ worker'[w].keys = {}
          /\ \A v \in Workers \ {w} : worker'[v] = worker[v]
      BY <2>1, <2>4 DEF TypeOK
    <3>2. \A l \in Keys \ {k} : task'[l] = task[l]
      BY <2>1, <2>4
    <3> QED BY <3>1, <3>2, <1>3
  <2> QED BY <2>3, <2>4
<1>5. CASE FinishTask(w)
  <2>1. PICK k \in worker[w].keys : \E result \in Results(k) : task' = [task EXCEPT ![k] = result]
    BY <1>5 DEF FinishTask
  <2>2. \A l \in Keys \ {k} : task'[l] = task[l]
    BY <2>1 DEF TypeOK
  <2>3. /\ worker'[w].pc = "cool" /\ worker'[w].keys = {}
        /\ \A v \in Workers \ {w} : worker'[v] = worker[v]
    BY <1>5 DEF FinishTask, TypeOK
  <2> QED BY <2>2, <2>3, <1>3
<1>6. CASE ReleaseToken(w)
  <2>1. /\ worker[w].pc = "cool" /\ worker'[w].pc = "idle" /\ worker'[w].keys = worker[w].keys
        /\ \A v \in Workers \ {w} : worker'[v] = worker[v]
        /\ task' = task
    BY <1>6 DEF ReleaseToken, TypeOK
  <2>2. SlotsOwn'
    <3> HIDE DEF Owned
    <3> QED BY <1>1, <2>1 DEF OwnersFit, SlotsOwn
  <2>3. WorkersOwn'
    BY <2>1 DEF OwnersFit, WorkersOwn
  <2> QED BY <2>2, <2>3 DEF OwnersFit
<1> QED BY <1>4, <1>5, <1>6 DEF Worker

\* Every step keeps each queued task with one owner.
LEMMA OwnersNext ==
    ASSUME TypeOK, IdleIsFree, OwnersFit, [Next]_vars PROVE OwnersFit'
<1>1. CASE ReadTasks \/ PollInspection \/ CancelContext \/ CloseTasks \/ Stopped \/ UNCHANGED vars
  <2>1. UNCHANGED <<pc, queued, todo, worker>>
    BY <1>1, Zenon DEF ReadTasks, PollInspection, CancelContext, CloseTasks, Stopped, vars,
       slotVars, restVars
  <2>2. \A s \in Slots : Owned(s)' \subseteq Owned(s)
    BY <2>1 DEF Owned
  <2>3. \A k \in Keys : Active(k) => task'[k].status = task[k].status
    <3>1. CleanupExpired \/ task' = task
      BY <1>1, Zenon DEF ReadTasks, PollInspection, CancelContext, CloseTasks, Stopped, vars
    <3> QED BY <3>1, CleanupKeeps
  <2> QED BY <2>1, <2>2, <2>3, NothingGained
<1> QED BY <1>1, ListingOwns, EndingOwns, EnsureOwns, FailingOwns, TokenOwns, WorkerOwns, Zenon
        DEF Next, Handler, Dispatcher

\* A result is written by name, without a look at the record's state: it finds the
\* record it was computed for, still running, and no credential is checked twice at
\* once (runRefreshTaskWithWorker), whoever queues, cancels, clears or closes.
THEOREM ResultsHit == Spec => []ResultHitsItsTask
<1>1. Init => IdleIsFree /\ OwnersFit
  BY DEF Init, IdleIsFree, OwnersFit, SlotsOwn, WorkersOwn, Owned
<1>2. TypeOK /\ IdleIsFree /\ OwnersFit /\ [Next]_vars => (IdleIsFree /\ OwnersFit)'
  <2>1. ASSUME IdleIsFree, UNCHANGED vars PROVE IdleIsFree'
    BY <2>1, Zenon DEF IdleIsFree, vars, slotVars
  <2> QED BY <2>1, IdleNext, OwnersNext
<1>3. OwnersFit => ResultHitsItsTask
  BY DEF OwnersFit, WorkersOwn, ResultHitsItsTask
<1> QED BY <1>1, <1>2, <1>3, TypeCorrect, PTL DEF Spec

-----------------------------------------------------------------------------
(* No task is orphaned: the counterpart of the above, that an owner leaves   *)
(* none behind. It is what the end of every task rests on.                   *)

NoTaskOrphaned ==
    \A k \in Keys :
        /\ task[k].status = "queued" =>
             \/ k \in abandoned \/ \E r \in Slots : k \in Owned(r)
             \/ \E w \in Workers : worker[w].pc = "start" /\ k \in worker[w].keys
        /\ task[k].status = "running" =>
             \E w \in Workers : worker[w].pc = "check" /\ k \in worker[w].keys

\* What makes no task active and takes none from a slot that keeps it or abandons it.
LEMMA NothingLeft ==
    ASSUME NoTaskOrphaned, worker' = worker, abandoned \subseteq abandoned',
           \A k \in Keys : Active(k)' => task'[k].status = task[k].status,
           \A r \in Slots : Owned(r) \subseteq Owned(r)' \cup abandoned'
    PROVE  NoTaskOrphaned'
<1> HIDE DEF Owned
<1> QED BY DEF NoTaskOrphaned, Active

\* The clean-up makes no task active.
LEMMA CleanupMakesNone ==
    ASSUME CleanupExpired
    PROVE  \A k \in Keys : Active(k)' => task'[k].status = task[k].status
BY DEF CleanupExpired, Active, Absent

\* The steps of a handler that list, examine and record leave no task behind.
LEMMA ListingLeavesNone ==
    ASSUME TypeOK, NoTaskOrphaned, NEW r \in Slots,
           \/ BeginRefresh(r) \/ BeginInspection(r) \/ BeginAutoRefresh(r)
           \/ ClearSettled(r) \/ ResetRound(r) \/ ListAuthFiles(r)
           \/ Refuse(r) \/ Admit(r) \/ RecordRound(r)
    PROVE  NoTaskOrphaned'
<1>1. \A s \in Slots : Owned(s) \subseteq Owned(s)'
  <2>1. \A s \in Slots \ {r} : Owned(s)' = Owned(s)
    <3>1. \A s \in Slots \ {r} : pc'[s] = pc[s] /\ queued'[s] = queued[s] /\ todo'[s] = todo[s]
      BY DEF TypeOK, BeginRefresh, BeginInspection, BeginAutoRefresh, Begin, GoTo, ClearSettled,
         ResetRound, ListAuthFiles, Refuse, Admit, RecordRound
    <3> QED BY <3>1 DEF Owned
  <2>2. Owned(r) \subseteq Owned(r)'
    <3>1. CASE \/ BeginRefresh(r) \/ BeginInspection(r) \/ BeginAutoRefresh(r)
               \/ ClearSettled(r) \/ ResetRound(r) \/ ListAuthFiles(r)
      <4>1. pc[r] \in {"idle", "clear", "reset", "list"}
        BY <3>1 DEF BeginRefresh, BeginInspection, BeginAutoRefresh, Begin, CanStart,
           ClearSettled, ResetRound, ListAuthFiles
      <4> QED BY <4>1 DEF Owned
    <3>2. CASE Refuse(r) \/ Admit(r) \/ RecordRound(r)
      BY <3>2 DEF TypeOK, Refuse, Admit, RecordRound, Examined, Examinable, GoTo, Owned
    <3> QED BY <3>1, <3>2
  <2> QED BY <2>1, <2>2
<1>2. UNCHANGED <<worker, abandoned>>
  BY Zenon DEF BeginRefresh, BeginInspection, BeginAutoRefresh, ClearSettled, ResetRound,
     ListAuthFiles, Refuse, Admit, RecordRound, restVars, appVars
<1>3. \A k \in Keys : Active(k)' => task'[k].status = task[k].status
  <2>1. CASE BeginRefresh(r) \/ ListAuthFiles(r)
    <3>1. CleanupExpired
      BY <2>1, Zenon DEF BeginRefresh, ListAuthFiles
    <3> QED BY <3>1, CleanupMakesNone
  <2>2. CASE ClearSettled(r)
    BY <2>2 DEF ClearSettled, Active, Absent
  <2>3. CASE \/ BeginInspection(r) \/ BeginAutoRefresh(r) \/ ResetRound(r) \/ Refuse(r)
             \/ Admit(r) \/ RecordRound(r)
    BY <2>3, Zenon DEF BeginInspection, BeginAutoRefresh, ResetRound, Refuse, Admit, RecordRound
  <2> QED BY <2>1, <2>2, <2>3
<1> QED BY <1>1, <1>2, <1>3, NothingLeft

\* A slot is given back when it has nothing left, but by a look-up that failed.
LEMMA EndingLeavesNone ==
    ASSUME TypeOK, NoTaskOrphaned, NEW r \in Slots,
           \/ ListFails(r) \/ ValidationFails(r) \/ NothingToLaunch(r) \/ Launch(r)
           \/ DispatchCancelled(r) \/ DispatcherEnds(r) \/ AutoRoundEnds(r)
    PROVE  NoTaskOrphaned'
<1>1. \A s \in Slots : Owned(s) \subseteq Owned(s)' \cup abandoned'
  <2>1. \A s \in Slots \ {r} : Owned(s)' = Owned(s)
    <3>1. \A s \in Slots \ {r} : pc'[s] = pc[s] /\ queued'[s] = queued[s] /\ todo'[s] = todo[s]
      BY DEF TypeOK, ListFails, ValidationFails, NothingToLaunch, Launch, DispatchCancelled,
         DispatcherEnds, AutoRoundEnds, Free, GoTo
    <3> QED BY <3>1 DEF Owned
  <2>2. Owned(r) \subseteq Owned(r)' \cup abandoned'
    <3>1. CASE ListFails(r) \/ NothingToLaunch(r)
      BY <3>1 DEF ListFails, NothingToLaunch, ReadyToLaunch, Examined, Examinable, Owned
    <3>2. CASE ValidationFails(r)
      BY <3>2 DEF ValidationFails, Examinable, Owned
    <3>3. CASE Launch(r)
      BY <3>3 DEF TypeOK, Launch, ReadyToLaunch, Examined, Examinable, GoTo, Owned
    <3>4. CASE DispatchCancelled(r)
      BY <3>4 DEF TypeOK, DispatchCancelled, GoTo, Owned
    <3>5. CASE DispatcherEnds(r) \/ AutoRoundEnds(r)
      BY <3>5 DEF DispatcherEnds, AutoRoundEnds, Dispatched, Owned
    <3> QED BY <3>1, <3>2, <3>3, <3>4, <3>5
  <2> QED BY <2>1, <2>2
<1>2. worker' = worker
  BY Zenon DEF ListFails, ValidationFails, NothingToLaunch, Launch, DispatchCancelled,
     DispatcherEnds, AutoRoundEnds, restVars
<1>3. abandoned \subseteq abandoned'
  <2>1. CASE ValidationFails(r)
    BY <2>1 DEF ValidationFails
  <2>2. CASE ~ValidationFails(r)
    BY <2>2 DEF ListFails, NothingToLaunch, Launch, DispatchCancelled, DispatcherEnds,
       AutoRoundEnds, restVars, appVars
  <2> QED BY <2>1, <2>2
<1>4. \A k \in Keys : Active(k)' => task'[k].status = task[k].status
  <2>1. CASE ListFails(r)
    BY <2>1, CleanupMakesNone DEF ListFails
  <2>2. CASE ~ListFails(r)
    BY <2>2, Zenon DEF ValidationFails, NothingToLaunch, Launch, DispatchCancelled,
       DispatcherEnds, AutoRoundEnds
  <2> QED BY <2>1, <2>2
<1> QED BY <1>1, <1>2, <1>3, <1>4, NothingLeft

\* A task that is created is in the list of the slot that created it.
LEMMA EnsureLeavesNone ==
    ASSUME TypeOK, NoTaskOrphaned, NEW r \in Slots, NEW k \in Keys, Ensure(r, k)
    PROVE  NoTaskOrphaned'
<1>1. /\ pc[r] = "examine" /\ UNCHANGED <<pc, todo, worker, abandoned>>
      /\ \A l \in Keys \ {k} : task'[l] = task[l]
      /\ \A s \in Slots : queued[s] \subseteq queued'[s]
      /\ task'[k].status = task[k].status \/ (task'[k].status = "queued" /\ k \in queued'[r])
  BY DEF Ensure, Queued, restVars, appVars, TypeOK
<1>2. \A s \in Slots : Owned(s) \subseteq Owned(s)'
  BY <1>1 DEF Owned
<1>3. k \in queued'[r] => k \in Owned(r)'
  BY <1>1 DEF Owned
<1> HIDE DEF Owned
<1> QED BY <1>1, <1>2, <1>3 DEF NoTaskOrphaned

\* A task that leaves the list of a dispatcher that gives up has failed.
LEMMA FailingLeavesNone ==
    ASSUME TypeOK, NoTaskOrphaned, NEW r \in Slots, FailQueued(r) PROVE NoTaskOrphaned'
<1> DEFINE l == First(todo[r])
<1>1. /\ l \in todo[r] /\ pc[r] \in {"failing", "refused"}
      /\ todo' = [todo EXCEPT ![r] = @ \ {l}] /\ UNCHANGED <<pc, queued, worker, abandoned>>
      /\ task' = [task EXCEPT ![l] = Settled(l, "failed")]
  BY FirstOfKeys DEF FailQueued, restVars, appVars
<1> HIDE DEF l
<1>2. l \in Keys
  BY <1>1 DEF TypeOK
<1>3. /\ task'[l].status \in {"none", "failed"} /\ \A m \in Keys \ {l} : task'[m] = task[m]
  BY <1>1, <1>2 DEF Settled, Absent, TypeOK
<1>4. \A s \in Slots : Owned(s) \subseteq Owned(s)' \cup {l}
  BY <1>1 DEF Owned, TypeOK
<1> HIDE DEF Owned
<1> QED BY <1>1, <1>3, <1>4 DEF NoTaskOrphaned

\* A task that leaves the list of a dispatcher otherwise is with a worker.
LEMMA TokenLeavesNone ==
    ASSUME TypeOK, NoTaskOrphaned, NEW r \in Slots, NEW w \in Workers, TakeToken(r, w)
    PROVE  NoTaskOrphaned'
<1>0. UNCHANGED <<task, abandoned>>
  BY Zenon DEF TakeToken, appVars
<1>1. CASE lifecycle = "closing"
  <2>1. /\ UNCHANGED worker
        /\ \A s \in Slots : Owned(s) \subseteq Owned(s)'
    BY <1>1 DEF TakeToken, TypeOK, GoTo, Owned
  <2> QED BY <1>0, <2>1, NothingLeft
<1>2. CASE lifecycle # "closing"
  <2> DEFINE l == First(todo[r])
  <2>1. /\ l \in todo[r] /\ pc[r] = "dispatch" /\ worker[w].pc = "idle"
        /\ worker' = [worker EXCEPT ![w] = [pc |-> "start", keys |-> {l}]]
        /\ todo' = [todo EXCEPT ![r] = @ \ {l}] /\ UNCHANGED <<pc, queued>>
    BY <1>2, FirstOfKeys DEF TakeToken
  <2> HIDE DEF l
  <2>2. /\ worker'[w].pc = "start" /\ l \in worker'[w].keys
        /\ \A v \in Workers : worker[v].pc # "idle" => worker'[v] = worker[v]
    BY <2>1 DEF TypeOK
  <2>3. \A s \in Slots : Owned(s) \subseteq Owned(s)' \cup {l}
    BY <2>1 DEF Owned, TypeOK
  <2> HIDE DEF Owned
  <2> QED BY <1>0, <2>1, <2>2, <2>3 DEF NoTaskOrphaned
<1> QED BY <1>1, <1>2

\* A worker keeps the task it starts until it has settled it.
LEMMA WorkerLeavesNone ==
    ASSUME TypeOK, OwnersFit, NoTaskOrphaned, NEW w \in Workers, Worker(w) PROVE NoTaskOrphaned'
<1>0. UNCHANGED abandoned
  BY Zenon DEF Worker, StartTask, FinishTask, ReleaseToken, appVars
<1>1. \A s \in Slots : Owned(s) \subseteq Owned(s)'
  <2>1. UNCHANGED <<pc, queued, todo>>
    BY Zenon DEF Worker, StartTask, FinishTask, ReleaseToken, slotVars
  <2> QED BY <2>1 DEF Owned
<1> HIDE DEF Owned
<1>2. \A v \in Workers \ {w} : worker'[v] = worker[v]
  BY DEF Worker, StartTask, FinishTask, ReleaseToken, TypeOK
<1>3. CASE StartTask(w)
  <2>1. PICK l \in worker[w].keys :
          IF task[l].status = "queued"
          THEN /\ task' = [task EXCEPT ![l].status = "running"]
               /\ worker' = [worker EXCEPT ![w].pc = "check"]
          ELSE /\ worker' = [worker EXCEPT ![w] = [pc |-> "cool", keys |-> {}]]
               /\ UNCHANGED task
    BY <1>3 DEF StartTask
  <2>2. worker[w].keys = {l} /\ worker[w].pc = "start" /\ task[l].status = "queued"
    BY <1>3 DEF OwnersFit, WorkersOwn, StartTask
  <2>3. l \in Keys /\ task \in [Keys -> Records]
    BY <2>1, TypeParts DEF TypeOK
  <2>4. task'[l].status = "running" /\ \A m \in Keys \ {l} : task'[m] = task[m]
    BY <2>1, <2>2, <2>3 DEF Records
  <2>5. worker'[w].pc = "check" /\ l \in worker'[w].keys
    BY <2>1, <2>2 DEF TypeOK
  <2> QED BY <1>0, <1>1, <1>2, <2>2, <2>4, <2>5 DEF NoTaskOrphaned
<1>4. CASE FinishTask(w)
  <2>1. PICK l \in worker[w].keys : \E result \in Results(l) : task' = [task EXCEPT ![l] = result]
    BY <1>4 DEF FinishTask
  <2>2. worker[w].keys = {l} /\ worker[w].pc = "check"
    BY <1>4 DEF OwnersFit, WorkersOwn, FinishTask
  <2>3. l \in Keys /\ task'[l].status \in {"none", "completed", "failed", "denied"}
    BY <2>1, <2>2 DEF Results, Settled, Absent, TypeOK
  <2>4. \A m \in Keys \ {l} : task'[m] = task[m]
    BY <2>1 DEF TypeOK
  <2> QED BY <1>0, <1>1, <1>2, <2>2, <2>3, <2>4 DEF NoTaskOrphaned
<1>5. CASE ReleaseToken(w)
  <2>1. task' = task /\ worker[w].pc = "cool"
    BY <1>5 DEF ReleaseToken
  <2> QED BY <1>0, <1>1, <1>2, <2>1 DEF NoTaskOrphaned
<1> QED BY <1>3, <1>4, <1>5 DEF Worker

\* An active task is in the list of a handler or a dispatcher that is under way, or
\* with the worker that settles it, also while the service closes; only a request
\* whose look-up fails abandons what it has queued (Refresh).
THEOREM NoOrphans == Spec => []NoTaskOrphaned
<1>1. Init => IdleIsFree /\ OwnersFit /\ NoTaskOrphaned
  BY DEF Init, Absent, IdleIsFree, OwnersFit, SlotsOwn, WorkersOwn, Owned, NoTaskOrphaned
<1>2. TypeOK /\ IdleIsFree /\ OwnersFit /\ NoTaskOrphaned /\ [Next]_vars
        => (IdleIsFree /\ OwnersFit /\ NoTaskOrphaned)'
  <2>1. ASSUME TypeOK, NoTaskOrphaned,
               \/ ReadTasks \/ PollInspection \/ CancelContext \/ CloseTasks \/ Stopped
               \/ UNCHANGED vars
        PROVE  NoTaskOrphaned'
    <3>1. UNCHANGED <<pc, queued, todo, worker, abandoned>>
      BY <2>1, Zenon DEF ReadTasks, PollInspection, CancelContext, CloseTasks, Stopped, vars,
         slotVars, restVars, appVars
    <3>2. \A s \in Slots : Owned(s) \subseteq Owned(s)'
      BY <3>1 DEF Owned
    <3>3. CleanupExpired \/ task' = task
      BY <2>1, Zenon DEF ReadTasks, PollInspection, CancelContext, CloseTasks, Stopped, vars
    <3>4. \A k \in Keys : Active(k)' => task'[k].status = task[k].status
      BY <3>3, CleanupMakesNone
    <3> QED BY <2>1, <3>1, <3>2, <3>4, NothingLeft
  <2>2. ASSUME IdleIsFree, UNCHANGED vars PROVE IdleIsFree'
    BY <2>2, Zenon DEF IdleIsFree, vars, slotVars
  <2>3. ASSUME TypeOK, OwnersFit, NoTaskOrphaned, Next PROVE NoTaskOrphaned'
    BY <2>1, <2>3, ListingLeavesNone, EndingLeavesNone, EnsureLeavesNone, FailingLeavesNone,
       TokenLeavesNone, WorkerLeavesNone, Zenon DEF Next, Handler, Dispatcher
  <2> QED BY <2>1, <2>2, <2>3, IdleNext, OwnersNext
<1> QED BY <1>1, <1>2, TypeCorrect, PTL DEF Spec
=============================================================================
