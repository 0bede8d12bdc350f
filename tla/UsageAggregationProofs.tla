----------------------- MODULE UsageAggregationProofs -----------------------
(***************************************************************************)
(* For every number of events, page size, set of owners, identity batch,   *)
(* and every interleaving of commits, notifications, turns, failures, the  *)
(* archive and crashes: the type invariant, TargetWithinReach,             *)
(* IdentityExactlyOnce, that UsageAggregation implements UsageTotals, and  *)
(* that no wake-up is lost.                                                *)
(***************************************************************************)
EXTENDS UsageAggregation, FiniteSetTheorems, WellFoundedInduction, TLAPS

(* Rollup r has counted the events up to its cursor, each once, and what   *)
(* comes after the cursor is still in the hot table.                       *)
CountedPrefix ==
    \A r \in Rollups :
        /\ cursor[r] <= last
        /\ agg[r] = Totals!Prefix(cursor[r])
        /\ \A e \in 1..last : cursor[r] < e => e \in hot

(* Nothing asks for events that have not been committed.                   *)
Asked == target <= last /\ pending <= last

(* Rollups for which the page in hand was read.                            *)
ServedByPage(r) == r = at \/ (shared /\ at <= r)

(* During a turn the snapshot agrees with the checkpoints, and the page in *)
(* hand is the gapless run of events that follows them.                    *)
PageFollows ==
    /\ pc # "page" => page = {} /\ at = 1
    /\ pc = "page" =>
         /\ snap = cursor
         /\ page = {} /\ shared => /\ at = 1
                                   /\ cursor[1] = cursor[2]
                                   /\ cursor[2] = cursor[3]
         /\ page # {} => \A r \in Rollups : ServedByPage(r) =>
              \E m \in (cursor[r] + 1)..last : page = (cursor[r] + 1)..m

(* The inductive invariant of the rollups.                                 *)
RollupsInv == TypeOK /\ CountedPrefix /\ Asked /\ PageFollows

-----------------------------------------------------------------------------
(* Maxima and pages.                                                       *)

\* A maximum is what MaxOf returns.
LEMMA MaxOfUnique ==
    ASSUME NEW S \in SUBSET Nat, NEW m \in S, IsMax(m, S)
    PROVE  MaxOf(S) = m
  <1>1. \A x \in S : IsMax(x, S) => x = m
    BY DEF IsMax
  <1> QED BY <1>1 DEF MaxOf

\* MaxOf of ids up to n is an id up to n, or 0.
LEMMA MaxOfBound ==
    ASSUME NEW n \in Nat, NEW S \in SUBSET (1..n)
    PROVE  MaxOf(S) \in 0..n
  <1>1. CASE \E m \in S : IsMax(m, S)
    <2>1. MaxOf(S) = CHOOSE m \in S : IsMax(m, S)
      BY <1>1 DEF MaxOf
    <2>2. MaxOf(S) \in S
      BY <1>1, <2>1
    <2>3. \A x \in S : x \in 0..n
      OBVIOUS
    <2> QED BY <2>2, <2>3
  <1>2. CASE ~(\E m \in S : IsMax(m, S))
    BY <1>2 DEF MaxOf
  <1> QED BY <1>1, <1>2

\* The largest element of an interval is its end.
LEMMA MaxOfInterval ==
    ASSUME NEW c \in Nat, NEW m \in Nat, c < m
    PROVE  MaxOf((c + 1)..m) = m
  <1>1. m \in (c + 1)..m /\ IsMax(m, (c + 1)..m)
    BY DEF IsMax
  <1>2. (c + 1)..m \in SUBSET Nat
    OBVIOUS
  <1> QED BY <1>1, <1>2, MaxOfUnique

\* MaxOf of a set of ids is a number.
LEMMA MaxOfNat ==
    ASSUME NEW S \in SUBSET Nat
    PROVE  MaxOf(S) \in Nat
  <1>1. CASE \E m \in S : IsMax(m, S)
    <2>1. PICK m \in S : IsMax(m, S)
      BY <1>1
    <2> QED BY <2>1, MaxOfUnique
  <1>2. CASE ~(\E m \in S : IsMax(m, S))
    BY <1>2 DEF MaxOf
  <1> QED BY <1>1, <1>2

(* A nonempty set of event ids has a largest element.                      *)
LEMMA MaxOfIsMax ==
    ASSUME NEW n \in Nat, NEW S \in SUBSET (1..n), S # {}
    PROVE  MaxOf(S) \in S /\ \A x \in S : x <= MaxOf(S)
  <1> DEFINE Above(x) == {y \in S : y > x}
             T == {Above(x) : x \in S}
  <1>0. \A x \in S : x \in Nat
    OBVIOUS
  <1>1. IsFiniteSet(S)
    <2>1. IsFiniteSet(1..n)
      BY FS_Interval
    <2> QED BY <2>1, FS_Subset
  <1>2. T \subseteq FiniteSubsetsOf(S)
    BY <1>1, FS_Subset DEF FiniteSubsetsOf
  <1>3. T # {}
    OBVIOUS
  <1>4. IsWellFoundedOn(StrictSubsetOrdering(S), FiniteSubsetsOf(S))
    BY FS_StrictSubsetOrderingWellFounded
  <1>5. PICK A \in T : \A B \in T : <<B, A>> \notin StrictSubsetOrdering(S)
    <2> HIDE DEF T
    <2> QED BY <1>2, <1>3, <1>4, WFMin
  <1>6. PICK m \in S : A = Above(m)
    BY <1>5
  <1>7. ASSUME NEW y \in Above(m) PROVE FALSE
    <2>1. y \in S /\ Above(y) \in T
      OBVIOUS
    <2>2. Above(y) \subseteq Above(m) /\ y \notin Above(y)
      <3>1. y > m
        OBVIOUS
      <3>2. \A z \in S : z > y => z > m
        BY <1>0, <2>1, <3>1
      <3>3. \A z : z \in Above(y) => z \in Above(m)
        BY <3>2
      <3>4. y \notin Above(y)
        BY <1>0
      <3> QED BY <3>3, <3>4
    <2>3. <<Above(y), A>> \in StrictSubsetOrdering(S)
      BY <2>2, <1>6, <1>7 DEF StrictSubsetOrdering
    <2> QED BY <2>1, <2>3, <1>5
  <1>8. IsMax(m, S)
    BY <1>7 DEF IsMax
  <1> QED BY <1>8, MaxOfUnique DEF IsMax

(* The first events of a gapless run are a gapless run.                    *)
LEMMA FirstOfInterval ==
    ASSUME NEW n \in Nat \ {0}, NEW a \in Nat, NEW b \in Nat, a <= b
    PROVE  \E m \in a..b : FirstOf(n, a..b) = a..m
  <1>1. ASSUME NEW x \in a..b
        PROVE  Cardinality({y \in a..b : y < x}) = x - a
    <2>1. {y \in a..b : y < x} = a..(x - 1)
      BY <1>1
    <2>2. Cardinality(a..(x - 1)) = x - a
      <3>1. x - 1 \in Int /\ a \in Int /\ a <= x
        OBVIOUS
      <3>2. Cardinality(a..(x - 1)) =
              IF a > x - 1 THEN 0 ELSE (x - 1) - a + 1
        BY <3>1, FS_Interval
      <3> QED BY <3>1, <3>2
    <2> QED BY <2>1, <2>2
  <1>2. FirstOf(n, a..b) = {x \in a..b : x - a < n}
    <2>1. FirstOf(n, a..b) =
            {x \in a..b : Cardinality({y \in a..b : y < x}) < n}
      BY DEF FirstOf
    <2> QED BY <1>1, <2>1
  <1>3. CASE a + n - 1 <= b
    <2>1. {x \in a..b : x - a < n} = a..(a + n - 1)
      BY <1>3
    <2>2. a + n - 1 \in a..b
      BY <1>3
    <2> QED BY <1>2, <2>1, <2>2
  <1>4. CASE ~(a + n - 1 <= b)
    <2>1. {x \in a..b : x - a < n} = a..b
      BY <1>4
    <2>2. b \in a..b
      OBVIOUS
    <2> QED BY <1>2, <2>1, <2>2
  <1> QED BY <1>3, <1>4

(* A page read behind a cursor follows it without a gap.                   *)
LEMMA PageIsRun ==
    ASSUME TypeOK, CountedPrefix, Asked, NEW r \in Rollups,
           NextPage(cursor[r]) # {}
    PROVE  \E m \in (cursor[r] + 1)..last : NextPage(cursor[r]) = (cursor[r] + 1)..m
  <1> DEFINE c == cursor[r]
             Due == {e \in hot : c < e /\ e <= target}
  <1>1. c \in Nat /\ target \in Nat /\ last \in Nat /\ target <= last
    BY AggregationAssumption DEF TypeOK, DatabaseTypeOK, RunnerTypeOK, TurnTypeOK, Asked
  <1>2. Due = (c + 1)..target
    <2>1. hot \subseteq 1..last
      BY DEF TypeOK, DatabaseTypeOK, RunnerTypeOK, TurnTypeOK
    <2>2. \A e \in 1..last : c < e => e \in hot
      BY DEF CountedPrefix
    <2> HIDE DEF c
    <2>3. ASSUME NEW e \in (c + 1)..target
          PROVE  e \in Due
      BY <1>1, <2>2
    <2>4. ASSUME NEW e \in Due
          PROVE  e \in (c + 1)..target
      <3>1. e \in 1..last /\ c < e /\ e <= target
        BY <2>1
      <3> QED BY <1>1, <3>1
    <2> QED BY <2>3, <2>4
  <1>3. NextPage(c) = FirstOf(PageSize, (c + 1)..target)
    BY <1>2 DEF NextPage
  <1>4. c + 1 <= target
    <2> SUFFICES ASSUME ~(c + 1 <= target) PROVE FALSE
      OBVIOUS
    <2>1. (c + 1)..target = {}
      BY <1>1
    <2> QED BY <1>3, <2>1 DEF FirstOf
  <1>5. \E m \in (c + 1)..target :
           FirstOf(PageSize, (c + 1)..target) = (c + 1)..m
    <2> HIDE DEF c
    <2> QED BY <1>1, <1>4, FirstOfInterval, AggregationAssumption
  <1>6. (c + 1)..target \subseteq (c + 1)..last
    <2> HIDE DEF c
    <2> QED BY <1>1
  <1>7. PICK m \in (c + 1)..target :
           FirstOf(PageSize, (c + 1)..target) = (c + 1)..m
    BY <1>5
  <1>8. m \in (c + 1)..last /\ NextPage(c) = (c + 1)..m
    <2> HIDE DEF c
    <2> QED BY <1>3, <1>6, <1>7
  <1> QED BY <1>8
-----------------------------------------------------------------------------
(* Type correctness.                                                       *)

\* The variables start in their types.
LEMMA TypeInit == Init => TypeOK
  <1> SUFFICES ASSUME Init PROVE TypeOK
    OBVIOUS
  <1>1. /\ cursor \in [Rollups -> Nat] /\ snap \in [Rollups -> Nat]
        /\ agg \in [Rollups -> [Events -> Nat]]
        /\ row \in [Owners -> Nat] /\ icursor \in [Owners -> Nat]
        /\ icount \in [Events -> Nat]
    BY DEF Init, Zero
  <1>2. hot \subseteq 1..last
    BY DEF Init
  <1>3. last \in 0..MaxEvents /\ target \in 0..MaxEvents /\ pending \in 0..MaxEvents
    BY AggregationAssumption DEF Init
  <1>4. /\ owner \in [Events -> Owners]
        /\ inbox \in BOOLEAN /\ active \in BOOLEAN /\ reached \in BOOLEAN
        /\ wake \in BOOLEAN /\ shared \in BOOLEAN /\ failed \in BOOLEAN
    BY DEF Init
  <1>5. /\ arrivals \in Nat /\ after \in Nat /\ tgtGen \in Nat
        /\ scanGen \in Nat /\ passGen \in Nat /\ at \in 1..4
        /\ crashes \in Nat /\ faults \in Nat
    BY DEF Init
  <1>6. /\ born \subseteq Events /\ page \subseteq Events
        /\ proc = "idle" /\ meta = "idle" /\ pc \in PCs
        /\ nextKind = "rollups" /\ kind = "rollups" /\ timer = "off"
    BY DEF Init, PCs
  <1> QED BY <1>1, <1>2, <1>3, <1>4, <1>5, <1>6 DEF TypeOK, DatabaseTypeOK, RunnerTypeOK, TurnTypeOK

(* The end of a turn resets its variables.                                 *)
LEMMA TypeEndTurn == EndTurn => TurnTypeOK'
  <1> SUFFICES ASSUME EndTurn PROVE TurnTypeOK'
    OBVIOUS
  <1>1. snap' \in [Rollups -> Nat]
    BY DEF EndTurn, Zero
  <1>2. passGen' \in Nat /\ at' \in 1..4 /\ page' \subseteq Events
    BY DEF EndTurn
  <1> QED BY <1>1, <1>2 DEF EndTurn, TurnTypeOK

\* The runner state after a failed turn is well typed.
LEMMA TypeFail ==
    ASSUME TypeOK, Fail, UNCHANGED idscan
    PROVE  RunnerTypeOK' /\ TurnTypeOK' /\ pc' \in PCs
  <1>1. RunnerTypeOK'
    BY DEF Fail, TypeOK, RunnerTypeOK, idscan
  <1> QED BY <1>1, TypeEndTurn DEF Fail, PCs

\* So is the one after a rollups turn that did not fail.
LEMMA TypeFinishRollups ==
    ASSUME TypeOK, NEW ok, NEW then \in PCs, FinishRollups(ok, then),
           UNCHANGED idscan
    PROVE  RunnerTypeOK' /\ TurnTypeOK' /\ pc' \in PCs
  <1>1. CASE ok \/ reached
    <2>1. pending' \in 0..MaxEvents /\ target' \in 0..MaxEvents
      BY <1>1, AggregationAssumption DEF FinishRollups, TypeOK, RunnerTypeOK
    <2>2. RunnerTypeOK'
      BY <1>1, <2>1 DEF FinishRollups, TypeOK, RunnerTypeOK, idscan
    <2> QED BY <2>2, TypeEndTurn DEF FinishRollups
  <1>2. CASE ~(ok \/ reached)
    <2>1. RunnerTypeOK'
      BY <1>2 DEF FinishRollups, TypeOK, RunnerTypeOK, idscan
    <2> QED BY <2>1, TypeEndTurn DEF FinishRollups
  <1> QED BY <1>1, <1>2

\* A failure leaves the counter of failures a number.
LEMMA TypeFault ==
    ASSUME TypeOK, NEW p, Fault(p)
    PROVE  faults' \in Nat
  <1>1. CASE p \in Broken
    BY <1>1 DEF Fault, TypeOK, DatabaseTypeOK, RunnerTypeOK, TurnTypeOK
  <1>2. CASE p \notin Broken
    BY <1>2 DEF Fault, TypeOK, DatabaseTypeOK, RunnerTypeOK, TurnTypeOK
  <1> QED BY <1>1, <1>2

(* What a step leaves alone keeps its type.                                *)
LEMMA DatabaseFrame ==
    DatabaseTypeOK /\ UNCHANGED <<events, stats, others>> => DatabaseTypeOK'
  BY DEF DatabaseTypeOK, events, stats, others

\* The types of the round and of the identity scan depend on these only.
LEMMA RunnerFrame ==
    RunnerTypeOK /\ UNCHANGED <<round, idscan>> => RunnerTypeOK'
  BY DEF RunnerTypeOK, round, idscan

\* The types of the turn depend on the locals of the turn only.
LEMMA TurnFrame ==
    TurnTypeOK /\ UNCHANGED turn => TurnTypeOK'
  BY DEF TurnTypeOK, turn

(* The processor, the metadata sync and the archive.                       *)
LEMMA TypeOutside ==
    ASSUME TypeOK, Arrive \/ Process \/ Metadata \/ Archive \/ TimerFires
    PROVE  TypeOK'
  <1> USE DEF events, stats, others, DatabaseTypeOK
  <1>1. CASE Arrive \/ DropRows
    <2>1. DatabaseTypeOK'
      <3>1. inbox' \in BOOLEAN
        BY <1>1 DEF Arrive, DropRows
      <3>2. arrivals' \in Nat
        BY <1>1 DEF Arrive, DropRows, TypeOK
      <3> QED BY <1>1, <3>1, <3>2 DEF Arrive, DropRows, TypeOK
    <2> QED BY <1>1, <2>1, RunnerFrame, TurnFrame
            DEF Arrive, DropRows, TypeOK, history
  <1>2. CASE CommitEvents
    <2>1. PICK n \in 1..(MaxEvents - last) :
            /\ last' = last + n
            /\ hot' = hot \cup (last + 1)..(last + n)
      BY <1>2 DEF CommitEvents
    <2>2. last \in Nat /\ n \in Nat /\ last + n <= MaxEvents
      BY <2>1, AggregationAssumption DEF TypeOK
    <2>3. last' \in 0..MaxEvents
      BY <2>1, <2>2, AggregationAssumption
    <2>4. hot' \subseteq 1..last'
      BY <2>1, <2>2 DEF TypeOK
    <2>5. DatabaseTypeOK'
      BY <1>2, <2>3, <2>4 DEF CommitEvents, TypeOK
    <2> QED BY <1>2, <2>5, RunnerFrame, TurnFrame DEF CommitEvents, TypeOK, history
  <1>3. CASE NotifyUsageEventsCommitted
    <2>1. pending' \in 0..MaxEvents
      BY <1>3 DEF NotifyUsageEventsCommitted, TypeOK, RunnerTypeOK
    <2>2. RunnerTypeOK'
      BY <1>3, <2>1 DEF NotifyUsageEventsCommitted, TypeOK, RunnerTypeOK
    <2> QED BY <1>3, <2>2, TurnFrame
            DEF NotifyUsageEventsCommitted, TypeOK, history
  <1>4. CASE SignalEvents \/ SignalIdentities
    BY <1>4, RunnerFrame, TurnFrame
       DEF SignalEvents, SignalIdentities, TypeOK, history
  <1>5. ASSUME NEW k \in Keys, CreateIdentity(k)
        PROVE  TypeOK'
    <2>1. Cardinality({j \in Owners : row[j] # 0}) \in Nat
      BY AggregationAssumption, FS_Subset, FS_CardinalityType
    <2>2. row' \in [Owners -> Nat]
      BY <1>5, <2>1, AggregationAssumption DEF CreateIdentity, TypeOK
    <2>3. born' \subseteq Events
      <3>1. 1..last \subseteq Events
        BY AggregationAssumption DEF TypeOK, Events
      <3>2. born' = born \cup {e \in 1..last : owner[e] = k /\ e \notin hot}
        BY <1>5 DEF CreateIdentity
      <3> QED BY <3>1, <3>2 DEF TypeOK
    <2>4. DatabaseTypeOK'
      BY <1>5, <2>2, <2>3 DEF CreateIdentity, TypeOK
    <2> QED BY <1>5, <2>4, RunnerFrame, TurnFrame
            DEF CreateIdentity, TypeOK, history
  <1>6. CASE NotifyUsageIdentitiesChanged
    BY <1>6, TurnFrame
       DEF NotifyUsageIdentitiesChanged, TypeOK, RunnerTypeOK, round, history
  <1>7. CASE Archive
    <2>1. DatabaseTypeOK'
      BY <1>7 DEF Archive, TypeOK
    <2> QED BY <1>7, <2>1, RunnerFrame, TurnFrame DEF Archive, TypeOK, history
  <1>8. CASE TimerFires
    BY <1>8, DatabaseFrame, RunnerFrame, TurnFrame DEF TimerFires, TypeOK, history
  <1> QED BY <1>1, <1>2, <1>3, <1>4, <1>5, <1>6, <1>7, <1>8 DEF Process, Metadata

(* The runner outside a turn.                                              *)
LEMMA TypeLoop ==
    ASSUME TypeOK,
           \/ LoadTarget \/ SetTarget \/ StartFails \/ BeginTurn \/ Wait
           \/ WakeUp \/ FreezePendingTarget \/ Retry \/ Crash
    PROVE  TypeOK'
  <1> USE DEF history
  <1>0. pc' \in PCs
    BY DEF LoadTarget, SetTarget, StartFails, BeginTurn, Wait, WakeUp, Retry,
           FreezePendingTarget, Crash, PCs
  <1>1. CASE LoadTarget
    <2>1. target' \in 0..last
      BY <1>1, MaxOfBound, AggregationAssumption
         DEF LoadTarget, TypeOK, DatabaseTypeOK
    <2>2. target' \in 0..MaxEvents
      BY <2>1, AggregationAssumption DEF TypeOK, DatabaseTypeOK
    <2>3. RunnerTypeOK'
      BY <1>1, <2>2 DEF LoadTarget, TypeOK, RunnerTypeOK, idscan
    <2> QED BY <1>0, <1>1, <2>3, DatabaseFrame, TurnFrame DEF LoadTarget, TypeOK
  <1>2. CASE SetTarget
    <2>1. pending' \in 0..MaxEvents
      BY <1>2, AggregationAssumption DEF SetTarget, TypeOK, RunnerTypeOK
    <2>2. RunnerTypeOK'
      BY <1>2, <2>1 DEF SetTarget, TypeOK, RunnerTypeOK, idscan
    <2> QED BY <1>0, <1>2, <2>2, DatabaseFrame, TurnFrame DEF SetTarget, TypeOK
  <1>3. CASE StartFails
    <2>1. faults' \in Nat
      BY <1>3, TypeFault DEF StartFails
    <2>2. wake' \in BOOLEAN
      BY <1>3 DEF StartFails, TypeOK
    <2> QED BY <1>0, <1>3, <2>1, <2>2, DatabaseFrame, RunnerFrame, TurnFrame
            DEF StartFails, TypeOK
  <1>4. CASE BeginTurn \/ Wait
    <2>1. timer' \in {"off", "on", "fired"}
      BY <1>4 DEF BeginTurn, Wait, Armed, TypeOK
    <2> QED BY <1>0, <1>4, <2>1, DatabaseFrame, RunnerFrame, TurnFrame
            DEF BeginTurn, Wait, TypeOK
  <1>5. CASE WakeUp \/ Retry
    <2>1. wake' \in BOOLEAN
      BY <1>5 DEF WakeUp, Retry, TypeOK
    <2> QED BY <1>0, <1>5, <2>1, DatabaseFrame, RunnerFrame, TurnFrame
            DEF WakeUp, Retry, TypeOK
  <1>6. CASE FreezePendingTarget
    <2>1. RunnerTypeOK'
      <3>1. CASE PendingWindow
        <4>1. target' \in 0..MaxEvents /\ pending' \in 0..MaxEvents
          BY <1>6, <3>1, AggregationAssumption
             DEF FreezePendingTarget, TypeOK, RunnerTypeOK
        <4> QED BY <1>6, <3>1, <4>1
                DEF FreezePendingTarget, TypeOK, RunnerTypeOK, idscan
      <3>2. CASE ~PendingWindow
        <4>1. pending' \in 0..MaxEvents
          BY <1>6, AggregationAssumption DEF FreezePendingTarget
        <4> QED BY <1>6, <3>2, <4>1
                DEF FreezePendingTarget, TypeOK, RunnerTypeOK, idscan
      <3> QED BY <3>1, <3>2
    <2> QED BY <1>0, <1>6, <2>1, DatabaseFrame, TurnFrame
            DEF FreezePendingTarget, TypeOK
  <1>7. CASE Crash
    <2>1. RunnerTypeOK'
      <3>1. target' \in 0..MaxEvents /\ pending' \in 0..MaxEvents
        BY <1>7, AggregationAssumption DEF Crash
      <3>2. after' \in Nat /\ tgtGen' \in Nat /\ scanGen' \in Nat
        BY <1>7 DEF Crash
      <3> QED BY <1>7, <3>1, <3>2 DEF Crash, RunnerTypeOK
    <2>2. DatabaseTypeOK'
      BY <1>7 DEF Crash, TypeOK, DatabaseTypeOK, events, stats
    <2>3. TurnTypeOK'
      BY <1>7, TypeEndTurn DEF Crash
    <2>4. wake' \in BOOLEAN /\ crashes' \in Nat
      <3>1. wake' \in BOOLEAN
        BY <1>7 DEF Crash
      <3>2. crashes' \in Nat
        BY <1>7 DEF Crash, TypeOK
      <3> QED BY <3>1, <3>2
    <2> QED BY <1>0, <1>7, <2>1, <2>2, <2>3, <2>4 DEF Crash, TypeOK
  <1> QED BY <1>1, <1>2, <1>3, <1>4, <1>5, <1>6, <1>7

(* The steps of a turn.                                                    *)
LEMMA TypeTurn ==
    ASSUME TypeOK,
           \/ StartTurn \/ CheckBusy \/ CheckClear \/ TurnFails \/ Snapshot
           \/ LoadPage \/ LoadFails \/ SkipRollup \/ Apply \/ ApplyFails
           \/ GiveWay \/ RecheckFails \/ EndRollups \/ IdentityTurn
    PROVE  TypeOK'
  <1> USE DEF history
  <1>1. CASE StartTurn
    <2>1. kind' \in {"rollups", "identity"}
      BY <1>1 DEF StartTurn, TypeOK, RunnerTypeOK
    <2>2. passGen' \in Nat
      BY <1>1 DEF StartTurn, TypeOK, RunnerTypeOK
    <2>3. TurnTypeOK'
      BY <1>1, <2>1, <2>2 DEF StartTurn, TypeOK, TurnTypeOK
    <2> QED BY <1>1, <2>3, DatabaseFrame, RunnerFrame DEF StartTurn, TypeOK, PCs
  <1>2. CASE CheckBusy
    BY <1>2, DatabaseFrame, RunnerFrame, TypeEndTurn DEF CheckBusy, TypeOK, PCs
  <1>3. CASE CheckClear
    <2>1. pc' \in PCs
      BY <1>3 DEF CheckClear, PCs
    <2> QED BY <1>3, <2>1, DatabaseFrame, RunnerFrame, TurnFrame
            DEF CheckClear, TypeOK
  <1>4. CASE TurnFails
    <2>1. faults' \in Nat
      BY <1>4, TypeFault DEF TurnFails
    <2> QED BY <1>4, <2>1, TypeFail, DatabaseFrame DEF TurnFails, TypeOK
  <1>5. CASE Snapshot
    <2>1. CASE AllReached(cursor)
      <3>1. FinishRollups(TRUE, "loop")
        BY <1>5, <2>1 DEF Snapshot
      <3> QED BY <1>5, <3>1, TypeFinishRollups, DatabaseFrame
              DEF Snapshot, TypeOK, PCs
    <2>2. CASE ~AllReached(cursor)
      <3>1. shared' \in BOOLEAN /\ snap' \in [Rollups -> Nat]
        BY <1>5, <2>2 DEF Snapshot, TypeOK, DatabaseTypeOK
      <3>2. TurnTypeOK'
        BY <1>5, <2>2, <3>1 DEF Snapshot, TypeOK, TurnTypeOK
      <3> QED BY <1>5, <2>2, <3>2, DatabaseFrame, RunnerFrame
              DEF Snapshot, TypeOK, PCs
    <2> QED BY <2>1, <2>2
  <1>6. CASE LoadPage
    <2>1. page' \subseteq Events
      <3>1. hot \subseteq Events
        BY AggregationAssumption DEF TypeOK, DatabaseTypeOK, Events
      <3>2. NextPage(snap[at]) \subseteq hot
        BY DEF NextPage, FirstOf
      <3> QED BY <1>6, <3>1, <3>2 DEF LoadPage
    <2>2. TurnTypeOK'
      BY <1>6, <2>1 DEF LoadPage, TypeOK, TurnTypeOK
    <2> QED BY <1>6, <2>2, DatabaseFrame, RunnerFrame DEF LoadPage, TypeOK
  <1>7. CASE LoadFails
    <2>1. faults' \in Nat
      <3>1. CASE NextPage(snap[at]) = {}
        BY <1>7, <3>1 DEF LoadFails, TypeOK
      <3>2. CASE NextPage(snap[at]) # {}
        BY <1>7, <3>2, TypeFault DEF LoadFails
      <3> QED BY <3>1, <3>2
    <2>2. CASE shared
      BY <1>7, <2>1, <2>2, TypeFail, DatabaseFrame DEF LoadFails, TypeOK
    <2>3. CASE ~shared
      <3>1. TurnTypeOK'
        BY <1>7, <2>3 DEF LoadFails, NeedsPage, TypeOK, TurnTypeOK
      <3> QED BY <1>7, <2>1, <2>3, <3>1, DatabaseFrame, RunnerFrame
              DEF LoadFails, TypeOK
    <2> QED BY <2>2, <2>3
  <1>8. CASE SkipRollup
    <2>1. TurnTypeOK'
      BY <1>8 DEF SkipRollup, TypeOK, TurnTypeOK
    <2> QED BY <1>8, <2>1, DatabaseFrame, RunnerFrame DEF SkipRollup, TypeOK
  <1>9. ASSUME NEW r \in Rollups, ApplyPage(r)
        PROVE  TypeOK'
    <2>1. MaxOf(page) \in Nat
      BY MaxOfBound, AggregationAssumption DEF TypeOK, TurnTypeOK, Events
    <2>2. agg' \in [Rollups -> [Events -> Nat]]
      BY <1>9 DEF ApplyPage, TypeOK, DatabaseTypeOK
    <2>3. DatabaseTypeOK'
      BY <1>9, <2>1, <2>2
         DEF ApplyPage, TypeOK, DatabaseTypeOK, events, others
    <2>4. page' \subseteq Events /\ at' \in 1..4
      BY <1>9 DEF ApplyPage, NextRollup, TypeOK, TurnTypeOK, Rollups
    <2>5. TurnTypeOK'
      BY <1>9, <2>1, <2>4 DEF ApplyPage, TypeOK, TurnTypeOK
    <2> QED BY <1>9, <2>3, <2>5, RunnerFrame DEF ApplyPage, TypeOK
  <1>10. CASE ApplyFails
    <2>1. faults' \in Nat
      BY <1>10, TypeFault DEF ApplyFails
    <2>2. TurnTypeOK'
      BY <1>10 DEF ApplyFails, NextRollup, TypeOK, TurnTypeOK
    <2> QED BY <1>10, <2>1, <2>2, DatabaseFrame, RunnerFrame DEF ApplyFails, TypeOK
  <1>11. CASE GiveWay
    <2>1. CASE failed
      BY <1>11, <2>1, TypeFail, DatabaseFrame DEF GiveWay, TypeOK
    <2>2. CASE ~failed
      <3>1. FinishRollups(FALSE, "backoff")
        BY <1>11, <2>2 DEF GiveWay
      <3> QED BY <1>11, <3>1, TypeFinishRollups, DatabaseFrame
              DEF GiveWay, TypeOK, PCs
    <2> QED BY <2>1, <2>2
  <1>12. CASE RecheckFails
    <2>1. faults' \in Nat
      BY <1>12, TypeFault DEF RecheckFails
    <2> QED BY <1>12, <2>1, TypeFail, DatabaseFrame DEF RecheckFails, TypeOK
  <1>13. CASE EndRollups
    <2>1. CASE failed
      BY <1>13, <2>1, TypeFail, DatabaseFrame DEF EndRollups, TypeOK
    <2>2. CASE ~failed
      <3>1. FinishRollups(AllReached(snap), "loop")
        BY <1>13, <2>2 DEF EndRollups
      <3> QED BY <1>13, <3>1, TypeFinishRollups, DatabaseFrame
              DEF EndRollups, TypeOK, PCs
    <2> QED BY <2>1, <2>2
  <1>14. CASE IdentityTurn
    <2>1. after' \in Nat
      <3>1. NextIds \subseteq Nat
        BY DEF NextIds, FirstOf, TypeOK, DatabaseTypeOK
      <3> QED BY <1>14, <3>1, MaxOfNat DEF IdentityTurn
    <2>2. icursor' \in [Owners -> Nat]
      <3>1. \A k \in Owners : MaxOf(DeltaOf(k)) \in Nat
        <4>1. \A k \in Owners : DeltaOf(k) \in SUBSET Nat
          <5>1. \A e \in hot : e \in Nat
            BY AggregationAssumption DEF TypeOK, DatabaseTypeOK
          <5> QED BY <5>1 DEF DeltaOf, Delta
        <4> QED BY <4>1, MaxOfNat
      <3> QED BY <1>14, <3>1 DEF IdentityTurn, TypeOK, DatabaseTypeOK
    <2>3. icount' \in [Events -> Nat]
      BY <1>14 DEF IdentityTurn, TypeOK, DatabaseTypeOK
    <2>4. DatabaseTypeOK'
      BY <1>14, <2>2, <2>3 DEF IdentityTurn, TypeOK, DatabaseTypeOK, events, others
    <2>5. RunnerTypeOK'
      BY <1>14, <2>1 DEF IdentityTurn, TypeOK, RunnerTypeOK, TurnTypeOK
    <2> QED BY <1>14, <2>4, <2>5, TypeEndTurn DEF IdentityTurn, TypeOK, PCs
  <1> QED BY <1>1, <1>2, <1>3, <1>4, <1>5, <1>6, <1>7, <1>8, <1>9, <1>10,
             <1>11, <1>12, <1>13, <1>14 DEF Apply

\* Every step keeps the types.
LEMMA TypeStep == TypeOK /\ [Next]_vars => TypeOK'
  <1> SUFFICES ASSUME TypeOK, [Next]_vars PROVE TypeOK'
    OBVIOUS
  <1>1. CASE Next
    BY <1>1, TypeOutside, TypeLoop, TypeTurn DEF Next, Run
  <1>2. CASE UNCHANGED vars
    BY <1>2, DatabaseFrame, RunnerFrame, TurnFrame DEF vars, history, TypeOK
  <1> QED BY <1>1, <1>2

(* Every variable keeps its type.                                          *)
THEOREM TypeCorrect == Spec => []TypeOK
  BY TypeInit, TypeStep, PTL DEF Spec

-----------------------------------------------------------------------------
(* The rollups.                                                            *)

\* The invariant of the rollups holds at the start.
LEMMA RollupsInit == Init => RollupsInv
  <1> SUFFICES ASSUME Init PROVE RollupsInv
    OBVIOUS
  <1>1. CountedPrefix
    <2>1. \A e \in Events : ~(e <= 0)
      BY AggregationAssumption DEF Events
    <2>2. agg = [r \in Rollups |-> Totals!Prefix(0)]
      BY <2>1 DEF Init, Totals!Prefix, Totals!Events, Events
    <2> QED BY <2>2 DEF Init, CountedPrefix, Zero
  <1>2. Asked
    BY DEF Init, Asked
  <1>3. PageFollows
    BY DEF Init, PageFollows
  <1> QED BY <1>1, <1>2, <1>3, TypeInit DEF RollupsInv

(* Steps that touch neither the rollups nor the turn.                      *)
LEMMA QuietStep ==
    ASSUME RollupsInv, UNCHANGED <<last, hot, cursor, agg, page, snap, shared, at>>,
           pc' = "page" <=> pc = "page", Asked'
    PROVE  CountedPrefix' /\ Asked' /\ PageFollows'
  <1>1. CountedPrefix'
    BY DEF RollupsInv, CountedPrefix
  <1>2. PageFollows'
    BY DEF RollupsInv, PageFollows, ServedByPage
  <1> QED BY <1>1, <1>2

(* Steps that end a turn.                                                  *)
LEMMA EndStep ==
    ASSUME RollupsInv, UNCHANGED <<last, hot, cursor, agg>>, EndTurn,
           pc' # "page", Asked'
    PROVE  CountedPrefix' /\ Asked' /\ PageFollows'
  <1>1. CountedPrefix'
    BY DEF RollupsInv, CountedPrefix
  <1>2. PageFollows'
    BY DEF PageFollows, EndTurn
  <1> QED BY <1>1, <1>2

\* A failed turn leaves no page behind and the round as it was.
LEMMA FailStep ==
    ASSUME RollupsInv, UNCHANGED <<last, hot, cursor, agg>>, Fail
    PROVE  CountedPrefix' /\ Asked' /\ PageFollows'
  <1>1. Asked'
    BY DEF Fail, RollupsInv, Asked
  <1> QED BY <1>1, EndStep DEF Fail

\* A finished turn leaves no page behind and targets only what is committed.
LEMMA FinishStep ==
    ASSUME RollupsInv, UNCHANGED <<last, hot, cursor, agg>>,
           NEW ok, NEW then \in {"loop", "backoff"}, FinishRollups(ok, then)
    PROVE  CountedPrefix' /\ Asked' /\ PageFollows'
  <1>1. last \in Nat
    BY AggregationAssumption DEF RollupsInv, TypeOK, DatabaseTypeOK
  <1>2. Asked'
    <2>1. CASE ok \/ reached
      BY <1>1, <2>1 DEF FinishRollups, RollupsInv, Asked
    <2>2. CASE ~(ok \/ reached)
      BY <2>2 DEF FinishRollups, RollupsInv, Asked
    <2> QED BY <2>1, <2>2
  <1> QED BY <1>2, EndStep DEF FinishRollups

(* Commits make events hot; the archive takes only what all have counted.  *)
LEMMA RollupsOutside ==
    ASSUME RollupsInv, Arrive \/ Process \/ Metadata \/ Archive \/ TimerFires
    PROVE  CountedPrefix' /\ Asked' /\ PageFollows'
  <1> USE DEF events, stats, others, round, turn
  <1>0. last \in Nat /\ hot \subseteq 1..last /\ cursor \in [Rollups -> Nat]
        /\ target \in Nat /\ pending \in Nat
    BY AggregationAssumption
       DEF RollupsInv, TypeOK, DatabaseTypeOK, RunnerTypeOK
  <1>1. CASE \/ Arrive \/ DropRows \/ SignalEvents \/ Metadata \/ TimerFires
    <2>1. UNCHANGED <<last, hot, cursor, agg, page, snap, shared, at, pc, target,
                      pending>>
      BY <1>1 DEF Arrive, DropRows, SignalEvents, Metadata, CreateIdentity,
                  NotifyUsageIdentitiesChanged, SignalIdentities, TimerFires
    <2> QED BY <2>1, QuietStep DEF RollupsInv, Asked
  <1>2. CASE CommitEvents
    <2>1. PICK n \in 1..(MaxEvents - last) :
            /\ last' = last + n
            /\ hot' = hot \cup (last + 1)..(last + n)
      BY <1>2 DEF CommitEvents
    <2>2. n \in Nat /\ last <= last'
      BY <1>0, <2>1, AggregationAssumption
    <2>3. CountedPrefix'
      <3> SUFFICES ASSUME NEW r \in Rollups
                   PROVE  /\ cursor[r] <= last'
                          /\ agg[r] = Totals!Prefix(cursor[r])
                          /\ \A e \in 1..last' : cursor[r] < e => e \in hot'
        BY <1>2 DEF CommitEvents, CountedPrefix
      <3>1. cursor[r] <= last /\ agg[r] = Totals!Prefix(cursor[r])
        BY DEF RollupsInv, CountedPrefix
      <3>2. ASSUME NEW e \in 1..last', cursor[r] < e
            PROVE  e \in hot'
        <4>1. CASE e \in 1..last
          BY <2>1, <3>2, <4>1 DEF RollupsInv, CountedPrefix
        <4>2. CASE e \notin 1..last
          BY <1>0, <2>1, <2>2, <4>2
        <4> QED BY <4>1, <4>2
      <3>3. cursor[r] <= last'
        <4>1. cursor[r] \in Nat
          BY <1>0
        <4> QED BY <1>0, <2>1, <2>2, <3>1, <4>1
      <3> QED BY <3>1, <3>2, <3>3
    <2>4. Asked'
      BY <1>0, <1>2, <2>1, <2>2 DEF CommitEvents, RollupsInv, Asked
    <2>5. PageFollows'
      <3>1. \A r \in Rollups : (cursor[r] + 1)..last \subseteq (cursor[r] + 1)..last'
        BY <1>0, <2>1, <2>2
      <3>2. UNCHANGED <<pc, cursor, page, snap, shared, at>>
        BY <1>2 DEF CommitEvents
      <3> QED BY <3>1, <3>2 DEF RollupsInv, PageFollows, ServedByPage
    <2> QED BY <2>3, <2>4, <2>5
  <1>3. CASE NotifyUsageEventsCommitted
    <2>1. Asked'
      BY <1>0, <1>3 DEF NotifyUsageEventsCommitted, RollupsInv, Asked
    <2> QED BY <1>3, <2>1, QuietStep DEF NotifyUsageEventsCommitted
  <1>4. CASE Archive
    <2>1. PICK S \in SUBSET hot : hot' = hot \ S
      BY <1>4 DEF Archive
    <2>2. \A r \in Rollups, e \in hot : e <= cursor[r]
      <3> SUFFICES ASSUME NEW r \in Rollups, NEW e \in hot
                   PROVE  e <= cursor[r]
        OBVIOUS
      <3>1. e <= MaxOf(hot) /\ MaxOf(hot) \in hot
        BY <1>0, MaxOfIsMax
      <3>2. MaxOf(hot) <= cursor[r]
        BY <1>4 DEF Archive, CaughtUp
      <3>3. MaxOf(hot) \in Nat /\ e \in Nat /\ cursor[r] \in Nat
        <4>1. \A x \in hot : x \in Nat
          BY <1>0
        <4> QED BY <1>0, <3>1, <4>1
      <3> QED BY <3>1, <3>2, <3>3
    <2>3. \A e \in hot : e \in Nat
      BY <1>0
    <2>4. CountedPrefix'
      <3>1. \A r \in Rollups : \A e \in 1..last : ~(cursor[r] < e)
        BY <1>0, <2>2, <2>3 DEF RollupsInv, CountedPrefix
      <3> QED BY <1>4, <3>1 DEF Archive, RollupsInv, CountedPrefix
    <2>5. Asked' /\ PageFollows'
      BY <1>4 DEF Archive, RollupsInv, Asked, PageFollows, ServedByPage
    <2> QED BY <2>4, <2>5
  <1> QED BY <1>1, <1>2, <1>3, <1>4 DEF Process
(* The runner outside a turn asks for events that exist.                   *)
LEMMA RollupsLoop ==
    ASSUME RollupsInv,
           \/ LoadTarget \/ SetTarget \/ StartFails \/ BeginTurn \/ Wait
           \/ WakeUp \/ FreezePendingTarget \/ Retry \/ Crash
    PROVE  CountedPrefix' /\ Asked' /\ PageFollows'
  <1> USE DEF events, stats, others, round, turn
  <1>0. last \in Nat /\ hot \subseteq 1..last
    BY AggregationAssumption DEF RollupsInv, TypeOK, DatabaseTypeOK
  <1>1. CASE LoadTarget
    <2>1. target' \in 0..last
      BY <1>0, <1>1, MaxOfBound DEF LoadTarget
    <2>2. Asked'
      BY <1>0, <1>1, <2>1 DEF LoadTarget, RollupsInv, Asked
    <2> QED BY <1>1, <2>2, QuietStep DEF LoadTarget
  <1>2. CASE SetTarget
    <2>1. Asked'
      BY <1>0, <1>2 DEF SetTarget, RollupsInv, Asked
    <2> QED BY <1>2, <2>1, QuietStep DEF SetTarget
  <1>3. CASE StartFails \/ BeginTurn \/ Wait \/ WakeUp \/ Retry
    <2>1. /\ UNCHANGED <<last, hot, cursor, agg, page, snap, shared, at, target,
                         pending>>
          /\ pc # "page" /\ pc' # "page"
      BY <1>3 DEF StartFails, BeginTurn, Wait, WakeUp, Retry
    <2> QED BY <2>1, QuietStep DEF RollupsInv, Asked
  <1>4. CASE FreezePendingTarget
    <2>1. Asked'
      <3>1. CASE PendingWindow
        BY <1>0, <1>4, <3>1 DEF FreezePendingTarget, RollupsInv, Asked
      <3>2. CASE ~PendingWindow
        BY <1>0, <1>4, <3>2 DEF FreezePendingTarget, RollupsInv, Asked
      <3> QED BY <3>1, <3>2
    <2> QED BY <1>4, <2>1, QuietStep DEF FreezePendingTarget
  <1>5. CASE Crash
    <2>1. Asked'
      BY <1>0, <1>5 DEF Crash, Asked
    <2> QED BY <1>5, <2>1, EndStep DEF Crash
  <1> QED BY <1>1, <1>2, <1>3, <1>4, <1>5

(* One page: the prefix of rollup r grows by the events of the page.       *)
LEMMA PageCounted ==
    ASSUME RollupsInv, NEW r \in Rollups, ApplyPage(r)
    PROVE  \E m \in (cursor[r] + 1)..last :
             /\ page = (cursor[r] + 1)..m
             /\ cursor' = [cursor EXCEPT ![r] = m]
             /\ snap' = [snap EXCEPT ![r] = m]
             /\ agg' = [agg EXCEPT ![r] = Totals!Prefix(m)]
  <1>0. last \in Nat /\ cursor \in [Rollups -> Nat]
        /\ agg \in [Rollups -> [Events -> Nat]] /\ snap \in [Rollups -> Nat]
    BY AggregationAssumption DEF RollupsInv, TypeOK, DatabaseTypeOK, TurnTypeOK
  <1>1. PICK m \in (cursor[r] + 1)..last : page = (cursor[r] + 1)..m
    BY DEF ApplyPage, RollupsInv, PageFollows, ServedByPage
  <1>2. cursor[r] \in Nat /\ m \in Nat /\ cursor[r] < m
    <2>1. cursor[r] \in Nat
      BY <1>0
    <2> QED BY <1>0, <2>1
  <1>3. MaxOf(page) = m
    BY <1>1, <1>2, MaxOfInterval
  <1>4. [e \in Events |-> IF e \in page THEN agg[r][e] + 1 ELSE agg[r][e]]
          = Totals!Prefix(m)
    <2>1. agg[r] = [e \in Events |-> IF e <= cursor[r] THEN 1 ELSE 0]
      BY DEF RollupsInv, CountedPrefix, Totals!Prefix, Totals!Events, Events
    <2>2. ASSUME NEW e \in Events
          PROVE  (IF e \in page THEN agg[r][e] + 1 ELSE agg[r][e])
                   = IF e <= m THEN 1 ELSE 0
      <3>1. e \in Nat /\ e >= 1
        BY AggregationAssumption DEF Events
      <3>2. e \in page <=> cursor[r] < e /\ e <= m
        BY <1>1, <1>2, <3>1
      <3>3. agg[r][e] = IF e <= cursor[r] THEN 1 ELSE 0
        BY <2>1
      <3> QED BY <1>2, <3>1, <3>2, <3>3
    <2> QED BY <2>2 DEF Totals!Prefix, Totals!Events, Events
  <1> QED BY <1>1, <1>3, <1>4 DEF ApplyPage

(* The steps of a turn.                                                    *)
LEMMA RollupsTurn ==
    ASSUME RollupsInv,
           \/ StartTurn \/ CheckBusy \/ CheckClear \/ TurnFails \/ Snapshot
           \/ LoadPage \/ LoadFails \/ SkipRollup \/ Apply \/ ApplyFails
           \/ GiveWay \/ RecheckFails \/ EndRollups \/ IdentityTurn
    PROVE  CountedPrefix' /\ Asked' /\ PageFollows'
  <1> USE DEF events, stats, others, round
  <1>0. /\ last \in Nat /\ cursor \in [Rollups -> Nat] /\ at \in 1..4
        /\ target \in Nat
    BY AggregationAssumption
       DEF RollupsInv, TypeOK, DatabaseTypeOK, TurnTypeOK, RunnerTypeOK
  <1>1. CASE StartTurn \/ CheckClear
    <2>1. /\ UNCHANGED <<last, hot, cursor, agg, page, snap, shared, at, target,
                         pending>>
          /\ pc # "page" /\ pc' # "page"
      BY <1>1 DEF StartTurn, CheckClear, turn
    <2> QED BY <2>1, QuietStep DEF RollupsInv, Asked
  <1>2. CASE CheckBusy
    BY <1>2, EndStep DEF CheckBusy, RollupsInv, Asked
  <1>3. CASE TurnFails \/ RecheckFails
    BY <1>3, FailStep DEF TurnFails, RecheckFails
  <1>4. CASE Snapshot
    <2>1. CASE AllReached(cursor)
      BY <1>4, <2>1, FinishStep DEF Snapshot
    <2>2. CASE ~AllReached(cursor)
      <3>1. CountedPrefix' /\ Asked'
        BY <1>4, <2>2 DEF Snapshot, RollupsInv, CountedPrefix, Asked
      <3>2. page = {} /\ at = 1
        BY <1>4 DEF Snapshot, RollupsInv, PageFollows
      <3>3. PageFollows'
        BY <1>4, <2>2, <3>2 DEF Snapshot, PageFollows
      <3> QED BY <3>1, <3>3
    <2> QED BY <2>1, <2>2
  <1>5. CASE LoadPage
    <2>1. CountedPrefix' /\ Asked'
      BY <1>5 DEF LoadPage, RollupsInv, CountedPrefix, Asked
    <2>2. snap = cursor /\ at \in Rollups /\ page' = NextPage(cursor[at])
          /\ page' # {}
      BY <1>0, <1>5 DEF LoadPage, NeedsPage, RollupsInv, PageFollows, Rollups
    <2>3. PICK m \in (cursor[at] + 1)..last : page' = (cursor[at] + 1)..m
      BY <2>2, PageIsRun DEF RollupsInv
    <2>4. \A r \in Rollups : ServedByPage(r) => cursor[r] = cursor[at]
      BY <1>0, <1>5 DEF LoadPage, NeedsPage, RollupsInv, PageFollows, ServedByPage,
                        Rollups
    <2>5. PageFollows'
      BY <1>5, <2>2, <2>3, <2>4 DEF LoadPage, NeedsPage, PageFollows, ServedByPage
    <2> QED BY <2>1, <2>5
  <1>6. CASE LoadFails
    <2>1. CASE shared
      BY <1>6, <2>1, FailStep DEF LoadFails
    <2>2. CASE ~shared
      BY <1>6, <2>2 DEF LoadFails, NeedsPage, RollupsInv, CountedPrefix, Asked,
                        PageFollows
    <2> QED BY <2>1, <2>2
  <1>7. CASE SkipRollup
    BY <1>7 DEF SkipRollup, RollupsInv, CountedPrefix, Asked, PageFollows
  <1>8. ASSUME NEW r \in Rollups, ApplyPage(r)
        PROVE  CountedPrefix' /\ Asked' /\ PageFollows'
    <2>1. PICK m \in (cursor[r] + 1)..last :
             /\ page = (cursor[r] + 1)..m
             /\ cursor' = [cursor EXCEPT ![r] = m]
             /\ snap' = [snap EXCEPT ![r] = m]
             /\ agg' = [agg EXCEPT ![r] = Totals!Prefix(m)]
      BY <1>8, PageCounted
    <2>2. cursor[r] \in Nat /\ m \in Nat /\ cursor[r] < m /\ m <= last
      <3>1. cursor[r] \in Nat
        BY <1>0
      <3> QED BY <1>0, <3>1
    <2>3. CountedPrefix'
      <3> SUFFICES ASSUME NEW q \in Rollups
                   PROVE  /\ cursor'[q] <= last
                          /\ agg'[q] = Totals!Prefix(cursor'[q])
                          /\ \A e \in 1..last : cursor'[q] < e => e \in hot
        BY <1>8 DEF ApplyPage, CountedPrefix
      <3>1. CASE q = r
        <4>1. cursor'[q] = m /\ agg'[q] = Totals!Prefix(m)
          BY <1>0, <2>1, <3>1 DEF RollupsInv, TypeOK, DatabaseTypeOK
        <4>2. \A e \in 1..last : m < e => cursor[r] < e
          BY <1>0, <2>2
        <4> QED BY <2>2, <4>1, <4>2 DEF RollupsInv, CountedPrefix
      <3>2. CASE q # r
        BY <1>0, <2>1, <3>2
           DEF RollupsInv, CountedPrefix, TypeOK, DatabaseTypeOK
      <3> QED BY <3>1, <3>2
    <2>4. Asked'
      BY <1>8 DEF ApplyPage, RollupsInv, Asked
    <2>5. PageFollows'
      <3>1. pc = "page" /\ pc' = "page" /\ snap = cursor /\ snap' = cursor'
        BY <1>8, <2>1 DEF ApplyPage, RollupsInv, PageFollows
      <3>2. CASE shared
        <4>1. page' = page /\ shared' /\ page # {}
          BY <1>8, <3>2 DEF ApplyPage, NextRollup
        <4>2. ASSUME NEW q \in Rollups, ServedByPage(q)'
              PROVE  cursor'[q] = cursor[q] /\ ServedByPage(q)
          <5>1. at' = at + 1 /\ at = r
            BY <1>8 DEF ApplyPage, NextRollup
          <5>2. q # r /\ at <= q
            BY <1>0, <4>2, <5>1 DEF ServedByPage, Rollups
          <5> QED BY <1>0, <2>1, <3>2, <5>2 DEF ServedByPage
        <4>3. last' = last
          BY <1>8 DEF ApplyPage
        <4> QED BY <3>1, <4>1, <4>2, <4>3 DEF RollupsInv, PageFollows
      <3>3. CASE ~shared
        BY <1>8, <3>1, <3>3 DEF ApplyPage, NextRollup, PageFollows
      <3> QED BY <3>2, <3>3
    <2> QED BY <2>3, <2>4, <2>5
  <1>9. CASE ApplyFails
    <2>1. CountedPrefix' /\ Asked'
      BY <1>9 DEF ApplyFails, RollupsInv, CountedPrefix, Asked
    <2>2. CASE shared
      <3>1. page' = page /\ page # {} /\ shared' /\ at' = at + 1
            /\ pc = "page" /\ UNCHANGED <<pc, snap, cursor, last>>
        BY <1>9, <2>2 DEF ApplyFails, NextRollup
      <3>2. \A q \in Rollups : ServedByPage(q)' => ServedByPage(q)
        BY <1>0, <2>2, <3>1 DEF ServedByPage, Rollups
      <3>3. PageFollows'
        BY <3>1, <3>2 DEF RollupsInv, PageFollows
      <3> QED BY <2>1, <3>3
    <2>3. CASE ~shared
      <3>1. PageFollows'
        BY <1>9, <2>3 DEF ApplyFails, NextRollup, RollupsInv, PageFollows
      <3> QED BY <2>1, <3>1
    <2> QED BY <2>2, <2>3
  <1>10. CASE GiveWay
    <2>1. CASE failed
      BY <1>10, <2>1, FailStep DEF GiveWay
    <2>2. CASE ~failed
      BY <1>10, <2>2, FinishStep DEF GiveWay
    <2> QED BY <2>1, <2>2
  <1>11. CASE EndRollups
    <2>1. CASE failed
      BY <1>11, <2>1, FailStep DEF EndRollups
    <2>2. CASE ~failed
      BY <1>11, <2>2, FinishStep DEF EndRollups
    <2> QED BY <2>1, <2>2
  <1>12. CASE IdentityTurn
    <2>1. Asked'
      BY <1>12 DEF IdentityTurn, RollupsInv, Asked
    <2> QED BY <1>12, <2>1, EndStep DEF IdentityTurn
  <1> QED BY <1>1, <1>2, <1>3, <1>4, <1>5, <1>6, <1>7, <1>8, <1>9, <1>10,
             <1>11, <1>12 DEF Apply

\* Every step keeps the invariant of the rollups.
LEMMA RollupsStep == RollupsInv /\ [Next]_vars => RollupsInv'
  <1> SUFFICES ASSUME RollupsInv, [Next]_vars PROVE RollupsInv'
    OBVIOUS
  <1>1. TypeOK'
    BY TypeStep DEF RollupsInv
  <1>2. CASE Next
    BY <1>1, <1>2, RollupsOutside, RollupsLoop, RollupsTurn
       DEF Next, Run, RollupsInv
  <1>3. CASE UNCHANGED vars
    <2>1. Asked'
      BY <1>3 DEF vars, events, round, RollupsInv, Asked
    <2> QED BY <1>1, <1>3, <2>1, QuietStep
            DEF vars, events, stats, turn, RollupsInv
  <1> QED BY <1>2, <1>3

\* The invariant of the rollups always holds.
LEMMA RollupsInvariant == Spec => []RollupsInv
  BY RollupsInit, RollupsStep, PTL DEF Spec

(* The archive leaves alone what an unfinished round is about to read.     *)
THEOREM ArchiveKeepsTarget == Spec => []TargetWithinReach
  <1>1. RollupsInv => TargetWithinReach
    <2> SUFFICES ASSUME RollupsInv, NEW r \in Rollups, cursor[r] < target
                 PROVE  target \in hot
      BY DEF TargetWithinReach
    <2>1. cursor[r] \in Nat /\ target \in Nat /\ target <= last /\ last \in Nat
      BY AggregationAssumption
         DEF RollupsInv, TypeOK, DatabaseTypeOK, RunnerTypeOK, Asked
    <2>2. target \in 1..last
      BY <2>1
    <2> QED BY <2>2 DEF RollupsInv, CountedPrefix
  <1> QED BY <1>1, RollupsInvariant, PTL

\* The totals start empty.
LEMMA TotalsInit == Init => Totals!Init
  <1> SUFFICES ASSUME Init PROVE Totals!Init
    OBVIOUS
  <1>1. \A e \in Events : ~(e <= 0)
    BY AggregationAssumption DEF Events
  <1> QED BY <1>1 DEF Init, Totals!Init, Totals!Prefix, Totals!Events, Events

\* Every step is a commit, an advance of one total, or invisible.
LEMMA TotalsStep ==
    RollupsInv /\ [Next]_vars => [Totals!Next]_<<last, agg>>
  <1> SUFFICES ASSUME RollupsInv, [Next]_vars
               PROVE  Totals!Next \/ UNCHANGED <<last, agg>>
    OBVIOUS
  <1> USE DEF events, stats
  <1>1. CASE CommitEvents
    <2>1. PICK n \in 1..(MaxEvents - last) : last' = last + n
      BY <1>1 DEF CommitEvents
    <2>2. last' \in (last + 1)..MaxEvents
      BY <2>1, AggregationAssumption DEF RollupsInv, TypeOK, DatabaseTypeOK
    <2> QED BY <1>1, <2>2 DEF CommitEvents, Totals!Next, Totals!Commit
  <1>2. ASSUME NEW r \in Rollups, ApplyPage(r)
        PROVE  Totals!Next
    <2>1. PICK m \in (cursor[r] + 1)..last : agg' = [agg EXCEPT ![r] = Totals!Prefix(m)]
      BY <1>2, PageCounted
    <2>2. cursor[r] \in Nat /\ last \in Nat /\ cursor[r] <= last
      BY AggregationAssumption
         DEF RollupsInv, TypeOK, DatabaseTypeOK, CountedPrefix
    <2>3. cursor[r] \in 0..last /\ m \in 1..last /\ cursor[r] < m
      BY <2>2
    <2>4. agg[r] = Totals!Prefix(cursor[r])
      BY DEF RollupsInv, CountedPrefix
    <2>5. UNCHANGED last
      BY <1>2 DEF ApplyPage
    <2>6. Totals!Advance(r)
      BY <2>1, <2>3, <2>4, <2>5 DEF Totals!Advance
    <2> QED BY <2>6 DEF Totals!Next
  <1>3. CASE \/ Arrive \/ DropRows \/ NotifyUsageEventsCommitted \/ SignalEvents
             \/ Metadata \/ Archive \/ TimerFires \/ Crash
    BY <1>3 DEF Arrive, DropRows, NotifyUsageEventsCommitted, SignalEvents,
                Metadata, CreateIdentity, NotifyUsageIdentitiesChanged,
                SignalIdentities, Archive, TimerFires, Crash
  <1>4. CASE \/ LoadTarget \/ SetTarget \/ StartFails \/ BeginTurn \/ Wait
             \/ WakeUp \/ FreezePendingTarget \/ Retry \/ StartTurn \/ CheckBusy
             \/ CheckClear \/ TurnFails \/ Snapshot \/ LoadPage \/ LoadFails
             \/ SkipRollup \/ ApplyFails \/ GiveWay \/ RecheckFails
             \/ EndRollups \/ IdentityTurn
    BY <1>4 DEF LoadTarget, SetTarget, StartFails, BeginTurn, Wait, WakeUp,
                FreezePendingTarget, Retry, StartTurn, CheckBusy, CheckClear,
                TurnFails, Snapshot, LoadPage, LoadFails, SkipRollup, ApplyFails,
                GiveWay, RecheckFails, EndRollups, IdentityTurn
  <1>5. CASE UNCHANGED vars
    BY <1>5 DEF vars
  <1> QED BY <1>1, <1>2, <1>3, <1>4, <1>5 DEF Next, Process, Run, Apply

(* The totals are those of growing prefixes of the committed events.       *)
THEOREM AggregationImplementsTotals == Spec => ImplementsTotals
  <1>1. Init => Totals!Init
    BY TotalsInit
  <1>2. RollupsInv /\ [Next]_vars => [Totals!Next]_<<last, agg>>
    BY TotalsStep
  <1> QED BY <1>1, <1>2, RollupsInvariant, PTL DEF Spec, ImplementsTotals, Totals!Spec

-----------------------------------------------------------------------------
(* The identities.                                                         *)

(* An event that its identity has not counted is hot, or the identity did  *)
(* not exist when it was archived.                                         *)
UncountedIsHot ==
    \A e \in 1..last :
        row[owner[e]] # 0 /\ icursor[owner[e]] < e /\ e \notin hot => e \in born

(* The inductive invariant of the identities.                              *)
IdentityInv ==
    /\ TypeOK
    /\ IdentityExactlyOnce
    /\ UncountedIsHot
    /\ born \subseteq 1..last /\ born \cap hot = {}
    /\ \A k \in Owners : icursor[k] <= last /\ (row[k] = 0 => icursor[k] = 0)
    /\ \A e \in Events : e > last => icount[e] = 0

(* What IdentityInv speaks about.                                          *)
IdentityVars == <<last, owner, hot, icursor, icount, row, born>>

\* The invariant of the identities holds at the start.
LEMMA IdentityInit == Init => IdentityInv
  <1> SUFFICES ASSUME Init PROVE IdentityInv
    OBVIOUS
  <1>1. 1..last = {} /\ last \in Nat
    BY DEF Init
  <1>2. \A k \in Owners : icursor[k] <= last /\ (row[k] = 0 => icursor[k] = 0)
    BY DEF Init
  <1> QED BY <1>1, <1>2, TypeInit
          DEF Init, IdentityInv, IdentityExactlyOnce, UncountedIsHot

\* Steps that leave events and identities alone keep it.
LEMMA IdentityQuiet ==
    ASSUME IdentityInv, TypeOK', UNCHANGED IdentityVars
    PROVE  IdentityInv'
  BY DEF IdentityInv, IdentityVars, IdentityExactlyOnce, UncountedIsHot

\* Committed events are hot and not yet counted.
LEMMA IdentityCommit ==
    ASSUME IdentityInv, TypeOK', CommitEvents
    PROVE  IdentityInv'
  <1>1. PICK n \in 1..(MaxEvents - last) :
          /\ last' = last + n
          /\ hot' = hot \cup (last + 1)..(last + n)
    BY DEF CommitEvents
  <1>2. last \in Nat /\ n \in Nat /\ last <= last' /\ last + n <= MaxEvents
        /\ MaxEvents \in Nat
    BY <1>1, AggregationAssumption DEF IdentityInv, TypeOK, DatabaseTypeOK
  <1>3. UNCHANGED <<owner, icursor, icount, row, born>>
    BY DEF CommitEvents, stats
  <1>4. /\ owner \in [Events -> Owners] /\ icursor \in [Owners -> Nat]
        /\ hot \subseteq 1..last
    BY DEF IdentityInv, TypeOK, DatabaseTypeOK
  <1>5. ASSUME NEW e \in 1..last', e \notin 1..last
        PROVE  /\ e \in Events /\ e > last /\ e \in hot'
               /\ e \notin born /\ ~(e <= icursor[owner[e]]) /\ icount[e] = 0
    <2>1. e \in Events /\ e > last /\ e \in hot'
      BY <1>1, <1>2, <1>5 DEF Events
    <2>2. owner[e] \in Owners /\ icursor[owner[e]] \in Nat
      BY <1>4, <2>1
    <2>3. icursor[owner[e]] <= last
      BY <2>2 DEF IdentityInv
    <2>4. e \notin born /\ icount[e] = 0
      BY <1>5, <2>1 DEF IdentityInv
    <2> QED BY <1>2, <2>1, <2>2, <2>3, <2>4 DEF Events
  <1>6. IdentityExactlyOnce'
    <2> SUFFICES ASSUME NEW e \in 1..last'
                 PROVE  /\ icount[e] = IF /\ row[owner[e]] # 0
                                          /\ e <= icursor[owner[e]]
                                          /\ e \notin born
                                       THEN 1 ELSE 0
                        /\ e \notin hot' /\ row[owner[e]] # 0 /\ e \notin born
                             => icount[e] = 1
      BY <1>3 DEF IdentityExactlyOnce
    <2>1. CASE e \in 1..last
      BY <1>1, <2>1 DEF IdentityInv, IdentityExactlyOnce
    <2>2. CASE e \notin 1..last
      BY <1>5, <2>2
    <2> QED BY <2>1, <2>2
  <1>7. UncountedIsHot'
    <2> SUFFICES ASSUME NEW e \in 1..last', row[owner[e]] # 0,
                        icursor[owner[e]] < e, e \notin hot'
                 PROVE  e \in born
      BY <1>3 DEF UncountedIsHot
    <2>1. e \in 1..last
      BY <1>5
    <2> QED BY <1>1, <2>1 DEF IdentityInv, UncountedIsHot
  <1>8. born' \subseteq 1..last' /\ born' \cap hot' = {}
    BY <1>1, <1>2, <1>3 DEF IdentityInv
  <1>9. \A k \in Owners : icursor'[k] <= last' /\ (row'[k] = 0 => icursor'[k] = 0)
    <2> SUFFICES ASSUME NEW k \in Owners
                 PROVE  icursor[k] <= last' /\ (row[k] = 0 => icursor[k] = 0)
      BY <1>3
    <2>1. icursor[k] \in Nat /\ icursor[k] <= last
      BY <1>4 DEF IdentityInv
    <2>2. row[k] = 0 => icursor[k] = 0
      BY DEF IdentityInv
    <2>3. last' \in Nat
      BY <1>1, <1>2
    <2> QED BY <1>2, <2>1, <2>2, <2>3
  <1>10. \A e \in Events : e > last' => icount'[e] = 0
    <2> SUFFICES ASSUME NEW e \in Events, e > last'
                 PROVE  icount[e] = 0
      BY <1>3
    <2>1. e \in Nat /\ last' \in Nat
      BY <1>1, <1>2 DEF Events
    <2>2. e > last
      BY <1>2, <2>1
    <2> QED BY <2>2 DEF IdentityInv
  <1> QED BY <1>6, <1>7, <1>8, <1>9, <1>10 DEF IdentityInv

\* A new identity owes exactly the events that are still hot.
LEMMA IdentityCreate ==
    ASSUME IdentityInv, TypeOK', NEW k \in Keys, CreateIdentity(k)
    PROVE  IdentityInv'
  <1>1. /\ k \in Owners /\ row[k] = 0 /\ icursor[k] = 0
        /\ row \in [Owners -> Nat]
        /\ owner \in [Events -> Owners] /\ 1..last \subseteq Events
        /\ icursor \in [Owners -> Nat]
    BY AggregationAssumption
       DEF CreateIdentity, IdentityInv, TypeOK, DatabaseTypeOK, Events
  <1>2. Cardinality({j \in Owners : row[j] # 0}) \in Nat
    BY AggregationAssumption, FS_Subset, FS_CardinalityType
  <1>3. PICK id \in Nat \ {0} : row' = [row EXCEPT ![k] = id]
    <2>1. /\ 1 + Cardinality({j \in Owners : row[j] # 0}) \in Nat \ {0}
          /\ row' = [row EXCEPT ![k] = 1 + Cardinality({j \in Owners : row[j] # 0})]
      BY <1>2 DEF CreateIdentity
    <2> QED BY <2>1
  <1>4. born' = born \cup {e \in 1..last : owner[e] = k /\ e \notin hot}
    BY DEF CreateIdentity
  <1>5. UNCHANGED <<last, owner, hot, icursor, icount>>
    BY DEF CreateIdentity, events, stats
  <1>6. ASSUME NEW e \in 1..last, owner[e] = k
        PROVE  icount[e] = 0 /\ ~(e <= icursor[k])
    BY <1>1, <1>6 DEF IdentityInv, IdentityExactlyOnce
  <1>7. ASSUME NEW e \in 1..last, owner[e] # k
        PROVE  row'[owner[e]] = row[owner[e]] /\ (e \in born' <=> e \in born)
    <2>1. owner[e] \in Owners
      BY <1>1
    <2> QED BY <1>1, <1>3, <1>4, <1>7, <2>1
  <1>8. IdentityExactlyOnce'
    <2> SUFFICES ASSUME NEW e \in 1..last
                 PROVE  /\ icount[e] = IF /\ row'[owner[e]] # 0
                                          /\ e <= icursor[owner[e]]
                                          /\ e \notin born'
                                       THEN 1 ELSE 0
                        /\ e \notin hot /\ row'[owner[e]] # 0 /\ e \notin born'
                             => icount[e] = 1
      BY <1>5 DEF IdentityExactlyOnce
    <2>1. CASE owner[e] = k
      BY <1>4, <1>6, <2>1
    <2>2. CASE owner[e] # k
      BY <1>7, <2>2 DEF IdentityInv, IdentityExactlyOnce
    <2> QED BY <2>1, <2>2
  <1>9. UncountedIsHot'
    <2> SUFFICES ASSUME NEW e \in 1..last, row'[owner[e]] # 0,
                        icursor[owner[e]] < e, e \notin hot
                 PROVE  e \in born'
      BY <1>5 DEF UncountedIsHot
    <2>1. CASE owner[e] = k
      BY <1>4, <2>1
    <2>2. CASE owner[e] # k
      BY <1>7, <2>2 DEF IdentityInv, UncountedIsHot
    <2> QED BY <2>1, <2>2
  <1>10. born' \subseteq 1..last' /\ born' \cap hot' = {}
    BY <1>4, <1>5 DEF IdentityInv
  <1>11. \A j \in Owners : icursor'[j] <= last' /\ (row'[j] = 0 => icursor'[j] = 0)
    BY <1>1, <1>3, <1>5 DEF IdentityInv
  <1>12. \A e \in Events : e > last' => icount'[e] = 0
    BY <1>5 DEF IdentityInv
  <1> QED BY <1>8, <1>9, <1>10, <1>11, <1>12 DEF IdentityInv

\* The archive takes only events that their identity has counted.
LEMMA IdentityArchive ==
    ASSUME IdentityInv, TypeOK', Archive
    PROVE  IdentityInv'
  <1>1. PICK S \in SUBSET hot : hot' = hot \ S
    BY DEF Archive
  <1>2. UNCHANGED <<last, owner, icursor, icount, row, born>>
    BY DEF Archive, stats, others
  <1>3. /\ hot \subseteq 1..last /\ 1..last \subseteq Events
        /\ icursor \in [Owners -> Nat] /\ owner \in [Events -> Owners]
    <2>1. 1..last \subseteq Events
      BY AggregationAssumption DEF IdentityInv, TypeOK, DatabaseTypeOK, Events
    <2> QED BY <2>1 DEF IdentityInv, TypeOK, DatabaseTypeOK
  <1>4. ASSUME NEW e \in hot, row[owner[e]] # 0
        PROVE  e <= icursor[owner[e]]
    <2>1. ~(icursor[owner[e]] < e)
      BY <1>4 DEF Archive, CaughtUp, Owed
    <2>2. icursor[owner[e]] \in Nat /\ e \in Nat
      <3>1. e \in 1..last /\ owner[e] \in Owners
        BY <1>3
      <3> QED BY <1>3, <3>1
    <2> QED BY <2>1, <2>2
  <1>5. UncountedIsHot'
    <2> SUFFICES ASSUME NEW e \in 1..last, row[owner[e]] # 0,
                        icursor[owner[e]] < e, e \notin hot'
                 PROVE  e \in born
      BY <1>2 DEF UncountedIsHot
    <2>1. e \notin hot
      BY DEF Archive, CaughtUp, Owed
    <2> QED BY <2>1 DEF IdentityInv, UncountedIsHot
  <1>6. IdentityExactlyOnce'
    <2> SUFFICES ASSUME NEW e \in 1..last, e \notin hot', row[owner[e]] # 0,
                        e \notin born
                 PROVE  icount[e] = 1
      BY <1>2 DEF IdentityInv, IdentityExactlyOnce
    <2>1. CASE e \in hot
      BY <1>4, <2>1 DEF IdentityInv, IdentityExactlyOnce
    <2>2. CASE e \notin hot
      BY <2>2 DEF IdentityInv, IdentityExactlyOnce
    <2> QED BY <2>1, <2>2
  <1> QED BY <1>1, <1>2, <1>5, <1>6 DEF IdentityInv

\* A batch of identities counts what is owed, once, and moves the cursors.
LEMMA IdentityBatchCounted ==
    ASSUME IdentityInv, TypeOK', IdentityTurn
    PROVE  IdentityInv'
  <1>1. /\ hot \subseteq 1..last /\ last \in Nat
        /\ icursor \in [Owners -> Nat] /\ owner \in [Events -> Owners]
        /\ icount \in [Events -> Nat]
    BY AggregationAssumption DEF IdentityInv, TypeOK, DatabaseTypeOK
  <1>2. 1..last \subseteq Events
    BY AggregationAssumption DEF IdentityInv, TypeOK, DatabaseTypeOK, Events
  <1>3. UNCHANGED <<last, owner, hot, row, born>>
    BY DEF IdentityTurn, events, others
  <1>4. ASSUME NEW k \in Owners
        PROVE  /\ icursor[k] \in Nat
               /\ \A e \in DeltaOf(k) : e \in 1..last /\ icursor[k] < e
               /\ DeltaOf(k) = {} => icursor'[k] = icursor[k]
               /\ DeltaOf(k) # {} => /\ icursor'[k] \in DeltaOf(k)
                                     /\ \A e \in DeltaOf(k) : e <= icursor'[k]
                                     /\ row[k] \in NextIds
    <2>1. \A e \in DeltaOf(k) : e \in 1..last /\ icursor[k] < e /\ row[k] \in NextIds
      BY <1>1 DEF DeltaOf, Delta
    <2>2. DeltaOf(k) \in SUBSET (1..last)
      BY <2>1
    <2>3. DeltaOf(k) = {} => icursor'[k] = icursor[k]
      BY DEF IdentityTurn
    <2>4. DeltaOf(k) # {} => icursor'[k] = MaxOf(DeltaOf(k))
      BY DEF IdentityTurn
    <2> QED BY <1>1, <2>1, <2>2, <2>3, <2>4, MaxOfIsMax
  <1>5. ASSUME NEW k \in Owners
        PROVE  /\ icursor[k] \in Nat /\ icursor'[k] \in Nat
               /\ icursor[k] <= icursor'[k] /\ icursor'[k] <= last
    <2>1. icursor[k] <= last
      BY DEF IdentityInv
    <2>2. CASE DeltaOf(k) = {}
      BY <1>4, <2>1, <2>2
    <2>3. CASE DeltaOf(k) # {}
      <3>1. icursor'[k] \in 1..last /\ icursor[k] < icursor'[k]
        BY <1>4, <2>3
      <3> QED BY <1>1, <1>4, <3>1
    <2> QED BY <2>2, <2>3
  <1>6. ASSUME NEW k \in Owners, row[k] \in NextIds
        PROVE  row[k] # 0
    <2>1. row[k] \notin 0..after
      BY <1>6 DEF NextIds, FirstOf
    <2>2. after \in Nat
      BY DEF IdentityInv, TypeOK, RunnerTypeOK
    <2> QED BY <2>1, <2>2
  <1>7. IdentityExactlyOnce'
    <2> SUFFICES ASSUME NEW e \in 1..last
                 PROVE  /\ icount'[e] = IF /\ row[owner[e]] # 0
                                           /\ e <= icursor'[owner[e]]
                                           /\ e \notin born
                                        THEN 1 ELSE 0
                        /\ e \notin hot /\ row[owner[e]] # 0 /\ e \notin born
                             => icount'[e] = 1
      BY <1>3 DEF IdentityExactlyOnce
    <2> DEFINE k == owner[e]
    <2>1. e \in Nat /\ e \in Events /\ k \in Owners
      BY <1>1, <1>2
    <2>2. icount'[e] = IF e \in Delta THEN icount[e] + 1 ELSE icount[e]
      BY <2>1 DEF IdentityTurn
    <2>3. icount[e] = IF row[k] # 0 /\ e <= icursor[k] /\ e \notin born THEN 1 ELSE 0
      BY DEF IdentityInv, IdentityExactlyOnce
    <2>4. e \in Delta <=> e \in DeltaOf(k)
      BY DEF DeltaOf
    <2>5. CASE e \in Delta
      <3>1. icursor[k] < e /\ e <= icursor'[k] /\ row[k] # 0
        BY <1>4, <1>6, <2>1, <2>4, <2>5
      <3>2. e \notin born /\ e \in hot
        BY <2>5 DEF Delta, IdentityInv
      <3> HIDE DEF k
      <3>3. icursor[k] \in Nat
        BY <1>5, <2>1
      <3>4. icount[e] = 0
        BY <2>1, <2>3, <3>1, <3>3
      <3>5. icount'[e] = 1
        BY <2>2, <2>5, <3>4
      <3> QED BY <3>1, <3>2, <3>5 DEF k
    <2>6. CASE e \notin Delta /\ row[k] # 0 /\ icursor[k] < e /\ e <= icursor'[k]
      <3>1. DeltaOf(k) # {}
        BY <1>4, <1>5, <2>1, <2>6
      <3>2. e \notin hot
        BY <1>4, <2>1, <2>6, <3>1 DEF Delta
      <3>3. e \in born
        BY <2>6, <3>2 DEF IdentityInv, UncountedIsHot
      <3> QED BY <2>2, <2>3, <2>6, <3>3
    <2>7. CASE e \notin Delta /\ ~(row[k] # 0 /\ icursor[k] < e /\ e <= icursor'[k])
      <3> HIDE DEF k
      <3>1. /\ icursor[k] \in Nat /\ icursor'[k] \in Nat
            /\ icursor[k] <= icursor'[k]
        BY <1>5, <2>1
      <3>2. row[k] # 0 => (e <= icursor[k] <=> e <= icursor'[k])
        BY <2>1, <2>7, <3>1
      <3>3. icount'[e] = icount[e]
        BY <2>2, <2>7
      <3>4. e \notin hot /\ row[k] # 0 /\ e \notin born => icount[e] = 1
        BY DEF IdentityInv, IdentityExactlyOnce, k
      <3>5. icount'[e] = IF row[k] # 0 /\ e <= icursor'[k] /\ e \notin born
                         THEN 1 ELSE 0
        BY <2>3, <3>2, <3>3
      <3> QED BY <3>3, <3>4, <3>5 DEF k
    <2> QED BY <2>5, <2>6, <2>7
  <1>8. UncountedIsHot'
    <2> SUFFICES ASSUME NEW e \in 1..last, row[owner[e]] # 0,
                        icursor'[owner[e]] < e, e \notin hot
                 PROVE  e \in born
      BY <1>3 DEF UncountedIsHot
    <2>1. owner[e] \in Owners /\ e \in Nat
      BY <1>1, <1>2
    <2>2. icursor[owner[e]] < e
      BY <1>5, <2>1
    <2> QED BY <2>2 DEF IdentityInv, UncountedIsHot
  <1>9. \A k \in Owners : icursor'[k] <= last' /\ (row'[k] = 0 => icursor'[k] = 0)
    <2> SUFFICES ASSUME NEW k \in Owners
                 PROVE  icursor'[k] <= last /\ (row[k] = 0 => icursor'[k] = 0)
      BY <1>3
    <2>1. row[k] = 0 => DeltaOf(k) = {}
      BY <1>4, <1>6
    <2>2. row[k] = 0 => icursor[k] = 0
      BY DEF IdentityInv
    <2> QED BY <1>4, <1>5, <2>1, <2>2
  <1>10. \A e \in Events : e > last' => icount'[e] = 0
    <2> SUFFICES ASSUME NEW e \in Events, e > last
                 PROVE  icount'[e] = 0
      BY <1>3
    <2>1. e \notin hot
      <3>1. \A x \in 1..last : ~(x > last)
        BY <1>1
      <3> QED BY <1>1, <3>1
    <2>2. icount[e] = 0
      BY DEF IdentityInv
    <2> QED BY <2>1, <2>2 DEF IdentityTurn, Delta
  <1>11. born' \subseteq 1..last' /\ born' \cap hot' = {}
    BY <1>3 DEF IdentityInv
  <1> QED BY <1>7, <1>8, <1>9, <1>10, <1>11 DEF IdentityInv

\* Every step keeps the invariant of the identities.
LEMMA IdentityStep == IdentityInv /\ [Next]_vars => IdentityInv'
  <1> SUFFICES ASSUME IdentityInv, [Next]_vars PROVE IdentityInv'
    OBVIOUS
  <1>0. TypeOK'
    BY TypeStep DEF IdentityInv
  <1> USE DEF events, stats, others, IdentityVars
  <1>1. CASE CommitEvents
    BY <1>0, <1>1, IdentityCommit
  <1>2. ASSUME NEW k \in Keys, CreateIdentity(k)
        PROVE  IdentityInv'
    BY <1>0, <1>2, IdentityCreate
  <1>3. CASE Archive
    BY <1>0, <1>3, IdentityArchive
  <1>4. CASE IdentityTurn
    BY <1>0, <1>4, IdentityBatchCounted
  <1>5. CASE \/ Arrive \/ DropRows \/ NotifyUsageEventsCommitted \/ SignalEvents
             \/ NotifyUsageIdentitiesChanged \/ SignalIdentities \/ TimerFires
             \/ Crash
    <2>1. UNCHANGED IdentityVars
      BY <1>5 DEF Arrive, DropRows, NotifyUsageEventsCommitted, SignalEvents,
                  NotifyUsageIdentitiesChanged, SignalIdentities, TimerFires, Crash
    <2> QED BY <1>0, <2>1, IdentityQuiet
  <1>6. CASE \/ LoadTarget \/ SetTarget \/ StartFails \/ BeginTurn \/ Wait
             \/ WakeUp \/ FreezePendingTarget \/ Retry \/ StartTurn \/ CheckBusy
             \/ CheckClear \/ TurnFails \/ Snapshot \/ LoadPage \/ LoadFails
             \/ SkipRollup \/ Apply \/ ApplyFails \/ GiveWay \/ RecheckFails
             \/ EndRollups
    <2>1. UNCHANGED IdentityVars
      BY <1>6 DEF LoadTarget, SetTarget, StartFails, BeginTurn, Wait, WakeUp,
                  FreezePendingTarget, Retry, StartTurn, CheckBusy, CheckClear,
                  TurnFails, Snapshot, LoadPage, LoadFails, SkipRollup, Apply,
                  ApplyPage, ApplyFails, GiveWay, RecheckFails, EndRollups
    <2> QED BY <1>0, <2>1, IdentityQuiet
  <1>7. CASE UNCHANGED vars
    BY <1>0, <1>7, IdentityQuiet DEF vars
  <1> QED BY <1>1, <1>2, <1>3, <1>4, <1>5, <1>6, <1>7
          DEF Next, Process, Metadata, Run

(* Each identity counts each of its events once, and before the archive.   *)
THEOREM IdentitiesExact == Spec => []IdentityExactlyOnce
  <1>1. IdentityInv => IdentityExactlyOnce
    BY DEF IdentityInv
  <1> QED BY <1>1, IdentityInit, IdentityStep, PTL DEF Spec
-----------------------------------------------------------------------------
(* Wake-ups.                                                               *)

\* At the start the runner does not wait.
LEMMA WakeUpInit == Init => NoLostWakeUp
  BY DEF Init, NoLostWakeUp

\* No step makes the runner wait on work, or gives it work it is not woken
\* for.
LEMMA WakeUpStep == TypeOK /\ NoLostWakeUp /\ [Next]_vars => NoLostWakeUp'
  <1> SUFFICES ASSUME TypeOK, NoLostWakeUp, [Next]_vars PROVE NoLostWakeUp'
    OBVIOUS
  <1> USE DEF others, round, idscan
  <1> DEFINE Same == UNCHANGED <<active, target, pending, after, tgtGen, scanGen>>
  <1>1. ASSUME Same, UNCHANGED <<pc, timer>>, wake => wake',
               proc = "signal" => proc' = "signal" \/ wake',
               meta = "signal" => meta' = "signal" \/ wake'
        PROVE  NoLostWakeUp'
    BY <1>1 DEF NoLostWakeUp, Runnable, IdentityPending, PendingWindow
  <1>2. CASE NotifyUsageEventsCommitted \/ NotifyUsageIdentitiesChanged
    BY <1>2 DEF NotifyUsageEventsCommitted, NotifyUsageIdentitiesChanged,
                NoLostWakeUp
  <1>3. CASE \/ Arrive \/ CommitEvents \/ DropRows \/ SignalEvents
             \/ SignalIdentities \/ Archive
    BY <1>1, <1>3 DEF Arrive, CommitEvents, DropRows, SignalEvents,
                      SignalIdentities, Archive
  <1>4. ASSUME NEW k \in Keys, CreateIdentity(k)
        PROVE  NoLostWakeUp'
    BY <1>1, <1>4 DEF CreateIdentity
  <1>5. CASE TimerFires
    BY <1>5 DEF TimerFires, NoLostWakeUp, Runnable, IdentityPending, PendingWindow
  <1>6. CASE Wait
    <2>1. PendingWindow => timer' # "off"
      BY <1>6 DEF Wait, Armed
    <2> QED BY <1>6, <2>1
            DEF Wait, NoLostWakeUp, Runnable, IdentityPending, PendingWindow
  <1>7. CASE Run /\ ~Wait
    <2>1. pc' # "wait"
      BY <1>7 DEF Run, LoadTarget, SetTarget, StartFails, BeginTurn, WakeUp,
                  FreezePendingTarget, Retry, StartTurn, CheckBusy, CheckClear,
                  TurnFails, Snapshot, LoadPage, LoadFails, NeedsPage, SkipRollup,
                  Apply, ApplyPage, ApplyFails, GiveWay, RecheckFails, EndRollups,
                  IdentityTurn, Fail, FinishRollups
    <2> QED BY <2>1 DEF NoLostWakeUp
  <1>8. CASE Crash
    BY <1>8 DEF Crash, NoLostWakeUp
  <1>9. CASE UNCHANGED vars
    BY <1>1, <1>9 DEF vars
  <1> QED BY <1>2, <1>3, <1>4, <1>5, <1>6, <1>7, <1>8, <1>9
          DEF Next, Process, Metadata

(* The runner never sleeps on work it was or is being told about.          *)
THEOREM NeverSleepsOnWork == Spec => []NoLostWakeUp
  BY TypeInit, TypeStep, WakeUpInit, WakeUpStep, PTL DEF Spec
=============================================================================
