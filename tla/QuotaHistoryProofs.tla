-------------------------- MODULE QuotaHistoryProofs --------------------------
(* Theorems about the history of Codex quotas, for any windows and inputs, any *)
(* capacity of the queues and any number of crashes: the two queues first, and *)
(* then what the database holds.  What the transaction makes of one            *)
(* observation is shown for the segments, for a cycle and for all of them, then*)
(* what the machine in memory makes of one, then a batch of them and its write;*)
(* last, that both make the same of them, and what their page counts.          *)
EXTENDS QuotaEfficiency, FiniteSetTheorems, SequenceTheorems, NaturalsInduction,
        WellFoundedInduction, TLAPS

-----------------------------------------------------------------------------
(* The two queues. The runner notes their lengths and clears the              *)
(* notifications; what arrives afterwards is beyond what it noted and sets    *)
(* its notification again. Of a full queue of headers the oldest input is     *)
(* dropped before the new one is sent, and the runner may receive in between: *)
(* it may then lack the one that is about to be sent. Once the service        *)
(* closes, nothing arrives.                                                    *)

\* The types of the queues, and of what the runner noted.
QueuesTyped ==
    /\ headerQ \in Seq(Inputs) /\ Len(headerQ) <= QueueSize
    /\ trustedQ \in Seq(Inputs) /\ Len(trustedQ) <= QueueSize
    /\ hLeft \in Nat /\ tLeft \in Nat

\* A producer that found the queue full holds the mutex, so nobody closes; and
\* as nobody else sends, what it dropped leaves room for its own.
Pushing ==
    /\ pushing \in {"no", "full", "dropped"}
    /\ pushing # "no" => pushed \in Inputs /\ ~closing
    /\ pushing = "dropped" => Len(headerQ) < QueueSize

\* No more is noted than is there, but for an input that is about to be sent
\* again, and what is there beyond it was notified.
Noted ==
    pc = "taking" =>
        /\ hLeft <= Len(headerQ) + (IF pushing = "dropped" THEN 1 ELSE 0)
        /\ tLeft <= Len(trustedQ)
        /\ hLeft < Len(headerQ) => headerWake
        /\ tLeft < Len(trustedQ) => trustedWake

\* A runner that waits was notified of what is there; the headers are looked at
\* again after their notification, and while they are waited for.
Notified ==
    /\ pc \in {"idle", "woken", "armed"} => (trustedQ # <<>> => trustedWake)
    /\ pc = "idle" => (headerQ # <<>> => headerWake)

\* The last batch takes all there will ever be.
LastTakesAll ==
    /\ pc = "taking" /\ last => closing /\ hLeft = Len(headerQ) /\ tLeft = Len(trustedQ)
    /\ pc = "done" => closing /\ headerQ = <<>> /\ trustedQ = <<>>

QueueInv == QueuesTyped /\ Pushing /\ Noted /\ Notified /\ LastTakesAll

\* Where the runner may be.
Placed == pc \in {"idle", "woken", "armed", "taking", "done"}

\* An input that arrives keeps the queues in order.
LEMMA AppendKeeps ==
    ASSUME QueueInv, NEW x \in Inputs, AppendInput(x) PROVE QueueInv'
<1>1. UNCHANGED <<pc, hLeft, tLeft, last, pushing, pushed>> /\ pushing = "no"
  BY DEF AppendInput, takeVars, pushVars, Free
<1>2. QueueSize \in Nat \ {0}
  BY HistoryAssumption DEF HistoryAssumption
<1>3. CASE UNCHANGED queueVars
  BY <1>1, <1>3 DEF queueVars, QueueInv, QueuesTyped, Pushing, Noted, Notified, LastTakesAll
<1>4. CASE /\ ~closing /\ Len(trustedQ) # QueueSize
           /\ trustedQ' = Append(trustedQ, x) /\ trustedWake'
           /\ UNCHANGED <<headerQ, headerWake, closing>>
  <2>1. /\ trustedQ' \in Seq(Inputs) /\ Len(trustedQ') = Len(trustedQ) + 1
        /\ Len(trustedQ') <= QueueSize
    BY <1>2, <1>4 DEF QueueInv, QueuesTyped
  <2> QED BY <1>1, <1>4, <2>1
      DEF QueueInv, QueuesTyped, Pushing, Noted, Notified, LastTakesAll
<1>5. CASE /\ ~closing /\ Len(headerQ) # QueueSize
           /\ headerQ' = Append(headerQ, x) /\ headerWake'
           /\ UNCHANGED <<trustedQ, trustedWake, closing>>
  <2>1. /\ headerQ' \in Seq(Inputs) /\ Len(headerQ') = Len(headerQ) + 1
        /\ Len(headerQ') <= QueueSize
    BY <1>2, <1>5 DEF QueueInv, QueuesTyped
  <2> QED BY <1>1, <1>5, <2>1
      DEF QueueInv, QueuesTyped, Pushing, Noted, Notified, LastTakesAll
<1> QED BY <1>3, <1>4, <1>5 DEF AppendInput, FullForHeader

\* So does a producer that finds the queue of the headers full, drops and sends:
\* whatever the runner received in between, there is room for what is sent.
LEMMA PushKeeps ==
    ASSUME QueueInv, (\E x \in Inputs : FindFull(x)) \/ FinishPush PROVE QueueInv'
<1> USE DEF QueueInv, QueuesTyped, Pushing, Noted, Notified, LastTakesAll
<1>0. QueueSize \in Nat \ {0}
  BY HistoryAssumption DEF HistoryAssumption
<1>1. CASE \E x \in Inputs : FindFull(x)
  BY <1>1 DEF FindFull, FullForHeader, Free, queueVars, takeVars
<1>2. CASE DropHead
  <2>1. /\ pushing = "full" /\ pushing' = "dropped" /\ ~closing /\ pushed \in Inputs
        /\ UNCHANGED <<trustedQ, headerWake, trustedWake, closing, pushed, pc, last, hLeft, tLeft>>
    BY <1>2 DEF DropHead, takeVars
  <2>2. /\ headerQ' \in Seq(Inputs) /\ Len(headerQ') \in Nat /\ Len(headerQ') < QueueSize
        /\ Len(headerQ) <= Len(headerQ') + 1 /\ Len(headerQ') <= Len(headerQ)
    <3>1. CASE headerQ = <<>>
      BY <1>0, <1>2, <3>1 DEF DropHead
    <3>2. CASE headerQ # <<>>
      <4>1. headerQ \in Seq(Inputs) /\ Len(headerQ) \in Nat /\ Len(headerQ) <= QueueSize
        OBVIOUS
      <4>2. Tail(headerQ) \in Seq(Inputs) /\ Len(Tail(headerQ)) = Len(headerQ) - 1
            /\ Len(Tail(headerQ)) \in Nat
        BY <3>2, <4>1
      <4>3. headerQ' = Tail(headerQ)
        BY <1>2, <3>2 DEF DropHead
      <4> QED BY ONLY <1>0, <4>1, <4>2, <4>3
    <3> QED BY <3>1, <3>2
  <2>3. headerQ' # <<>> => headerQ # <<>>
    BY <1>2 DEF DropHead
  <2>4. QueuesTyped' /\ Pushing'
    <3>1. Len(headerQ') <= QueueSize
      BY ONLY <1>0, <2>2
    <3> QED BY <2>1, <2>2, <3>1
  <2>5. pc = "taking" => hLeft <= Len(headerQ)
    BY <2>1
  <2>6. Noted'
    BY <2>1, <2>2, <2>5
  <2>7. Notified'
    BY <2>1, <2>3
  <2>8. LastTakesAll'
    BY <2>1
  <2> QED BY <2>4, <2>6, <2>7, <2>8
<1>3. CASE SendAgain
  <2>1. /\ pushing = "dropped" /\ pushing' = "no" /\ ~closing /\ pushed \in Inputs
        /\ headerQ' = Append(headerQ, pushed) /\ headerWake'
        /\ UNCHANGED <<trustedQ, trustedWake, closing, pc, last, hLeft, tLeft>>
    BY <1>3 DEF SendAgain, takeVars
  <2>2. /\ headerQ' \in Seq(Inputs) /\ Len(headerQ') = Len(headerQ) + 1
        /\ Len(headerQ') <= QueueSize
    BY <1>0, <2>1
  <2> QED BY <2>1, <2>2
<1> QED BY <1>1, <1>2, <1>3 DEF FinishPush

\* One input fewer in a queue, and one fewer to be received.
LEMMA OneReceived ==
    ASSUME NEW q \in Seq(Inputs), Len(q) <= QueueSize, q # <<>>,
           NEW n \in Nat, n > 0
    PROVE  /\ Tail(q) \in Seq(Inputs) /\ n - 1 \in Nat
           /\ Len(Tail(q)) < Len(q) /\ Len(Tail(q)) <= QueueSize
           /\ Len(q) < QueueSize => Len(Tail(q)) < QueueSize
           /\ n - 1 < Len(Tail(q)) => n < Len(q)
           /\ n <= Len(q) => n - 1 <= Len(Tail(q))
           /\ n <= Len(q) + 1 => n - 1 <= Len(Tail(q)) + 1
           /\ n = Len(q) => n - 1 = Len(Tail(q))
<1> DEFINE k == Len(q)
           j == Len(Tail(q))
<1>1. QueueSize \in Nat
  BY HistoryAssumption DEF HistoryAssumption
<1>2. Tail(q) \in Seq(Inputs) /\ k \in Nat /\ j = k - 1 /\ k <= QueueSize
  OBVIOUS
<1> HIDE DEF k, j
<1>3. /\ n - 1 \in Nat /\ j < k /\ j <= QueueSize /\ (k < QueueSize => j < QueueSize)
      /\ (n - 1 < j => n < k) /\ (n <= k => n - 1 <= j) /\ (n <= k + 1 => n - 1 <= j + 1)
      /\ (n = k => n - 1 = j)
  BY <1>1, <1>2
<1> QED BY <1>2, <1>3 DEF k, j

\* The runner's steps, the close and a crash keep the queues in order.
LEMMA RunnerKeeps ==
    ASSUME QueueInv, Placed, Runner \/ CloseHistory \/ Crash PROVE QueueInv'
<1> USE DEF QueueInv, QueuesTyped, Pushing, Noted, Notified, LastTakesAll
<1>1. CASE WakeForHeaders
  BY <1>1 DEF WakeForHeaders, takeVars, pushVars
<1>2. CASE LookAtQueue
  BY <1>2 DEF LookAtQueue, queueVars, takeVars, pushVars
<1>3. CASE TakeCounts
  <2>1. /\ pc' = "taking" /\ hLeft' = Len(headerQ) /\ tLeft' = Len(trustedQ)
        /\ UNCHANGED <<headerQ, trustedQ, closing, pushing, pushed>> /\ pushing = "no"
    BY <1>3 DEF TakeCounts, Free, pushVars
  <2>2. last' => closing
    BY <1>3 DEF TakeCounts, BeginBatch
  <2> QED BY <2>1, <2>2
<1>4. CASE ReceiveHeader
  <2>1. /\ pc = "taking" /\ hLeft > 0 /\ headerQ # <<>>
        /\ headerQ' = Tail(headerQ) /\ hLeft' = hLeft - 1
        /\ UNCHANGED <<trustedQ, headerWake, trustedWake, closing, pushing, pushed, pc, last, tLeft>>
    BY <1>4 DEF ReceiveHeader, pushVars
  <2>2. /\ headerQ' \in Seq(Inputs) /\ hLeft' \in Nat
        /\ Len(headerQ') <= QueueSize /\ (Len(headerQ) < QueueSize => Len(headerQ') < QueueSize)
        /\ hLeft' < Len(headerQ') => hLeft < Len(headerQ)
        /\ hLeft <= Len(headerQ) => hLeft' <= Len(headerQ')
        /\ hLeft <= Len(headerQ) + 1 => hLeft' <= Len(headerQ') + 1
        /\ hLeft = Len(headerQ) => hLeft' = Len(headerQ')
    BY <2>1, OneReceived
  <2>3. QueuesTyped'
    BY <2>1, <2>2
  <2>4. Pushing'
    BY <2>1, <2>2
  <2>5. Noted'
    <3>1. Len(headerQ) \in Nat /\ Len(headerQ') \in Nat
      BY <2>2
    <3>2. CASE pushing = "dropped"
      <4>1. pushing' = "dropped"
        BY <2>1, <3>2
      <4> QED BY <2>1, <2>2, <3>2, <4>1, Zenon
    <3>3. CASE pushing # "dropped"
      <4>1. Len(headerQ) \in Nat /\ Len(headerQ') \in Nat /\ pushing' # "dropped"
        BY <2>1, <3>1, <3>3
      <4>2. hLeft <= Len(headerQ) /\ (hLeft' <= Len(headerQ') => hLeft' <= Len(headerQ') + 0)
        BY <2>1, <2>2, <3>3, <4>1
      <4> QED BY <2>1, <2>2, <3>3, <4>1, <4>2, Zenon
    <3> QED BY <3>2, <3>3
  <2>6. Notified'
    BY <2>1
  <2>7. LastTakesAll'
    BY <2>1, <2>2
  <2> QED BY <2>3, <2>4, <2>5, <2>6, <2>7
<1>5. CASE ReceiveTrusted
  <2>1. /\ pc = "taking" /\ tLeft > 0 /\ trustedQ # <<>>
        /\ trustedQ' = Tail(trustedQ) /\ tLeft' = tLeft - 1
        /\ UNCHANGED <<headerQ, headerWake, trustedWake, closing, pushing, pushed, pc, last, hLeft>>
    BY <1>5 DEF ReceiveTrusted, pushVars
  <2>2. /\ trustedQ' \in Seq(Inputs) /\ tLeft' \in Nat
        /\ Len(trustedQ') <= QueueSize /\ (Len(trustedQ) < QueueSize => Len(trustedQ') < QueueSize)
        /\ tLeft' < Len(trustedQ') => tLeft < Len(trustedQ)
        /\ tLeft <= Len(trustedQ) => tLeft' <= Len(trustedQ')
        /\ tLeft <= Len(trustedQ) + 1 => tLeft' <= Len(trustedQ') + 1
        /\ tLeft = Len(trustedQ) => tLeft' = Len(trustedQ')
    BY <2>1, OneReceived
  <2>3. QueuesTyped'
    BY <2>1, <2>2
  <2>4. Pushing'
    BY <2>1, <2>2
  <2>5. Noted'
    <3>1. Len(trustedQ) \in Nat /\ Len(trustedQ') \in Nat
      BY <2>2
    <3>2. CASE pushing = "dropped"
      <4>1. pushing' = "dropped"
        BY <2>1, <3>2
      <4> QED BY <2>1, <2>2, <3>2, <4>1, Zenon
    <3>3. CASE pushing # "dropped"
      <4>1. Len(headerQ) \in Nat /\ Len(headerQ') \in Nat /\ pushing' # "dropped"
        BY <2>1, <3>1, <3>3
      <4>2. hLeft <= Len(headerQ) /\ (hLeft' <= Len(headerQ') => hLeft' <= Len(headerQ') + 0)
        BY <2>1, <2>2, <3>3, <4>1
      <4> QED BY <2>1, <2>2, <3>3, <4>1, <4>2, Zenon
    <3> QED BY <3>2, <3>3
  <2>6. Notified'
    BY <2>1
  <2>7. LastTakesAll'
    BY <2>1, <2>2
  <2> QED BY <2>3, <2>4, <2>5, <2>6, <2>7
<1>6. CASE ProcessBatch
  <2>1. /\ pc = "taking" /\ hLeft = 0 /\ tLeft = 0
        /\ pc' = (IF last THEN "done" ELSE "idle") /\ last' = FALSE
        /\ UNCHANGED <<queueVars, pushVars, hLeft, tLeft>>
    BY <1>6, Zenon DEF ProcessBatch
  <2>2. (headerQ # <<>> => headerWake) /\ (trustedQ # <<>> => trustedWake)
    BY <2>1
  <2>3. last => closing /\ headerQ = <<>> /\ trustedQ = <<>>
    BY <2>1
  <2> QED BY <2>1, <2>2, <2>3 DEF queueVars, pushVars
<1>7. CASE CloseHistory
  BY <1>7 DEF CloseHistory, Free, takeVars, pushVars
<1>8. CASE Crash
  BY <1>8, HistoryAssumption DEF Crash, HistoryAssumption
<1> QED BY <1>1, <1>2, <1>3, <1>4, <1>5, <1>6, <1>7, <1>8 DEF Runner

\* The runner stays at its places.
LEMMA PlacedNext == ASSUME Placed, [Next]_vars PROVE Placed'
<1>1. UNCHANGED pc \/ pc' \in {"idle", "woken", "armed", "taking", "done"}
  BY Zenon DEF Next, Runner, AppendInput, FindFull, FinishPush, DropHead, SendAgain,
     CloseHistory, WakeForHeaders, LookAtQueue, TakeCounts, ReceiveHeader, ReceiveTrusted,
     ProcessBatch, Crash, vars
<1> QED BY <1>1 DEF Placed

\* The queues are in order in every behaviour.
LEMMA QueuesInOrder == Spec => [](QueueInv /\ Placed)
<1>1. Init => QueueInv /\ Placed
  BY HistoryAssumption DEF Init, HistoryAssumption, QueueInv, QueuesTyped, Pushing, Noted, Notified,
     LastTakesAll, Placed
<1>2. QueueInv /\ Placed /\ [Next]_vars => (QueueInv /\ Placed)'
  <2> SUFFICES ASSUME QueueInv, Placed, [Next]_vars PROVE QueueInv' /\ Placed'
      OBVIOUS
  <2>1. CASE UNCHANGED vars
    BY <2>1 DEF vars, queueVars, pushVars, takeVars, QueueInv, QueuesTyped, Pushing, Noted, Notified,
                LastTakesAll, Placed
  <2>2. CASE Next
    BY <2>2, AppendKeeps, PushKeeps, RunnerKeeps, PlacedNext DEF Next
  <2> QED BY <2>1, <2>2
<1> QED BY <1>1, <1>2, PTL DEF Spec

\* The two queues are handed over whole, though a producer finds a full queue,
\* drops its oldest input and sends its own in steps between which the runner
\* receives (tryAppendCodexQuotaHistoryHeaderInput): the runner never waits for
\* an input that is gone, only for one that is about to be sent; the second send
\* always finds room; and no input is left behind without a notification, or by
\* a runner that ended.
THEOREM QueuesHandedOver == Spec => []HandOver
<1>1. QueueInv => HandOver
  BY DEF QueueInv, Pushing, Noted, Notified, LastTakesAll, HandOver, ReceivesWhatItCounted,
         RoomForSecondSend, NothingLeftBehind
<1> QED BY <1>1, QueuesInOrder, PTL

-----------------------------------------------------------------------------
(* Sequences. A set of naturals has a least element, a set can be listed in an *)
(* order, and what is taken from a sequence or put behind it stays in order.   *)

\* A set of naturals has a least element.
LEMMA NaturalsHaveLeast == ASSUME NEW S, S \subseteq Nat, S # {} PROVE \E x \in S : \A y \in S : x <= y
<1> DEFINE Less == {ss \in Nat \X Nat : ss[1] < ss[2]}
<1>1. IsWellFoundedOn(Less, Nat)
  BY NatLessThanWellFounded DEF OpToRel
<1>2. PICK x \in S : \A y \in S : ~(<<y, x>> \in Less)
  BY <1>1, WFMin
<1>3. \A y \in S : x <= y
  <2> TAKE y \in S
  <2>1. x \in Nat /\ y \in Nat
    OBVIOUS
  <2>2. ~(y < x)
    BY <1>2, <2>1
  <2> QED BY <2>1, <2>2
<1> QED BY <1>3

\* Whoever has fewer before it comes first: no two have as many.
LEMMA AnyOrderLists ==
    ASSUME NEW S, IsFiniteSet(S), NEW R,
           \A a \in S : <<a, a>> \notin R,
           \A a, b \in S : a # b => <<a, b>> \in R \/ <<b, a>> \in R,
           \A a, b, c \in S : <<a, b>> \in R /\ <<b, c>> \in R => <<a, c>> \in R
    PROVE  \E s \in [1 .. Cardinality(S) -> S] : \A i, j \in DOMAIN s : i < j => <<s[i], s[j]>> \in R
<1> DEFINE n == Cardinality(S)
           before(e) == {a \in S : <<a, e>> \in R}
           place == [e \in S |-> Cardinality(before(e)) + 1]
<1>0. n \in Nat
  BY FS_CardinalityType
<1>1. \A e \in S : /\ IsFiniteSet(before(e)) /\ Cardinality(before(e)) \in Nat
                   /\ Cardinality(before(e)) < n
  <2> TAKE e \in S
  <2>1. IsFiniteSet(S \ {e}) /\ Cardinality(S \ {e}) = n - 1
    BY FS_RemoveElement
  <2>2. before(e) \in SUBSET (S \ {e})
    OBVIOUS
  <2> HIDE DEF n, before
  <2>3. IsFiniteSet(before(e)) /\ Cardinality(before(e)) <= n - 1
    BY <2>1, <2>2, FS_Subset
  <2>4. Cardinality(before(e)) \in Nat
    BY <2>3, FS_CardinalityType
  <2> QED BY <1>0, <2>3, <2>4
<1>2. ASSUME NEW a \in S, NEW b \in S, <<a, b>> \in R PROVE place[a] < place[b]
  <2>1. before(a) \in SUBSET before(b) /\ a \in before(b) /\ a \notin before(a)
    BY <1>2
  <2>2. place[a] = Cardinality(before(a)) + 1 /\ place[b] = Cardinality(before(b)) + 1
    OBVIOUS
  <2>3. before(a) # before(b) /\ IsFiniteSet(before(b))
        /\ Cardinality(before(a)) \in Nat /\ Cardinality(before(b)) \in Nat
    BY <1>1, <2>1
  <2> HIDE DEF before, place
  <2>4. Cardinality(before(a)) <= Cardinality(before(b))
        /\ (Cardinality(before(b)) = Cardinality(before(a)) => before(b) = before(a))
    BY <2>1, <2>3, FS_Subset
  <2> QED BY <2>2, <2>3, <2>4
<1> HIDE DEF n
<1>3. place \in [S -> 1 .. n]
  <2> HIDE DEF before
  <2>1. \A e \in S : Cardinality(before(e)) + 1 \in 1 .. n
    BY <1>0, <1>1
  <2> QED BY <2>1
<1> HIDE DEF place, before
<1>4. place \in Injection(S, 1 .. n)
  <2>1. \A a, b \in S : place[a] = place[b] => a = b
    <3> SUFFICES ASSUME NEW a \in S, NEW b \in S, a # b PROVE place[a] # place[b]
        OBVIOUS
    <3>1. place[a] \in Int /\ place[b] \in Int
      BY <1>3
    <3>2. place[a] < place[b] \/ place[b] < place[a]
      BY <1>2
    <3> QED BY <3>1, <3>2
  <2> QED BY <1>3, <2>1 DEF Injection, IsInjective
<1>5. IsFiniteSet(1 .. n) /\ Cardinality(1 .. n) = n
  <2>1. IsFiniteSet(1 .. n) /\ Cardinality(1 .. n) = IF 1 > n THEN 0 ELSE n - 1 + 1
    BY <1>0, FS_Interval
  <2> QED BY <1>0, <2>1
<1>6. place \in Surjection(S, 1 .. n)
  BY <1>4, <1>5, FS_Injection DEF n
<1>7. \A i \in 1 .. n : \E e \in S : place[e] = i
  BY <1>6 DEF Surjection
<1> DEFINE s == [i \in 1 .. n |-> CHOOSE e \in S : place[e] = i]
<1>8. s \in [1 .. n -> S] /\ \A i \in 1 .. n : place[s[i]] = i
  BY <1>7
<1> HIDE DEF s
<1>9. ASSUME NEW i \in 1 .. n, NEW j \in 1 .. n, i < j PROVE <<s[i], s[j]>> \in R
  <2>1. s[i] \in S /\ s[j] \in S /\ place[s[i]] = i /\ place[s[j]] = j
    BY <1>8
  <2>2. s[i] # s[j] /\ ~(j < i)
    BY <1>9, <2>1
  <2>3. ~(<<s[j], s[i]>> \in R)
    BY <1>2, <2>1, <2>2
  <2> QED BY <2>1, <2>2, <2>3
<1>10. DOMAIN s = 1 .. n
  BY <1>8
<1> QED BY <1>8, <1>9, <1>10 DEF n

\* The members of a finite set by a strict order, each at one place.
LEMMA ListedFits ==
    ASSUME NEW S, IsFiniteSet(S), NEW R,
           \A a \in S : <<a, a>> \notin R,
           \A a, b \in S : a # b => <<a, b>> \in R \/ <<b, a>> \in R,
           \A a, b, c \in S : <<a, b>> \in R /\ <<b, c>> \in R => <<a, c>> \in R
    PROVE  /\ Cardinality(S) \in Nat
           /\ Listed(S, R) \in [1 .. Cardinality(S) -> S]
           /\ \A i, j \in 1 .. Cardinality(S) : i < j => <<Listed(S, R)[i], Listed(S, R)[j]>> \in R
           /\ S = {Listed(S, R)[i] : i \in 1 .. Cardinality(S)}
<1> DEFINE n == Cardinality(S)
           s == Listed(S, R)
<1>1. n \in Nat
  BY FS_CardinalityType
<1>2. s \in [1 .. n -> S] /\ \A i, j \in DOMAIN s : i < j => <<s[i], s[j]>> \in R
  <2>1. \E f \in [1 .. n -> S] : \A i, j \in DOMAIN f : i < j => <<f[i], f[j]>> \in R
    BY AnyOrderLists
  <2> QED BY <2>1 DEF Listed
<1>3. IsFiniteSet(1 .. n) /\ Cardinality(1 .. n) = n
  <2> HIDE DEF n
  <2>1. IsFiniteSet(1 .. n) /\ Cardinality(1 .. n) = IF 1 > n THEN 0 ELSE n - 1 + 1
    BY <1>1, FS_Interval
  <2> QED BY <1>1, <2>1
<1> HIDE DEF s
<1>4. \A i, j \in 1 .. n : s[i] = s[j] => i = j
  <2> SUFFICES ASSUME NEW i \in 1 .. n, NEW j \in 1 .. n, i # j PROVE s[i] # s[j]
      OBVIOUS
  <2>1. DOMAIN s = 1 .. n /\ s[i] \in S /\ s[j] \in S
    BY <1>2
  <2> HIDE DEF n
  <2>2. i < j \/ j < i
    BY <1>1
  <2> QED BY <1>2, <2>1, <2>2
<1>5. s \in Injection(1 .. n, S)
  BY <1>2, <1>4 DEF Injection, IsInjective
<1>6. s \in Surjection(1 .. n, S)
  BY <1>3, <1>5, FS_Injection
<1>7. DOMAIN s = 1 .. n
  BY <1>2
<1>8. S = {s[i] : i \in 1 .. n}
  BY <1>2, <1>6, <1>7 DEF Surjection
<1> QED BY <1>1, <1>2, <1>7, <1>8 DEF s

\* Some of the places of a sequence.
LEMMA PlacesFinite == ASSUME NEW n \in Nat, NEW P \in SUBSET (1 .. n) PROVE IsFiniteSet(P)
<1>1. IsFiniteSet(1 .. n)
  BY FS_Interval
<1> QED BY <1>1, FS_Subset

\* What is taken from a sequence has its order.
LEMMA EntriesFit ==
    ASSUME NEW S, NEW s \in Seq(S), NEW P \in SUBSET DOMAIN s
    PROVE  /\ EntriesAt(s, P) \in Seq(S)
           /\ \E f \in [1 .. Len(EntriesAt(s, P)) -> P] :
                 /\ \A i \in DOMAIN EntriesAt(s, P) : EntriesAt(s, P)[i] = s[f[i]]
                 /\ \A i, j \in DOMAIN EntriesAt(s, P) : i < j => f[i] < f[j]
<1> DEFINE R == {p \in P \X P : p[1] < p[2]}
           n == Cardinality(P)
           z == EntriesAt(s, P)
           f == Listed(P, R)
<1>1. DOMAIN s = 1 .. Len(s) /\ Len(s) \in Nat /\ \A i \in DOMAIN s : s[i] \in S
  OBVIOUS
<1>2. P \in SUBSET Nat /\ IsFiniteSet(P)
  <2>1. P \in SUBSET (1 .. Len(s))
    BY <1>1
  <2>2. IsFiniteSet(P)
    <3> HIDE DEF R, n, z, f
    <3> QED BY <1>1, <2>1, PlacesFinite
  <2> QED BY <1>1, <2>1, <2>2
<1>3. \A a, b \in P : <<a, b>> \in R <=> a < b
  OBVIOUS
<1> HIDE DEF R
<1>4. /\ \A a \in P : <<a, a>> \notin R
      /\ \A a, b \in P : a # b => <<a, b>> \in R \/ <<b, a>> \in R
      /\ \A a, b, c \in P : <<a, b>> \in R /\ <<b, c>> \in R => <<a, c>> \in R
  BY <1>2, <1>3
<1>5. /\ n \in Nat /\ f \in [1 .. n -> P]
      /\ \A i, j \in 1 .. n : i < j => <<f[i], f[j]>> \in R
  BY <1>2, <1>4, ListedFits
<1>6. z = [i \in 1 .. n |-> s[f[i]]]
  BY DEF EntriesAt, R
<1> HIDE DEF z, n, f
<1>7. \A i \in 1 .. n : s[f[i]] \in S /\ f[i] \in P
  BY <1>1, <1>5
<1>8. z \in Seq(S) /\ Len(z) = n /\ DOMAIN z = 1 .. n /\ \A i \in 1 .. n : z[i] = s[f[i]]
  BY <1>5, <1>6, <1>7
<1>9. \A i, j \in 1 .. n : i < j => f[i] < f[j]
  BY <1>3, <1>5
<1> QED BY <1>5, <1>8, <1>9 DEF z

Sources == {"relative", "absolute"}

Observations == [ws : Int, src : Sources, reset : Int, pct : Int, first : Int, last : Int, auth : BOOLEAN]

\* Sorted, it is a sequence of the same observations.
LEMMA ByTimeFits ==
    ASSUME NEW D \in SUBSET Int, IsFiniteSet(D), NEW s \in [D -> Observations]
    PROVE  /\ ByTime(s) \in Seq(Observations)
           /\ \A i \in DOMAIN ByTime(s) : \E d \in D : ByTime(s)[i] = s[d]
           /\ \A d \in D : \E i \in DOMAIN ByTime(s) : ByTime(s)[i] = s[d]
           /\ \E f \in [DOMAIN ByTime(s) -> D] :
                 /\ \A i \in DOMAIN ByTime(s) : ByTime(s)[i] = s[f[i]]
                 /\ \A d \in D : \E i \in DOMAIN ByTime(s) : f[i] = d
                 /\ \A i, j \in DOMAIN ByTime(s) : i < j =>
                       \/ s[f[i]].first < s[f[j]].first
                       \/ s[f[i]].first = s[f[j]].first /\ f[i] < f[j]
<1> DEFINE before(i, j) == s[i].first < s[j].first \/ (s[i].first = s[j].first /\ i < j)
           R == {p \in D \X D : before(p[1], p[2])}
           n == Cardinality(D)
           z == ByTime(s)
           f == Listed(D, R)
<1>1. \A i \in D : s[i] \in Observations /\ s[i].first \in Int /\ i \in Int
  BY DEF Observations
<1>3. \A a, b \in D : <<a, b>> \in R <=> before(a, b)
  OBVIOUS
<1> HIDE DEF R
<1>4. /\ \A a \in D : <<a, a>> \notin R
      /\ \A a, b \in D : a # b => <<a, b>> \in R \/ <<b, a>> \in R
      /\ \A a, b, c \in D : <<a, b>> \in R /\ <<b, c>> \in R => <<a, c>> \in R
  BY <1>1, <1>3
<1> HIDE DEF before
<1>5. /\ Cardinality(D) \in Nat /\ Listed(D, R) \in [1 .. Cardinality(D) -> D]
      /\ \A i, j \in 1 .. Cardinality(D) : i < j => <<Listed(D, R)[i], Listed(D, R)[j]>> \in R
      /\ \A a \in D : \E i \in 1 .. Cardinality(D) : Listed(D, R)[i] = a
  <2> HIDE DEF n, z, f
  <2>1. D = {Listed(D, R)[i] : i \in 1 .. Cardinality(D)}
    BY <1>4, ListedFits
  <2> QED BY <1>4, <2>1, ListedFits
<1>6. z = [i \in 1 .. n |-> s[f[i]]]
  BY DEF ByTime, R, before
<1> HIDE DEF z
<1>7. /\ n \in Nat /\ f \in [1 .. n -> D]
      /\ \A a \in D : \E i \in 1 .. n : f[i] = a
      /\ \A i, j \in 1 .. n : i < j => before(f[i], f[j])
  <2>1. \A i \in 1 .. n : f[i] \in D
    BY <1>5
  <2> QED BY <1>3, <1>5, <2>1
<1> HIDE DEF n, f
<1>8. \A i \in 1 .. n : s[f[i]] \in Observations /\ f[i] \in D
  BY <1>1, <1>7
<1>9. z \in Seq(Observations) /\ DOMAIN z = 1 .. n /\ \A i \in 1 .. n : z[i] = s[f[i]]
  BY <1>6, <1>7, <1>8
<1>10. \A d \in D : \E i \in DOMAIN z : z[i] = s[d]
  BY <1>7, <1>9
<1>11. \A i, j \in DOMAIN z : i < j =>
          s[f[i]].first < s[f[j]].first \/ (s[f[i]].first = s[f[j]].first /\ f[i] < f[j])
  BY <1>7, <1>9 DEF before
<1>12. f \in [DOMAIN z -> D] /\ \A d \in D : \E i \in DOMAIN z : f[i] = d
  BY <1>7, <1>9
<1> QED BY <1>8, <1>9, <1>10, <1>11, <1>12 DEF z

-----------------------------------------------------------------------------
(* Observations in the order of time: each ends before the next one begins.   *)

Chain(s) ==
    /\ s \in Seq(Observations)
    /\ \A i \in DOMAIN s : s[i].first <= s[i].last
    /\ \A i, j \in DOMAIN s : i < j => s[i].last <= s[j].first

\* What is in the order of time stays so when it is sorted
\* (sortCodexQuotaHistoryCandidates).
LEMMA ChainSorted ==
    ASSUME NEW s, Chain(s)
    PROVE  /\ Chain(ByTime(s))
           /\ \A i \in DOMAIN ByTime(s) : \E d \in DOMAIN s : ByTime(s)[i] = s[d]
           /\ \A d \in DOMAIN s : \E i \in DOMAIN ByTime(s) : ByTime(s)[i] = s[d]
<1> DEFINE z == ByTime(s)
           D == DOMAIN s
<1>1. D \in SUBSET Int /\ IsFiniteSet(D) /\ s \in [D -> Observations]
  <2>1. D = 1 .. Len(s) /\ Len(s) \in Nat /\ s \in [1 .. Len(s) -> Observations]
    BY DEF Chain
  <2> QED BY <2>1, PlacesFinite
<1>2. PICK f \in [DOMAIN z -> D] :
         /\ \A i \in DOMAIN z : z[i] = s[f[i]]
         /\ \A i, j \in DOMAIN z : i < j =>
               \/ s[f[i]].first < s[f[j]].first
               \/ s[f[i]].first = s[f[j]].first /\ f[i] < f[j]
  <2> HIDE DEF D
  <2> QED BY <1>1, ByTimeFits
<1>3. /\ z \in Seq(Observations)
      /\ \A i \in DOMAIN z : \E d \in D : z[i] = s[d]
      /\ \A d \in D : \E i \in DOMAIN z : z[i] = s[d]
  <2> HIDE DEF D
  <2> QED BY <1>1, ByTimeFits
<1> HIDE DEF z
<1>4. \A i \in DOMAIN z : z[i].first <= z[i].last
  BY <1>3 DEF Chain
<1>5. ASSUME NEW i \in DOMAIN z, NEW j \in DOMAIN z, i < j PROVE z[i].last <= z[j].first
  <2> DEFINE a == f[i]
             b == f[j]
  <2>1. a \in D /\ b \in D /\ z[i] = s[a] /\ z[j] = s[b]
    BY <1>2
  <2>2. s[a] \in Observations /\ s[b] \in Observations /\ a \in Int /\ b \in Int
    BY <1>1, <2>1
  <2>3. s[a].first < s[b].first \/ (s[a].first = s[b].first /\ a < b)
    BY <1>2, <1>5
  <2> HIDE DEF a, b
  <2>4. s[a].first \in Int /\ s[a].last \in Int /\ s[b].first \in Int /\ s[b].last \in Int
    BY <2>2 DEF Observations
  <2>5. CASE a < b
    BY <2>1, <2>5 DEF Chain
  <2>6. CASE b < a
    <3>1. s[b].last <= s[a].first /\ s[b].first <= s[b].last
      BY <2>1, <2>6 DEF Chain
    <3> QED BY <2>3, <2>4, <2>6, <2>2, <3>1
  <2>7. CASE a = b
    BY <2>2, <2>3, <2>4, <2>7
  <2> QED BY <2>2, <2>5, <2>6, <2>7
<1> QED BY <1>3, <1>4, <1>5 DEF Chain, z

\* A finite set has a greatest member.
LEMMA LastIsThere ==
    ASSUME NEW S, IsFiniteSet(S), S # {}, NEW R,
           \A a \in S : <<a, a>> \notin R,
           \A a, b \in S : a # b => <<a, b>> \in R \/ <<b, a>> \in R,
           \A a, b, c \in S : <<a, b>> \in R /\ <<b, c>> \in R => <<a, c>> \in R
    PROVE  \E m \in S : \A a \in S : a = m \/ <<a, m>> \in R
<1> DEFINE n == Cardinality(S)
           f == Listed(S, R)
<1>1. /\ n \in Nat /\ f \in [1 .. n -> S] /\ S = {f[i] : i \in 1 .. n}
      /\ \A i, j \in 1 .. n : i < j => <<f[i], f[j]>> \in R
  BY ListedFits
<1> HIDE DEF n, f
<1>2. n \in 1 .. n
  BY <1>1
<1>3. \A i \in 1 .. n : i = n \/ i < n
  BY <1>1
<1>4. f[n] \in S
  BY <1>1, <1>2
<1>5. \A a \in S : a = f[n] \/ <<a, f[n]>> \in R
  BY <1>1, <1>2, <1>3
<1> QED BY <1>4, <1>5

Numbers(S, key) == \A i \in S : i \in Int /\ key[i] \in Int

\* Some number has the largest value, and is the largest of those that have it.
LEMMA GreatestIsThere ==
    ASSUME NEW S, IsFiniteSet(S), S # {}, NEW key, Numbers(S, key)
    PROVE  \E m \in S : \A j \in S : key[j] < key[m] \/ (key[j] = key[m] /\ j <= m)
<1> DEFINE R == {p \in S \X S : key[p[1]] < key[p[2]] \/ (key[p[1]] = key[p[2]] /\ p[1] < p[2])}
<1>1. \A i \in S : i \in Int /\ key[i] \in Int
  BY DEF Numbers
<1>2. \A a, b \in S : <<a, b>> \in R <=> key[a] < key[b] \/ (key[a] = key[b] /\ a < b)
  OBVIOUS
<1> HIDE DEF R
<1>3. /\ \A a \in S : <<a, a>> \notin R
      /\ \A a, b \in S : a # b => <<a, b>> \in R \/ <<b, a>> \in R
      /\ \A a, b, c \in S : <<a, b>> \in R /\ <<b, c>> \in R => <<a, c>> \in R
  <2>1. \A a \in S : <<a, a>> \notin R
    BY <1>1, <1>2
  <2>2. \A a, b \in S : a # b => <<a, b>> \in R \/ <<b, a>> \in R
    BY <1>1, <1>2
  <2>3. ASSUME NEW a \in S, NEW b \in S, NEW c \in S, <<a, b>> \in R, <<b, c>> \in R PROVE <<a, c>> \in R
    <3>1. key[a] \in Int /\ key[b] \in Int /\ key[c] \in Int /\ a \in Int /\ b \in Int /\ c \in Int
      BY <1>1
    <3>2. /\ key[a] < key[b] \/ (key[a] = key[b] /\ a < b)
          /\ key[b] < key[c] \/ (key[b] = key[c] /\ b < c)
      BY <1>2, <2>3
    <3>3. key[a] < key[c] \/ (key[a] = key[c] /\ a < c)
      BY <3>1, <3>2
    <3> QED BY <1>2, <3>3
  <2> QED BY <2>1, <2>2, <2>3
<1>9. PICK m \in S : \A a \in S : a = m \/ <<a, m>> \in R
  BY <1>3, LastIsThere
<1>10. ASSUME NEW j \in S PROVE key[j] < key[m] \/ (key[j] = key[m] /\ j <= m)
  <2>1. j \in Int /\ m \in Int /\ key[j] \in Int
    BY <1>1, <1>9
  <2>2. CASE j = m
    BY <2>1, <2>2
  <2>3. CASE <<j, m>> \in R
    BY <1>2, <1>9, <2>1, <2>3
  <2> QED BY <1>9, <2>2, <2>3
<1> QED BY <1>9, <1>10

-----------------------------------------------------------------------------
(* The cycles that are stored.                                                *)

SegmentRows == [pct : Int, first : Int, last : Int]

\* The percentage falls, and the next segment begins when the one before is over.
Falling(segs) ==
    /\ segs \in Seq(SegmentRows) /\ Len(segs) > 0
    /\ \A i \in 1 .. Len(segs) : segs[i].first <= segs[i].last
    /\ \A i, j \in 1 .. Len(segs) : i < j => segs[j].pct < segs[i].pct /\ segs[i].last < segs[j].first

CycleRows == [ws : Int, src : Sources, reset : Int, first : Int, last : Int, segs : Seq(SegmentRows)]

CycleRight(c) == c \in CycleRows /\ Falling(c.segs) /\ c.last = c.segs[Len(c.segs)].last

\* What is stored until some time.
Stored(cs, t) ==
    /\ cs \in Seq(CycleRows)
    /\ \A i \in 1 .. Len(cs) : CycleRight(cs[i]) /\ cs[i].last <= t

\* Some cycle was observed last (loadCurrentQuotaCycle).
LEMMA LatestIsThere ==
    ASSUME NEW cs \in Seq(CycleRows), cs # <<>>
    PROVE  /\ LatestOf(cs) \in DOMAIN cs
           /\ \A j \in DOMAIN cs : \/ cs[j].last < cs[LatestOf(cs)].last
                                   \/ cs[j].last = cs[LatestOf(cs)].last /\ j <= LatestOf(cs)
<1> DEFINE S == DOMAIN cs
           key == [i \in S |-> cs[i].last]
<1>1. S = 1 .. Len(cs) /\ Len(cs) \in Nat /\ S # {} /\ \A i \in S : cs[i] \in CycleRows
  OBVIOUS
<1>2. key \in [S -> Int] /\ \A i \in S : key[i] = cs[i].last
  BY <1>1 DEF CycleRows
<1> HIDE DEF key, S
<1>3. PICK m \in S : \A j \in S : key[j] < key[m] \/ (key[j] = key[m] /\ j <= m)
  <2>1. IsFiniteSet(S)
    BY <1>1, PlacesFinite
  <2>2. Numbers(S, key)
    BY <1>1, <1>2 DEF Numbers
  <2> QED BY <1>1, <2>1, <2>2, GreatestIsThere
<1>4. \A j \in S : cs[j].last < cs[m].last \/ (cs[j].last = cs[m].last /\ j <= m)
  BY <1>2, <1>3
<1> QED BY <1>3, <1>4 DEF LatestOf, S

\* Some matching cycle is the nearest (loadMatchingQuotaCycle).
LEMMA NearestIsThere ==
    ASSUME NEW cs \in Seq(CycleRows), NEW o \in Observations, \E i \in DOMAIN cs : SameCycle(cs[i], o)
    PROVE  Nearest(cs, o) \in DOMAIN cs /\ SameCycle(cs[Nearest(cs, o)], o)
<1> DEFINE found == {i \in DOMAIN cs : SameCycle(cs[i], o)}
           far(i) == Distance(cs[i].reset, o.reset)
           closest == {i \in found : \A j \in found : far(i) <= far(j)}
           nearness == [i \in found |-> 0 - far(i)]
           seen == [i \in closest |-> cs[i].last]
<1>1. /\ DOMAIN cs = 1 .. Len(cs) /\ Len(cs) \in Nat
      /\ \A i \in DOMAIN cs : cs[i] \in CycleRows /\ i \in Int
  OBVIOUS
<1>2. \A i \in DOMAIN cs : cs[i].last \in Int /\ cs[i].reset \in Int /\ o.reset \in Int
  BY <1>1 DEF CycleRows, Observations
<1>3. \A i \in DOMAIN cs : far(i) \in Int
  BY <1>2 DEF Distance
<1>4. found \subseteq DOMAIN cs /\ closest \subseteq found /\ found # {}
  OBVIOUS
<1>5. \A i \in found : (\A j \in found : far(i) <= far(j)) => i \in closest
  OBVIOUS
<1>6. Nearest(cs, o) = CHOOSE i \in closest : \A j \in closest :
                          cs[j].last < cs[i].last \/ (cs[j].last = cs[i].last /\ j <= i)
  BY DEF Nearest
<1>7. \A i \in closest : SameCycle(cs[i], o)
  OBVIOUS
<1> HIDE DEF found, closest, far
<1>8. nearness \in [found -> Int] /\ seen \in [closest -> Int]
  BY <1>2, <1>3, <1>4
<1>9. /\ \A i \in found : nearness[i] = 0 - far(i)
      /\ \A i \in closest : seen[i] = cs[i].last
  OBVIOUS
<1> HIDE DEF nearness, seen
<1>10. PICK i \in found : \A j \in found : nearness[j] < nearness[i] \/ (nearness[j] = nearness[i] /\ j <= i)
  <2>1. IsFiniteSet(found)
    BY <1>1, <1>4, PlacesFinite
  <2>2. Numbers(found, nearness)
    BY <1>1, <1>4, <1>8 DEF Numbers
  <2> QED BY <1>4, <2>1, <2>2, GreatestIsThere
<1>11. \A j \in found : far(i) <= far(j)
  <2> SUFFICES ASSUME NEW j \in found PROVE far(i) <= far(j)
      OBVIOUS
  <2>1. far(i) \in Int /\ far(j) \in Int /\ nearness[i] = 0 - far(i) /\ nearness[j] = 0 - far(j)
    BY <1>3, <1>4, <1>9
  <2> QED BY <1>10, <2>1
<1>12. closest # {} /\ closest \subseteq DOMAIN cs
  BY <1>4, <1>5, <1>11
<1>13. PICK m \in closest : \A j \in closest : seen[j] < seen[m] \/ (seen[j] = seen[m] /\ j <= m)
  <2>1. IsFiniteSet(closest)
    BY <1>1, <1>12, PlacesFinite
  <2>2. Numbers(closest, seen)
    BY <1>1, <1>8, <1>12 DEF Numbers
  <2> QED BY <1>12, <2>1, <2>2, GreatestIsThere
<1>14. \A j \in closest : cs[j].last < cs[m].last \/ (cs[j].last = cs[m].last /\ j <= m)
  BY <1>9, <1>13
<1>15. Nearest(cs, o) \in closest
  BY <1>6, <1>13, <1>14
<1> QED BY <1>7, <1>12, <1>15

\* The cycle an observation belongs to is there and has its window length.
LEMMA CycleOfFits ==
    ASSUME NEW cs \in Seq(CycleRows), NEW o \in Observations
    PROVE  /\ CycleOf(cs, o) \in DOMAIN cs \cup {0}
           /\ CycleOf(cs, o) # 0 => SameCycle(cs[CycleOf(cs, o)], o)
           /\ CycleOf(cs, o) = 0 => \A i \in DOMAIN cs : ~SameCycle(cs[i], o)
<1>0. 0 \notin DOMAIN cs
  OBVIOUS
<1>1. CASE cs # <<>> /\ SameCycle(cs[LatestOf(cs)], o)
  BY <1>0, <1>1, LatestIsThere DEF CycleOf
<1>2. CASE ~(cs # <<>> /\ SameCycle(cs[LatestOf(cs)], o)) /\ \E i \in DOMAIN cs : SameCycle(cs[i], o)
  BY <1>0, <1>2, NearestIsThere DEF CycleOf
<1>3. CASE ~(cs # <<>> /\ SameCycle(cs[LatestOf(cs)], o)) /\ ~\E i \in DOMAIN cs : SameCycle(cs[i], o)
  BY <1>3 DEF CycleOf
<1> QED BY <1>1, <1>2, <1>3

\* A row that is created for an observation (newQuotaPercentSegment).
LEMMA NewSegmentRow == ASSUME NEW o \in Observations
      PROVE  /\ NewSegment(o) \in SegmentRows
             /\ NewSegment(o).pct = o.pct /\ NewSegment(o).first = o.first /\ NewSegment(o).last = o.last
BY DEF NewSegment, SegmentRows, Observations

\* What the rows of a cycle hold.
LEMMA RowTypes == ASSUME NEW segs \in Seq(SegmentRows)
      PROVE  /\ Len(segs) \in Nat
             /\ \A i \in 1 .. Len(segs) : /\ segs[i] \in SegmentRows /\ segs[i].pct \in Int
                                          /\ segs[i].first \in Int /\ segs[i].last \in Int
<1>1. \A i \in 1 .. Len(segs) : segs[i] \in SegmentRows
  OBVIOUS
<1> QED BY <1>1 DEF SegmentRows

\* What an observation holds.
LEMMA ObservationTypes == ASSUME NEW o \in Observations
      PROVE  /\ o.ws \in Int /\ o.src \in Sources /\ o.reset \in Int /\ o.pct \in Int
             /\ o.first \in Int /\ o.last \in Int /\ o.auth \in BOOLEAN
BY DEF Observations

\* The last segment goes on.
Extended(segs, t) == [segs EXCEPT ![Len(segs)].last = t]

\* A last segment that goes on leaves the order as it is.
LEMMA Prolonged ==
    ASSUME NEW segs, Falling(segs), NEW t \in Int, segs[Len(segs)].last <= t,
           NEW z, z = Extended(segs, t)
    PROVE  Falling(z) /\ Len(z) = Len(segs) /\ z[Len(z)].last = t /\ z[Len(z)].pct = segs[Len(segs)].pct
<1> DEFINE n == Len(segs)
<1>1. segs \in Seq(SegmentRows) /\ n \in Nat /\ n > 0 /\ n \in 1 .. n
  BY DEF Falling
<1>2. \A i \in 1 .. n : /\ segs[i] \in SegmentRows /\ segs[i].pct \in Int
                        /\ segs[i].first \in Int /\ segs[i].last \in Int
  BY <1>1, RowTypes
<1>3. z \in Seq(SegmentRows) /\ Len(z) = n
  BY <1>1, <1>2 DEF SegmentRows, Extended
<1>4. \A i \in 1 .. n : /\ z[i].pct = segs[i].pct /\ z[i].first = segs[i].first
                        /\ z[i].last = IF i = n THEN t ELSE segs[i].last
  BY <1>1, <1>2 DEF SegmentRows, Extended
<1>5. \A i, j \in 1 .. n : i < j => i # n
  BY <1>1
<1> HIDE DEF n
<1>6. \A i \in 1 .. n : segs[i].first <= segs[i].last
  BY DEF Falling, n
<1>7. \A i, j \in 1 .. n : i < j => segs[j].pct < segs[i].pct /\ segs[i].last < segs[j].first
  BY DEF Falling, n
<1>8. segs[n].last <= t
  BY DEF n
<1>9. \A i \in 1 .. n : z[i].first <= z[i].last
  <2> SUFFICES ASSUME NEW i \in 1 .. n PROVE z[i].first <= z[i].last
      OBVIOUS
  <2>1. CASE i = n
    BY <1>1, <1>2, <1>4, <1>6, <1>8, <2>1
  <2>2. CASE i # n
    BY <1>4, <1>6, <2>2
  <2> QED BY <2>1, <2>2
<1>10. \A i, j \in 1 .. n : i < j => z[j].pct < z[i].pct /\ z[i].last < z[j].first
  BY <1>4, <1>5, <1>7
<1> QED BY <1>1, <1>3, <1>4, <1>9, <1>10 DEF Falling, n

\* Another segment after these.
LEMMA Lengthened ==
    ASSUME NEW segs \in Seq(SegmentRows), NEW e \in SegmentRows, e.first <= e.last,
           \A i \in 1 .. Len(segs) : segs[i].first <= segs[i].last,
           \A i, j \in 1 .. Len(segs) : i < j => segs[j].pct < segs[i].pct /\ segs[i].last < segs[j].first,
           \A i \in 1 .. Len(segs) : e.pct < segs[i].pct /\ segs[i].last < e.first,
           NEW z, z = Append(segs, e)
    PROVE  Falling(z) /\ z[Len(z)] = e
<1> DEFINE n == Len(segs)
<1>1. /\ z \in Seq(SegmentRows) /\ Len(z) = n + 1 /\ n \in Nat
      /\ \A i \in 1 .. n : z[i] = segs[i]
      /\ z[n + 1] = e
  OBVIOUS
<1>2. \A i \in 1 .. n + 1 : i \in 1 .. n \/ i = n + 1
  BY <1>1
<1>3. \A i, j \in 1 .. n + 1 : i < j => i \in 1 .. n
  BY <1>1
<1>0. \A i \in 1 .. n : segs[i].first <= segs[i].last /\ e.pct < segs[i].pct /\ segs[i].last < e.first
  OBVIOUS
<1>00. \A i, j \in 1 .. n : i < j => segs[j].pct < segs[i].pct /\ segs[i].last < segs[j].first
  OBVIOUS
<1> HIDE DEF n
<1>4. \A i \in 1 .. n + 1 : z[i].first <= z[i].last
  BY <1>0, <1>1, <1>2
<1>5. ASSUME NEW i \in 1 .. n + 1, NEW j \in 1 .. n + 1, i < j
      PROVE  z[j].pct < z[i].pct /\ z[i].last < z[j].first
  <2>1. CASE j = n + 1
    BY <1>0, <1>1, <1>3, <1>5, <2>1
  <2>2. CASE j \in 1 .. n
    BY <1>00, <1>1, <1>3, <1>5, <2>2
  <2> QED BY <1>2, <2>1, <2>2
<1> QED BY <1>1, <1>4, <1>5 DEF Falling, n

\* A trusted higher percentage takes the place of the lower ones.
LEMMA CorrectedFalls ==
    ASSUME NEW segs, Falling(segs), NEW o \in Observations, o.first <= o.last,
           segs[Len(segs)].last <= o.first, o.pct > segs[Len(segs)].pct,
           NEW z, z = Corrected(segs, o)
    PROVE  Falling(z) /\ z[Len(z)].last = o.last /\ z[Len(z)].pct = o.pct
<1> DEFINE n == Len(segs)
           P == {i \in DOMAIN segs : segs[i].pct >= o.pct}
           kept == EntriesAt(segs, P)
<1>1. segs \in Seq(SegmentRows) /\ n \in Nat /\ n > 0 /\ n \in 1 .. n /\ DOMAIN segs = 1 .. n
  BY DEF Falling
<1>2. \A i \in 1 .. n : /\ segs[i] \in SegmentRows /\ segs[i].pct \in Int
                        /\ segs[i].first \in Int /\ segs[i].last \in Int
  BY <1>1, RowTypes
<1>3. o.pct \in Int /\ o.first \in Int /\ o.last \in Int
  BY ObservationTypes
<1>4. P \in SUBSET DOMAIN segs /\ \A i \in P : i \in 1 .. n /\ segs[i].pct >= o.pct
  BY <1>1
<1>5. \A i \in 1 .. n : segs[i].first <= segs[i].last
  BY DEF Falling
<1>6. \A i, j \in 1 .. n : i < j => segs[j].pct < segs[i].pct /\ segs[i].last < segs[j].first
  BY DEF Falling
<1>7. segs[n].last <= o.first /\ o.pct > segs[n].pct
  OBVIOUS
<1>8. z = IF kept # <<>> /\ Last(kept).pct = o.pct
          THEN [kept EXCEPT ![Len(kept)].last = o.last]
          ELSE Append(kept, NewSegment(o))
  BY DEF Corrected
<1> HIDE DEF P, n
<1>9. kept \in Seq(SegmentRows)
  BY <1>1, <1>4, EntriesFit
<1>10. PICK f \in [1 .. Len(kept) -> P] :
          /\ \A i \in DOMAIN kept : kept[i] = segs[f[i]]
          /\ \A i, j \in DOMAIN kept : i < j => f[i] < f[j]
  BY <1>1, <1>4, EntriesFit
<1> HIDE DEF kept
<1>11. DOMAIN kept = 1 .. Len(kept) /\ Len(kept) \in Nat
  BY <1>9
<1>12. \A i \in 1 .. Len(kept) : /\ f[i] \in 1 .. n /\ kept[i] = segs[f[i]] /\ kept[i].pct >= o.pct
                                 /\ f[i] # n /\ f[i] < n
  <2> SUFFICES ASSUME NEW i \in 1 .. Len(kept)
               PROVE  /\ f[i] \in 1 .. n /\ kept[i] = segs[f[i]] /\ kept[i].pct >= o.pct
                      /\ f[i] # n /\ f[i] < n
      OBVIOUS
  <2> DEFINE k == f[i]
  <2>1. k \in P /\ kept[i] = segs[k]
    BY <1>10, <1>11
  <2> HIDE DEF k
  <2>2. k \in 1 .. n /\ segs[k].pct >= o.pct
    BY <1>4, <2>1
  <2>3. k # n
    BY <1>1, <1>2, <1>3, <1>7, <2>2
  <2>4. k < n
    BY <1>1, <2>2, <2>3
  <2> QED BY <2>1, <2>2, <2>3, <2>4 DEF k
<1>13. \A i \in 1 .. Len(kept) : kept[i].last < o.first /\ kept[i].first <= kept[i].last
  <2> SUFFICES ASSUME NEW i \in 1 .. Len(kept)
               PROVE  kept[i].last < o.first /\ kept[i].first <= kept[i].last
      OBVIOUS
  <2>1. /\ f[i] \in 1 .. n /\ n \in 1 .. n /\ kept[i] = segs[f[i]] /\ f[i] < n
        /\ segs[f[i]].last < segs[n].first
    BY <1>1, <1>6, <1>12
  <2>2. segs[n].first <= segs[n].last /\ segs[f[i]].first <= segs[f[i]].last
    BY <1>1, <1>5, <2>1
  <2>3. /\ segs[f[i]].last \in Int /\ segs[n].first \in Int /\ segs[n].last \in Int /\ o.first \in Int
        /\ segs[n].last <= o.first
    BY <1>1, <1>2, <1>3, <1>7, <2>1
  <2> QED BY <2>1, <2>2, <2>3
<1>14. \A i, j \in 1 .. Len(kept) : i < j => kept[j].pct < kept[i].pct /\ kept[i].last < kept[j].first
  <2> SUFFICES ASSUME NEW i \in 1 .. Len(kept), NEW j \in 1 .. Len(kept), i < j
               PROVE  kept[j].pct < kept[i].pct /\ kept[i].last < kept[j].first
      OBVIOUS
  <2>1. f[i] < f[j]
    BY <1>10, <1>11
  <2> QED BY <1>6, <1>12, <2>1
<1>15. \A i \in 1 .. Len(kept) : kept[i].pct \in Int /\ kept[i].last \in Int /\ kept[i].first \in Int
  BY <1>9, RowTypes
<1>16. CASE kept # <<>> /\ Last(kept).pct = o.pct
  <2>1. Len(kept) > 0 /\ Len(kept) \in 1 .. Len(kept)
    BY <1>9, <1>16
  <2>2. Falling(kept)
    BY <1>9, <1>13, <1>14, <2>1 DEF Falling
  <2>3. kept[Len(kept)].last <= o.last
    BY <1>3, <1>13, <1>15, <2>1
  <2> DEFINE t == o.last
  <2>4. z = Extended(kept, t) /\ t \in Int /\ kept[Len(kept)].last <= t
    BY <1>3, <1>8, <1>16, <2>3 DEF Extended
  <2> HIDE DEF t
  <2>5. Falling(z) /\ z[Len(z)].last = t /\ z[Len(z)].pct = kept[Len(kept)].pct
    BY <2>2, <2>4, Prolonged
  <2>6. kept[Len(kept)].pct = o.pct
    BY <1>16 DEF Last
  <2> QED BY <2>5, <2>6 DEF t
<1>17. CASE ~(kept # <<>> /\ Last(kept).pct = o.pct)
  <2>1. ASSUME NEW i \in 1 .. Len(kept) PROVE o.pct < kept[i].pct
    <3> DEFINE k == Len(kept)
    <3>1. kept # <<>> /\ Last(kept) = kept[k] /\ k \in 1 .. k /\ i \in 1 .. k
      BY <1>9, <2>1 DEF Last
    <3>2. kept[k].pct # o.pct /\ kept[k].pct >= o.pct /\ kept[i].pct >= o.pct
      BY <1>12, <1>17, <3>1
    <3>0. k \in Nat
      BY <1>11
    <3>4. kept[k].pct \in Int /\ kept[i].pct \in Int /\ (i < k => kept[k].pct < kept[i].pct)
      BY <1>14, <1>15, <3>1
    <3> HIDE DEF k
    <3>3. i = k \/ i < k
      BY <3>0, <3>1
    <3>5. CASE i = k
      BY <1>3, <3>2, <3>4, <3>5
    <3>6. CASE i < k
      BY <1>3, <3>2, <3>4, <3>6
    <3> QED BY <3>3, <3>5, <3>6
  <2> DEFINE e == NewSegment(o)
  <2>2. z = Append(kept, e)
    BY <1>8, <1>17
  <2>3. e \in SegmentRows /\ e.first <= e.last /\ e.pct = o.pct /\ e.last = o.last /\ e.first = o.first
    BY NewSegmentRow
  <2> HIDE DEF e
  <2>4. \A i \in 1 .. Len(kept) : e.pct < kept[i].pct /\ kept[i].last < e.first
    BY <1>13, <2>1, <2>3
  <2>5. \A i \in 1 .. Len(kept) : kept[i].first <= kept[i].last
    BY <1>13
  <2>6. Falling(z) /\ z[Len(z)] = e
    BY <1>9, <1>14, <2>2, <2>3, <2>4, <2>5, Lengthened
  <2> QED BY <2>3, <2>6
<1> QED BY <1>16, <1>17

\* No segment of these ends after t.
\* What the last segment does not say yet.
Told(tail, o) == \/ o.auth /\ o.pct > tail.pct
                 \/ o.pct <= tail.pct /\ tail.last < o.first

SegmentsKept(segs, z, o) ==
    /\ Falling(z)
    /\ z # segs => z[Len(z)].last = o.last
    /\ ~o.auth => z[Len(z)].pct <= segs[Len(segs)].pct
    /\ Told(segs[Len(segs)], o) => z[Len(z)].pct = o.pct /\ z[Len(z)].last = o.last
    /\ o.pct = segs[Len(segs)].pct /\ segs[Len(segs)].last = o.first => z = segs

\* One observation and the segments of its cycle (applyCodexMainQuotaObservation):
\* they still fall, and rise only for a trusted one.
LEMMA SegmentsKeep ==
    ASSUME NEW segs, Falling(segs), NEW o \in Observations, o.first <= o.last,
           segs[Len(segs)].last <= o.first
    PROVE  SegmentsKept(segs, Segments(segs, o), o)
<1> DEFINE n == Len(segs)
           z == Segments(segs, o)
<1>1. segs \in Seq(SegmentRows) /\ n \in Nat /\ n > 0 /\ n \in 1 .. n /\ Last(segs) = segs[n]
  BY DEF Falling, Last
<1>2. \A i \in 1 .. n : /\ segs[i] \in SegmentRows /\ segs[i].pct \in Int
                        /\ segs[i].first \in Int /\ segs[i].last \in Int
  BY <1>1, RowTypes
<1>3. o.pct \in Int /\ o.first \in Int /\ o.last \in Int /\ o.auth \in BOOLEAN
  BY ObservationTypes
<1>4. z = IF o.last < segs[n].last THEN segs
          ELSE IF o.auth /\ o.pct > segs[n].pct THEN Corrected(segs, o)
          ELSE IF o.first <= segs[n].last \/ o.pct > segs[n].pct THEN segs
          ELSE IF o.pct = segs[n].pct THEN Extended(segs, o.last)
          ELSE Append(segs, NewSegment(o))
  BY <1>1 DEF Segments, Extended
<1> HIDE DEF z
<1>5. CASE z = segs /\ ~Told(segs[n], o)
  <2>1. Falling(z) /\ z[Len(z)].pct <= segs[Len(segs)].pct
    BY <1>1, <1>2, <1>5
  <2> QED BY <1>5, <2>1 DEF SegmentsKept, z
<1>6. CASE z = Corrected(segs, o) /\ o.auth /\ o.pct > segs[n].pct
  <2>1. Falling(z) /\ z[Len(z)].last = o.last /\ z[Len(z)].pct = o.pct
    BY <1>6, CorrectedFalls
  <2>2. o.pct # segs[n].pct
    BY <1>1, <1>2, <1>3, <1>6
  <2> QED BY <1>6, <2>1, <2>2 DEF SegmentsKept, z
<1>7. CASE z = Extended(segs, o.last) /\ o.pct = segs[n].pct /\ segs[n].last < o.first
  <2> DEFINE t == o.last
  <2>1. t \in Int /\ segs[Len(segs)].last <= t /\ z = Extended(segs, t)
    BY <1>1, <1>2, <1>3, <1>7
  <2> HIDE DEF t
  <2>2. Falling(z) /\ Len(z) = Len(segs) /\ z[Len(z)].last = t /\ z[Len(z)].pct = segs[Len(segs)].pct
    BY <2>1, Prolonged
  <2>3. z[Len(z)].pct <= segs[Len(segs)].pct
    BY <1>1, <1>2, <2>2
  <2>4. segs[n].last # o.first /\ z[Len(z)].pct = o.pct
    BY <1>1, <1>2, <1>3, <1>7, <2>2
  <2> QED BY <2>2, <2>3, <2>4 DEF SegmentsKept, t, z
<1>8. CASE /\ z = Append(segs, NewSegment(o))
           /\ segs[n].last < o.first /\ o.pct < segs[n].pct
  <2> DEFINE e == NewSegment(o)
  <2>1. e \in SegmentRows /\ e.first <= e.last /\ e.pct = o.pct /\ e.last = o.last /\ e.first = o.first
    BY NewSegmentRow
  <2>2. z = Append(segs, e)
    BY <1>8
  <2> HIDE DEF e
  <2>3. \A i \in 1 .. n : segs[i].first <= segs[i].last
    BY DEF Falling
  <2>4. \A i, j \in 1 .. n : i < j => segs[j].pct < segs[i].pct /\ segs[i].last < segs[j].first
    BY DEF Falling
  <2>5. ASSUME NEW i \in 1 .. n PROVE e.pct < segs[i].pct /\ segs[i].last < e.first
    <3>1. i = n \/ i < n
      BY <1>1
    <3>2. CASE i = n
      BY <1>8, <2>1, <3>2
    <3>3. CASE i < n
      <4>1. segs[n].pct < segs[i].pct /\ segs[i].last < segs[n].first /\ segs[n].first <= segs[n].last
        BY <1>1, <2>3, <2>4, <3>3
      <4>2. /\ segs[n].pct \in Int /\ segs[i].pct \in Int /\ segs[n].first \in Int
            /\ segs[n].last \in Int /\ segs[i].last \in Int
        BY <1>1, <1>2
      <4> QED BY <1>3, <1>8, <2>1, <4>1, <4>2
    <3> QED BY <3>1, <3>2, <3>3
  <2>6. Falling(z) /\ z[Len(z)] = e
    BY <1>1, <2>1, <2>2, <2>3, <2>4, <2>5, Lengthened
  <2>7. e.pct <= segs[n].pct /\ o.pct # segs[n].pct
    BY <1>1, <1>2, <1>3, <1>8, <2>1
  <2> QED BY <2>1, <2>6, <2>7 DEF SegmentsKept, z
<1>9. segs[n].pct \in Int /\ segs[n].last \in Int /\ ~(o.last < segs[n].last)
  BY <1>1, <1>2, <1>3
<1>11. CASE o.auth /\ o.pct > segs[n].pct
  BY <1>4, <1>6, <1>9, <1>11
<1>12. CASE ~(o.auth /\ o.pct > segs[n].pct) /\ (o.first <= segs[n].last \/ o.pct > segs[n].pct)
  <2>1. ~Told(segs[n], o)
    BY <1>3, <1>9, <1>12 DEF Told
  <2> QED BY <1>4, <1>5, <1>9, <1>12, <2>1
<1>13. CASE ~(o.first <= segs[n].last \/ o.pct > segs[n].pct)
  <2>1. segs[n].last < o.first /\ (o.pct = segs[n].pct \/ o.pct < segs[n].pct) /\ ~(o.pct > segs[n].pct)
    BY <1>3, <1>9, <1>13
  <2> QED BY <1>3, <1>4, <1>7, <1>8, <1>9, <1>13, <2>1
<1> QED BY <1>11, <1>12, <1>13

-----------------------------------------------------------------------------
(* What the transaction makes of an observation that is later than all that   *)
(* is stored.                                                                  *)

TailPct(c) == c.segs[Len(c.segs)].pct

\* No cycle is gone, and none has a higher percentage than before.
NotRaised(cs, z) ==
    /\ Len(cs) <= Len(z)
    /\ \A i \in 1 .. Len(cs) : TailPct(z[i]) <= TailPct(cs[i])

\* What a cycle holds.
LEMMA CycleTypes == ASSUME NEW c \in CycleRows
      PROVE /\ c.ws \in Int /\ c.src \in Sources /\ c.reset \in Int /\ c.first \in Int /\ c.last \in Int
            /\ c.segs \in Seq(SegmentRows)
BY DEF CycleRows

\* A cycle that is created for an observation (newQuotaCycle).
LEMMA NewCycleFits ==
    ASSUME NEW o \in Observations, o.first <= o.last
    PROVE  CycleRight(NewCycle(o)) /\ NewCycle(o).last = o.last
<1> DEFINE c == NewCycle(o)
           e == NewSegment(o)
<1>1. /\ c.ws = o.ws /\ c.src = o.src /\ c.reset = o.reset /\ c.first = o.first /\ c.last = o.last
      /\ c.segs = <<e>>
  BY DEF NewCycle
<1>2. e \in SegmentRows /\ e.first <= e.last /\ e.last = o.last
  BY NewSegmentRow
<1>3. c \in CycleRows
  <2> HIDE DEF e
  <2>1. <<e>> \in Seq(SegmentRows)
    BY <1>2
  <2> QED BY <2>1, ObservationTypes DEF NewCycle, CycleRows, e
<1> HIDE DEF c, e
<1>4. Falling(<<e>>)
  BY <1>2 DEF Falling
<1>5. c.segs[Len(c.segs)] = e
  BY <1>1
<1> QED BY <1>1, <1>2, <1>3, <1>4, <1>5 DEF CycleRight, c

\* A boundary that moves touches no segment (upgradeQuotaCycleBoundary).
LEMMA CalibratedFits ==
    ASSUME NEW c, CycleRight(c), NEW o \in Observations
    PROVE  CycleRight(Calibrated(c, o)) /\ Calibrated(c, o).segs = c.segs /\ Calibrated(c, o).last = c.last
<1> DEFINE d == Calibrated(c, o)
<1>1. c \in CycleRows /\ o.src \in Sources /\ o.reset \in Int
  BY ObservationTypes DEF CycleRight
<1>2. d \in CycleRows /\ d.segs = c.segs /\ d.last = c.last
  BY <1>1 DEF Calibrated, CycleRows
<1> HIDE DEF d
<1> QED BY <1>2 DEF CycleRight, d

\* One observation and the cycle it belongs to.
LEMMA ObservedFits ==
    ASSUME NEW c, CycleRight(c), NEW o \in Observations, o.first <= o.last, c.last <= o.first
    PROVE  /\ CycleRight(Observed(c, o)) /\ Observed(c, o).last <= o.last
           /\ ~o.auth => TailPct(Observed(c, o)) <= TailPct(c)
<1> DEFINE d == Observed(c, o)
           z == Segments(c.segs, o)
<1>1. c \in CycleRows /\ Falling(c.segs) /\ c.last = c.segs[Len(c.segs)].last
  BY DEF CycleRight
<1>2. o.first \in Int /\ o.last \in Int
  BY ObservationTypes
<1>3. SegmentsKept(c.segs, z, o)
  BY <1>1, SegmentsKeep
<1>4. d = IF z = c.segs THEN c
          ELSE [c EXCEPT !.segs = z, !.last = o.last, !.first = IF o.first < @ THEN o.first ELSE @]
  BY DEF Observed
<1> HIDE DEF d, z
<1>5. CASE z = c.segs
  <2>1. d = c /\ c.last <= o.last
    BY <1>1, <1>2, <1>4, <1>5, CycleTypes
  <2> QED BY <1>3, <1>5, <2>1 DEF SegmentsKept, TailPct, d
<1>6. CASE z # c.segs
  <2>1. Falling(z) /\ z \in Seq(SegmentRows) /\ z[Len(z)].last = o.last
    BY <1>3, <1>6 DEF SegmentsKept, Falling
  <2>2. d \in CycleRows /\ d.segs = z /\ d.last = o.last
    BY <1>1, <1>2, <1>4, <1>6, <2>1 DEF CycleRows
  <2>3. CycleRight(d) /\ d.last <= o.last
    BY <1>2, <2>1, <2>2 DEF CycleRight
  <2> QED BY <1>3, <2>2, <2>3 DEF SegmentsKept, TailPct, d
<1> QED BY <1>5, <1>6

\* One observation and all that is stored (applyCodexMainQuotaObservation).
LEMMA ApplyKeeps ==
    ASSUME NEW t \in Int, NEW cs, Stored(cs, t), NEW o \in Observations, t <= o.first, o.first <= o.last
    PROVE  /\ Stored(Apply(cs, o), o.last)
           /\ ~o.auth => NotRaised(cs, Apply(cs, o))
           /\ Len(cs) <= Len(Apply(cs, o))
<1> DEFINE i == CycleOf(cs, o)
           z == Apply(cs, o)
           d == Observed(Calibrated(cs[i], o), o)
<1>1. /\ cs \in Seq(CycleRows) /\ Len(cs) \in Nat /\ DOMAIN cs = 1 .. Len(cs)
      /\ \A k \in 1 .. Len(cs) : CycleRight(cs[k]) /\ cs[k] \in CycleRows /\ cs[k].last <= t
  BY DEF Stored
<1>2. o.first \in Int /\ o.last \in Int
  BY ObservationTypes
<1>3. i \in 1 .. Len(cs) \cup {0}
  BY <1>1, CycleOfFits
<1>4. z = IF Ignored(cs, o) THEN cs
          ELSE IF i = 0 THEN Append(cs, NewCycle(o))
          ELSE [cs EXCEPT ![i] = d]
  BY DEF Apply
<1>5. \A k \in 1 .. Len(cs) : cs[k].last <= o.first /\ cs[k].last <= o.last
  <2> TAKE k \in 1 .. Len(cs)
  <2>1. cs[k].last \in Int /\ cs[k].last <= t
    BY <1>1, CycleTypes
  <2> QED BY <1>2, <2>1
<1>0. \A k \in 1 .. Len(cs) : TailPct(cs[k]) \in Int
  <2> TAKE k \in 1 .. Len(cs)
  <2>1. Falling(cs[k].segs)
    BY <1>1 DEF CycleRight
  <2>2. cs[k].segs \in Seq(SegmentRows) /\ Len(cs[k].segs) \in 1 .. Len(cs[k].segs)
    BY <2>1 DEF Falling
  <2> QED BY <2>2, RowTypes DEF TailPct
<1>6. i # 0 => CycleRight(d) /\ d.last <= o.last /\ (~o.auth => TailPct(d) <= TailPct(cs[i]))
  <2> SUFFICES ASSUME i # 0
               PROVE CycleRight(d) /\ d.last <= o.last /\ (~o.auth => TailPct(d) <= TailPct(cs[i]))
      OBVIOUS
  <2> DEFINE c == cs[i]
             e == Calibrated(c, o)
  <2>1. CycleRight(c) /\ c.last <= o.first
    BY <1>1, <1>3, <1>5
  <2> HIDE DEF c
  <2>2. CycleRight(e) /\ e.segs = c.segs /\ e.last <= o.first
    BY <2>1, CalibratedFits
  <2>3. TailPct(e) = TailPct(c)
    BY <2>2 DEF TailPct
  <2> HIDE DEF e
  <2>4. CycleRight(Observed(e, o)) /\ Observed(e, o).last <= o.last
        /\ (~o.auth => TailPct(Observed(e, o)) <= TailPct(e))
    BY <2>2, ObservedFits
  <2> QED BY <2>3, <2>4 DEF c, e
<1> HIDE DEF d, i, z
<1>7. CASE z = cs
  <2>1. Stored(z, o.last)
    BY <1>1, <1>5, <1>7 DEF Stored
  <2>2. NotRaised(cs, z)
    BY <1>0, <1>1, <1>7 DEF NotRaised
  <2> QED BY <1>1, <1>7, <2>1, <2>2 DEF z
<1>8. CASE z = Append(cs, NewCycle(o))
  <2> DEFINE c == NewCycle(o)
  <2>1. CycleRight(c) /\ c.last = o.last
    BY NewCycleFits
  <2>0. z = Append(cs, c)
    BY <1>8
  <2> HIDE DEF c
  <2>2. /\ z \in Seq(CycleRows) /\ Len(z) = Len(cs) + 1
        /\ \A k \in 1 .. Len(cs) : z[k] = cs[k]
        /\ z[Len(cs) + 1] = c
    BY <1>1, <2>0, <2>1 DEF CycleRight
  <2>3. \A k \in 1 .. Len(z) : k \in 1 .. Len(cs) \/ k = Len(cs) + 1
    BY <1>1, <2>2
  <2>4. Stored(z, o.last)
    BY <1>1, <1>2, <1>5, <2>1, <2>2, <2>3 DEF Stored
  <2>5. NotRaised(cs, z) /\ Len(cs) <= Len(z)
    BY <1>0, <1>1, <2>2 DEF NotRaised
  <2> QED BY <2>4, <2>5 DEF z
<1>9. CASE i # 0 /\ z = [cs EXCEPT ![i] = d]
  <2>1. i \in 1 .. Len(cs) /\ d \in CycleRows
    BY <1>3, <1>6, <1>9 DEF CycleRight
  <2>2. z \in Seq(CycleRows) /\ Len(z) = Len(cs) /\ \A k \in 1 .. Len(cs) : z[k] = IF k = i THEN d ELSE cs[k]
    BY <1>1, <1>9, <2>1
  <2>3. Stored(z, o.last)
    BY <1>1, <1>5, <1>6, <1>9, <2>2 DEF Stored
  <2>4. ~o.auth => NotRaised(cs, z)
    <3> SUFFICES ASSUME ~o.auth PROVE NotRaised(cs, z)
        OBVIOUS
    <3>1. ASSUME NEW k \in 1 .. Len(cs) PROVE TailPct(z[k]) <= TailPct(cs[k])
      <4>1. CASE k = i
        BY <1>6, <1>9, <2>2, <4>1
      <4>2. CASE k # i
        BY <1>0, <2>2, <4>2
      <4> QED BY <4>1, <4>2
    <3> QED BY <1>1, <2>2, <3>1 DEF NotRaised
  <2> QED BY <1>1, <2>2, <2>3, <2>4 DEF z
<1> QED BY <1>4, <1>7, <1>8, <1>9

\* What is chosen from one element.
LEMMA OneElement == ASSUME NEW x PROVE (CHOOSE y \in {x} : TRUE) = x
OBVIOUS

\* The transaction goes from one observation to the next
\* (WriteCodexMainQuotaObservations).
LEMMA WrittenRuns ==
    ASSUME NEW cs, NEW seq, Len(seq) \in Nat
    PROVE  /\ Written(cs, seq)[0] = cs
           /\ \A n \in 1 .. Len(seq) : Written(cs, seq)[n] = Apply(Written(cs, seq)[n - 1], seq[n])
           /\ DOMAIN Written(cs, seq) = 0 .. Len(seq)
<1> DEFINE N == Len(seq)
           step(f, n) == IF n = 0 THEN cs ELSE CHOOSE y \in {Apply(x, seq[n]) : x \in {f[n - 1]}} : TRUE
           W == Written(cs, seq)
<1>1. W = CHOOSE f : f = [n \in 0 .. N |-> step(f, n)]
  BY DEF Written, Through
<1>2. ASSUME NEW f, NEW n \in Nat PROVE step(f, n) = IF n = 0 THEN cs ELSE Apply(f[n - 1], seq[n])
  <2>1. {Apply(x, seq[n]) : x \in {f[n - 1]}} = {Apply(f[n - 1], seq[n])}
    OBVIOUS
  <2>2. (CHOOSE y \in {Apply(f[n - 1], seq[n])} : TRUE) = Apply(f[n - 1], seq[n])
    BY OneElement
  <2> QED BY <2>1, <2>2
<1>3. N \in Nat
  OBVIOUS
<1> HIDE DEF N, step, W
<1>4. \E f : f = [n \in 0 .. N |-> step(f, n)]
  <2> DEFINE Bad == {k \in Nat : ~\E f : f = [n \in 0 .. k |-> step(f, n)]}
  <2>1. SUFFICES Bad = {}
    BY <1>3
  <2>2. SUFFICES ASSUME Bad # {} PROVE FALSE
    OBVIOUS
  <2>3. PICK k \in Bad : \A j \in Bad : k <= j
    BY <2>2, NaturalsHaveLeast
  <2>4. k \in Nat /\ ~\E f : f = [n \in 0 .. k |-> step(f, n)]
    OBVIOUS
  <2>5. CASE k = 0
    <3> DEFINE f == [n \in 0 .. 0 |-> cs]
    <3>1. f = [n \in 0 .. 0 |-> step(f, n)]
      BY <1>2
    <3> QED BY <2>4, <2>5, <3>1
  <2>6. CASE k # 0
    <3>1. k - 1 \in Nat /\ k - 1 \notin Bad
      BY <2>3, <2>4, <2>6
    <3>2. PICK f : f = [n \in 0 .. k - 1 |-> step(f, n)]
      BY <3>1
    <3> DEFINE g == [n \in 0 .. k |-> IF n < k THEN f[n] ELSE step(f, n)]
    <3>3. ASSUME NEW n \in 0 .. k PROVE g[n] = step(g, n)
      <4>1. n \in Nat /\ (n = 0 \/ n - 1 \in 0 .. k - 1)
        BY <2>4
      <4>2. n # 0 => g[n - 1] = f[n - 1]
        BY <2>4, <4>1
      <4>3. step(g, n) = step(f, n)
        BY <1>2, <4>1, <4>2
      <4>4. CASE n < k
        <5>1. n \in 0 .. k - 1 /\ g[n] = f[n]
          BY <2>4, <4>4
        <5>2. f[n] = step(f, n)
          BY <3>2, <5>1
        <5> QED BY <4>3, <5>1, <5>2
      <4>5. CASE ~(n < k)
        BY <4>3, <4>5
      <4> QED BY <4>4, <4>5
    <3>4. DOMAIN g = 0 .. k /\ g = [n \in DOMAIN g |-> g[n]]
      OBVIOUS
    <3> HIDE DEF g
    <3>5. g = [n \in 0 .. k |-> step(g, n)]
      BY <3>3, <3>4
    <3> QED BY <2>4, <3>5
  <2> QED BY <2>5, <2>6
<1>5. W = [n \in 0 .. N |-> step(W, n)]
  BY <1>1, <1>4
<1>6. DOMAIN W = 0 .. N /\ \A n \in 0 .. N : W[n] = step(W, n)
  BY <1>5
<1>7. W[0] = cs
  BY <1>2, <1>3, <1>6
<1>8. ASSUME NEW n \in 1 .. N PROVE W[n] = Apply(W[n - 1], seq[n])
  <2>1. n \in 0 .. N /\ n \in Nat /\ n # 0
    BY <1>3
  <2> QED BY <1>2, <1>6, <2>1
<1> QED BY <1>6, <1>7, <1>8 DEF W, N

\* So does the machine in memory.
LEMMA MergingRuns ==
    ASSUME NEW start, NEW seq, Len(seq) \in Nat
    PROVE  /\ Remembered(start, seq)[0] = start
           /\ \A n \in 1 .. Len(seq) : Remembered(start, seq)[n] = Merge(Remembered(start, seq)[n - 1], seq[n])
           /\ DOMAIN Remembered(start, seq) = 0 .. Len(seq)
<1> DEFINE N == Len(seq)
           step(f, n) == IF n = 0 THEN start ELSE CHOOSE y \in {Merge(x, seq[n]) : x \in {f[n - 1]}} : TRUE
           W == Remembered(start, seq)
<1>1. W = CHOOSE f : f = [n \in 0 .. N |-> step(f, n)]
  BY DEF Remembered, Through
<1>2. ASSUME NEW f, NEW n \in Nat PROVE step(f, n) = IF n = 0 THEN start ELSE Merge(f[n - 1], seq[n])
  <2>1. {Merge(x, seq[n]) : x \in {f[n - 1]}} = {Merge(f[n - 1], seq[n])}
    OBVIOUS
  <2>2. (CHOOSE y \in {Merge(f[n - 1], seq[n])} : TRUE) = Merge(f[n - 1], seq[n])
    BY OneElement
  <2> QED BY <2>1, <2>2
<1>3. N \in Nat
  OBVIOUS
<1> HIDE DEF N, step, W
<1>4. \E f : f = [n \in 0 .. N |-> step(f, n)]
  <2> DEFINE Bad == {k \in Nat : ~\E f : f = [n \in 0 .. k |-> step(f, n)]}
  <2>1. SUFFICES Bad = {}
    BY <1>3
  <2>2. SUFFICES ASSUME Bad # {} PROVE FALSE
    OBVIOUS
  <2>3. PICK k \in Bad : \A j \in Bad : k <= j
    BY <2>2, NaturalsHaveLeast
  <2>4. k \in Nat /\ ~\E f : f = [n \in 0 .. k |-> step(f, n)]
    OBVIOUS
  <2>5. CASE k = 0
    <3> DEFINE f == [n \in 0 .. 0 |-> start]
    <3>1. f = [n \in 0 .. 0 |-> step(f, n)]
      BY <1>2
    <3> QED BY <2>4, <2>5, <3>1
  <2>6. CASE k # 0
    <3>1. k - 1 \in Nat /\ k - 1 \notin Bad
      BY <2>3, <2>4, <2>6
    <3>2. PICK f : f = [n \in 0 .. k - 1 |-> step(f, n)]
      BY <3>1
    <3> DEFINE g == [n \in 0 .. k |-> IF n < k THEN f[n] ELSE step(f, n)]
    <3>3. ASSUME NEW n \in 0 .. k PROVE g[n] = step(g, n)
      <4>1. n \in Nat /\ (n = 0 \/ n - 1 \in 0 .. k - 1)
        BY <2>4
      <4>2. n # 0 => g[n - 1] = f[n - 1]
        BY <2>4, <4>1
      <4>3. step(g, n) = step(f, n)
        BY <1>2, <4>1, <4>2
      <4>4. CASE n < k
        <5>1. n \in 0 .. k - 1 /\ g[n] = f[n]
          BY <2>4, <4>4
        <5>2. f[n] = step(f, n)
          BY <3>2, <5>1
        <5> QED BY <4>3, <5>1, <5>2
      <4>5. CASE ~(n < k)
        BY <4>3, <4>5
      <4> QED BY <4>4, <4>5
    <3>4. DOMAIN g = 0 .. k /\ g = [n \in DOMAIN g |-> g[n]]
      OBVIOUS
    <3> HIDE DEF g
    <3>5. g = [n \in 0 .. k |-> step(g, n)]
      BY <3>3, <3>4
    <3> QED BY <2>4, <3>5
  <2> QED BY <2>5, <2>6
<1>5. W = [n \in 0 .. N |-> step(W, n)]
  BY <1>1, <1>4
<1>6. DOMAIN W = 0 .. N /\ \A n \in 0 .. N : W[n] = step(W, n)
  BY <1>5
<1>7. W[0] = start
  BY <1>2, <1>3, <1>6
<1>8. ASSUME NEW n \in 1 .. N PROVE W[n] = Merge(W[n - 1], seq[n])
  <2>1. n \in 0 .. N /\ n \in Nat /\ n # 0
    BY <1>3
  <2> QED BY <1>2, <1>6, <2>1
<1> QED BY <1>6, <1>7, <1>8 DEF W, N

CyclesRight(cs) == cs \in Seq(CycleRows) /\ \A i \in 1 .. Len(cs) : CycleRight(cs[i])

\* Nothing stored is later than t.
After(cs, t) == \A j \in 1 .. Len(cs) : cs[j].last <= t

\* What is stored until some time, in two parts.
LEMMA StoredIsRight == ASSUME NEW cs, NEW t PROVE Stored(cs, t) <=> CyclesRight(cs) /\ After(cs, t)
BY DEF Stored, CyclesRight, After

\* What the tail of a cycle holds.
LEMMA TailTypes ==
    ASSUME NEW cs, CyclesRight(cs)
    PROVE  /\ Len(cs) \in Nat
           /\ \A k \in 1 .. Len(cs) : TailPct(cs[k]) \in Int /\ cs[k].last \in Int /\ cs[k] \in CycleRows
<1>1. Len(cs) \in Nat
  BY DEF CyclesRight
<1>2. ASSUME NEW k \in 1 .. Len(cs) PROVE TailPct(cs[k]) \in Int /\ cs[k].last \in Int /\ cs[k] \in CycleRows
  <2>1. Falling(cs[k].segs) /\ cs[k] \in CycleRows
    BY DEF CyclesRight, CycleRight
  <2>2. cs[k].segs \in Seq(SegmentRows) /\ Len(cs[k].segs) \in 1 .. Len(cs[k].segs)
    BY <2>1 DEF Falling
  <2> QED BY <2>1, <2>2, RowTypes, CycleTypes DEF TailPct
<1> QED BY <1>1, <1>2

\* Nothing later is nothing later still.
LEMMA LaterStays ==
    ASSUME NEW cs, CyclesRight(cs), NEW t \in Int, NEW u \in Int, t <= u, After(cs, t) PROVE After(cs, u)
<1> SUFFICES ASSUME NEW j \in 1 .. Len(cs) PROVE cs[j].last <= u
    BY DEF After
<1>1. cs[j].last \in Int /\ cs[j].last <= t
  BY TailTypes DEF After
<1> QED BY <1>1

\* Two steps that raise nothing raise nothing.
LEMMA NotRaisedTwice ==
    ASSUME NEW a, CyclesRight(a), NEW b, CyclesRight(b), NEW c, CyclesRight(c),
           NotRaised(a, b), NotRaised(b, c)
    PROVE  NotRaised(a, c)
<1>1. /\ Len(a) \in Nat /\ Len(b) \in Nat /\ Len(c) \in Nat
      /\ Len(a) <= Len(b) /\ Len(b) <= Len(c)
  BY TailTypes DEF NotRaised
<1>2. ASSUME NEW i \in 1 .. Len(a) PROVE TailPct(c[i]) <= TailPct(a[i])
  <2>1. i \in 1 .. Len(b) /\ i \in 1 .. Len(c)
    BY <1>1
  <2>2. TailPct(a[i]) \in Int /\ TailPct(b[i]) \in Int /\ TailPct(c[i]) \in Int
    BY <2>1, TailTypes
  <2>3. TailPct(b[i]) <= TailPct(a[i]) /\ TailPct(c[i]) <= TailPct(b[i])
    BY <2>1 DEF NotRaised
  <2> QED BY <2>2, <2>3
<1> QED BY <1>1, <1>2 DEF NotRaised

\* The transaction, after some of the observations.
WrittenSoFar(cs, pend, z, n) ==
    /\ CyclesRight(z) /\ After(z, pend[n].last)
    /\ Len(cs) <= Len(z)
    /\ (\A i \in 1 .. Len(pend) : ~pend[i].auth) => NotRaised(cs, z)

\* All that the transaction passes through is in order, and later than
\* none of what is still to be written.
LEMMA WrittenStored ==
    ASSUME NEW cs, CyclesRight(cs), NEW pend, Chain(pend),
           \A i \in 1 .. Len(pend) : After(cs, pend[i].first)
    PROVE  \A n \in 1 .. Len(pend) : WrittenSoFar(cs, pend, Written(cs, pend)[n], n)
<1> DEFINE W == Written(cs, pend)
           N == Len(pend)
           Bad == {n \in 1 .. N : ~WrittenSoFar(cs, pend, W[n], n)}
<1>1. pend \in Seq(Observations) /\ N \in Nat /\ DOMAIN pend = 1 .. N
  BY DEF Chain
<1>2. W[0] = cs /\ \A n \in 1 .. N : W[n] = Apply(W[n - 1], pend[n])
  BY <1>1, WrittenRuns
<1> HIDE DEF W
<1>3. SUFFICES ASSUME Bad # {} PROVE FALSE
  BY DEF W
<1>4. Bad \subseteq Nat
  BY <1>1
<1>5. PICK n \in Bad : \A k \in Bad : n <= k
  BY <1>3, <1>4, NaturalsHaveLeast
<1>6. n \in 1 .. N /\ n \in Nat /\ ~WrittenSoFar(cs, pend, W[n], n)
  BY <1>4
<1> DEFINE o == pend[n]
           z == W[n - 1]
<1>7. o \in Observations /\ o.first <= o.last /\ o.first \in Int /\ o.last \in Int
  BY <1>1, <1>6, ObservationTypes DEF Chain
<1>8. \E t \in Int : Stored(z, t) /\ t <= o.first
  <2>1. CASE n = 1
    <3>1. z = cs /\ After(cs, o.first)
      BY <1>2, <1>6, <2>1
    <3> QED BY <1>7, <3>1, StoredIsRight
  <2>2. CASE n # 1
    <3>1. n - 1 \in 1 .. N /\ n - 1 < n
      BY <1>1, <1>6, <2>2
    <3>2. WrittenSoFar(cs, pend, z, n - 1)
      BY <1>5, <1>6, <3>1
    <3>3. Stored(z, pend[n - 1].last)
      BY <3>2, StoredIsRight DEF WrittenSoFar
    <3>4. pend[n - 1].last <= o.first /\ pend[n - 1].last \in Int
      <4>1. pend[n - 1] \in Observations
        BY <1>1, <3>1
      <4> QED BY <1>1, <1>6, <3>1, <4>1, ObservationTypes DEF Chain
    <3> QED BY <3>3, <3>4
  <2> QED BY <2>1, <2>2
<1>9. /\ Len(cs) <= Len(z) /\ CyclesRight(z)
      /\ (\A i \in 1 .. N : ~pend[i].auth) => NotRaised(cs, z)
  <2>1. CASE n = 1
    <3>1. z = cs
      BY <1>2, <2>1
    <3>2. NotRaised(cs, cs) /\ Len(cs) <= Len(cs)
      BY TailTypes DEF NotRaised
    <3> QED BY <3>1, <3>2
  <2>2. CASE n # 1
    <3>1. n - 1 \in 1 .. N /\ n - 1 < n
      BY <1>1, <1>6, <2>2
    <3>2. WrittenSoFar(cs, pend, z, n - 1)
      BY <1>5, <1>6, <3>1
    <3> QED BY <3>2 DEF WrittenSoFar
  <2> QED BY <2>1, <2>2
<1>10. W[n] = Apply(z, o)
  BY <1>2, <1>6
<1> HIDE DEF z, N
<1>11. /\ Stored(Apply(z, o), o.last)
       /\ ~o.auth => NotRaised(z, Apply(z, o))
       /\ Len(z) <= Len(Apply(z, o))
  <2>1. PICK t \in Int : Stored(z, t) /\ t <= o.first
    BY <1>8
  <2> HIDE DEF o
  <2> QED BY <1>7, <2>1, ApplyKeeps
<1>12. CyclesRight(W[n]) /\ After(W[n], o.last)
  BY <1>10, <1>11, StoredIsRight
<1>13. Len(cs) <= Len(W[n])
  <2>1. Len(cs) \in Nat /\ Len(z) \in Nat /\ Len(W[n]) \in Nat
    BY <1>9, <1>12, TailTypes
  <2> QED BY <1>9, <1>10, <1>11, <2>1
<1>14. (\A i \in 1 .. N : ~pend[i].auth) => NotRaised(cs, W[n])
  BY <1>6, <1>9, <1>10, <1>11, <1>12, NotRaisedTwice
<1> QED BY <1>6, <1>12, <1>13, <1>14 DEF WrittenSoFar, N

-----------------------------------------------------------------------------
(* The machine in memory.                                                     *)

States == [loaded : BOOLEAN, found : BOOLEAN, ws : Int, src : Sources, reset : Int, pct : Int, last : Int]

\* What the machine remembers of a window.
LEMMA StateTypes == ASSUME NEW s \in States
      PROVE  /\ s.loaded \in BOOLEAN /\ s.found \in BOOLEAN /\ s.ws \in Int /\ s.src \in Sources
             /\ s.reset \in Int /\ s.pct \in Int /\ s.last \in Int
BY DEF States

\* What is deferred is later than what is stored, and no later than the current state.
DeferredRight(cur, stab, cs) ==
    /\ stab.immediate \in BOOLEAN
    /\ stab.obs \in Observations /\ stab.obs.first <= stab.obs.last
    /\ stab.obs.last <= cur.last /\ After(cs, stab.obs.first)

\* What the runner knows of a window of which cs is stored.
Known(cur, stab, cs) ==
    /\ cur \in States /\ stab.exists \in BOOLEAN
    /\ cur.found => cur.loaded /\ After(cs, cur.last)
    /\ ~cur.found => ~stab.exists
    /\ cur.loaded /\ ~cur.found => cs = <<>>
    /\ stab.exists => DeferredRight(cur, stab, cs)

\* What is to be written is in order, later than what is stored and no later than t.
PendRight(pend, t, cs, trusted) ==
    /\ Chain(pend)
    /\ \A i \in 1 .. Len(pend) : /\ pend[i].last <= t /\ After(cs, pend[i].first)
                                 /\ pend[i].auth => trusted

\* The machine; a trusted query (if there was one) is deferred only until the
\* end of the batch.
MachineRight(m, cs, trusted) ==
    /\ m = [cur |-> m.cur, stab |-> m.stab, pend |-> m.pend, idx |-> m.idx, due |-> m.due]
    /\ Known(m.cur, m.stab, cs)
    /\ PendRight(m.pend, m.cur.last, cs, trusted) /\ m.idx = Len(m.pend)
    /\ m.pend # <<>> => m.cur.found /\ ~m.stab.exists
    /\ m.stab.exists /\ m.stab.obs.auth => trusted /\ m.stab.immediate

\* What is to be written.
LEMMA PendTypes ==
    ASSUME NEW pend, NEW t, NEW cs, NEW trusted, PendRight(pend, t, cs, trusted)
    PROVE  /\ pend \in Seq(Observations) /\ Len(pend) \in Nat /\ DOMAIN pend = 1 .. Len(pend)
           /\ \A i \in 1 .. Len(pend) : /\ pend[i] \in Observations
                                        /\ pend[i].first \in Int /\ pend[i].last \in Int
                                        /\ pend[i].first <= pend[i].last
<1>1. pend \in Seq(Observations)
  BY DEF PendRight, Chain
<1>2. \A i \in 1 .. Len(pend) : pend[i] \in Observations /\ pend[i].first <= pend[i].last
  BY <1>1 DEF PendRight, Chain
<1> QED BY <1>1, <1>2, ObservationTypes

\* An observation that is put behind what is to be written.
LEMMA OneMore ==
    ASSUME NEW q, NEW t \in Int, NEW cs, NEW trusted, PendRight(q, t, cs, trusted),
           NEW o \in Observations, o.first <= o.last, q # <<>> => t <= o.first,
           After(cs, o.first), o.auth => trusted
    PROVE  PendRight(Append(q, o), o.last, cs, trusted)
<1> DEFINE n == Len(q)
           z == Append(q, o)
<1>1. /\ q \in Seq(Observations) /\ n \in Nat
      /\ \A i \in 1 .. n : /\ q[i].first \in Int /\ q[i].last \in Int /\ q[i].first <= q[i].last
                           /\ q[i].last <= t /\ After(cs, q[i].first) /\ (q[i].auth => trusted)
  BY PendTypes DEF PendRight
<1>2. o.first \in Int /\ o.last \in Int
  BY ObservationTypes
<1>3. /\ z \in Seq(Observations) /\ Len(z) = n + 1 /\ DOMAIN z = 1 .. n + 1
      /\ \A i \in 1 .. n : z[i] = q[i]
      /\ z[n + 1] = o
  BY <1>1
<1>4. \A i \in 1 .. n + 1 : i \in 1 .. n \/ i = n + 1
  BY <1>1
<1>5. \A i \in 1 .. n : q[i].last <= o.first
  <2> SUFFICES ASSUME NEW i \in 1 .. n PROVE q[i].last <= o.first
      OBVIOUS
  <2>1. q # <<>>
    BY <1>1
  <2> QED BY <1>1, <1>2, <2>1
<1>6. \A i, j \in 1 .. n : i < j => q[i].last <= q[j].first
  BY <1>1 DEF PendRight, Chain
<1> HIDE DEF z, n
<1>7. \A i \in 1 .. n + 1 : z[i].first <= z[i].last
  BY <1>1, <1>3, <1>4
<1>8. ASSUME NEW i \in 1 .. n + 1, NEW j \in 1 .. n + 1, i < j PROVE z[i].last <= z[j].first
  <2>1. i \in 1 .. n
    BY <1>1, <1>8
  <2>2. CASE j \in 1 .. n
    BY <1>3, <1>6, <1>8, <2>1, <2>2
  <2>3. CASE j = n + 1
    BY <1>3, <1>5, <2>1, <2>3
  <2> QED BY <1>4, <2>2, <2>3
<1>9. ASSUME NEW i \in 1 .. n + 1
      PROVE  z[i].last <= o.last /\ After(cs, z[i].first) /\ (z[i].auth => trusted)
  <2>1. CASE i \in 1 .. n
    BY <1>1, <1>2, <1>3, <1>5, <2>1
  <2>2. CASE i = n + 1
    BY <1>2, <1>3, <2>2
  <2> QED BY <1>4, <2>1, <2>2
<1> QED BY <1>3, <1>7, <1>8, <1>9 DEF PendRight, Chain, z, n

\* The last one to be written is replaced by one that lasts longer.
LEMMA LastChanged ==
    ASSUME NEW q, NEW t \in Int, NEW cs, NEW trusted, PendRight(q, t, cs, trusted), q # <<>>,
           NEW p \in Observations, p.first = q[Len(q)].first, p.last >= q[Len(q)].last,
           NEW u \in Int, t <= u, p.last <= u, p.auth => trusted
    PROVE  PendRight([q EXCEPT ![Len(q)] = p], u, cs, trusted)
<1> DEFINE n == Len(q)
           z == [q EXCEPT ![n] = p]
<1>1. /\ q \in Seq(Observations) /\ n \in Nat /\ n \in 1 .. n
      /\ \A i \in 1 .. n : /\ q[i].first \in Int /\ q[i].last \in Int /\ q[i].first <= q[i].last
                           /\ q[i].last <= t /\ After(cs, q[i].first) /\ (q[i].auth => trusted)
  <2>1. /\ q \in Seq(Observations) /\ n \in Nat
        /\ \A i \in 1 .. n : q[i].first \in Int /\ q[i].last \in Int /\ q[i].first <= q[i].last
    BY PendTypes
  <2>2. n \in 1 .. n
    BY <2>1
  <2> QED BY <2>1, <2>2 DEF PendRight
<1>2. p.first \in Int /\ p.last \in Int
  BY ObservationTypes
<1>3. /\ z \in Seq(Observations) /\ Len(z) = n /\ DOMAIN z = 1 .. n
      /\ \A i \in 1 .. n : i # n => z[i] = q[i]
      /\ z[n] = p
  BY <1>1
<1>6. \A i, j \in 1 .. n : i < j => q[i].last <= q[j].first
  BY <1>1 DEF PendRight, Chain
<1>0. p.first = q[n].first /\ p.last >= q[n].last
  OBVIOUS
<1> HIDE DEF z, n
<1>7. \A i \in 1 .. n : z[i].first <= z[i].last
  <2> SUFFICES ASSUME NEW i \in 1 .. n PROVE z[i].first <= z[i].last
      OBVIOUS
  <2>1. CASE i = n
    BY <1>0, <1>1, <1>2, <1>3, <2>1
  <2>2. CASE i # n
    BY <1>1, <1>3, <2>2
  <2> QED BY <2>1, <2>2
<1>8. ASSUME NEW i \in 1 .. n, NEW j \in 1 .. n, i < j PROVE z[i].last <= z[j].first
  <2>1. i # n /\ z[i] = q[i] /\ q[i].last <= q[j].first
    BY <1>1, <1>3, <1>6, <1>8
  <2>2. z[j].first = q[j].first
    BY <1>0, <1>3
  <2> QED BY <2>1, <2>2
<1>9. ASSUME NEW i \in 1 .. n
      PROVE  z[i].last <= u /\ After(cs, z[i].first) /\ (z[i].auth => trusted)
  <2>1. CASE i # n
    BY <1>1, <1>3, <2>1
  <2>2. CASE i = n
    BY <1>0, <1>1, <1>3, <2>2
  <2> QED BY <2>1, <2>2
<1> QED BY <1>3, <1>7, <1>8, <1>9 DEF PendRight, Chain, z, n

\* What is to be written stays right when the current time moves on.
LEMMA PendStays ==
    ASSUME NEW q, NEW t \in Int, NEW cs, NEW trusted, PendRight(q, t, cs, trusted), NEW u \in Int, t <= u
    PROVE  PendRight(q, u, cs, trusted)
<1>1. ASSUME NEW i \in 1 .. Len(q) PROVE q[i].last <= u
  <2>1. q[i].last \in Int
    BY PendTypes
  <2>2. q[i].last <= t
    BY DEF PendRight
  <2> QED BY <2>1, <2>2
<1> QED BY <1>1 DEF PendRight

\* What is pending and what is deferred.
LEMMA AllOfIt ==
    ASSUME NEW m, NEW cs, NEW trusted, MachineRight(m, cs, trusted)
    PROVE  /\ PendRight(m.pend \o Deferred(m), m.cur.last, cs, trusted)
           /\ m.pend \o Deferred(m) # <<>> => m.cur.found
           /\ m.pend # <<>> => m.pend \o Deferred(m) = m.pend
           /\ m.cur.last \in Int
<1>1. m.cur.last \in Int
  BY StateTypes DEF MachineRight, Known
<1>2. CASE ~m.stab.exists
  <2>1. m.pend \o Deferred(m) = m.pend
    <3>1. m.pend \in Seq(Observations)
      BY DEF MachineRight, PendRight, Chain
    <3> QED BY <1>2, <3>1 DEF Deferred
  <2> QED BY <1>1, <2>1 DEF MachineRight
<1>3. CASE m.stab.exists
  <2> DEFINE p == m.stab.obs
  <2>1. m.pend = <<>> /\ m.cur.found
    BY <1>3 DEF MachineRight, Known
  <2>2. /\ p \in Observations /\ p.first <= p.last /\ p.last <= m.cur.last /\ After(cs, p.first)
        /\ p.auth => trusted
    BY <1>3 DEF MachineRight, Known, DeferredRight
  <2>3. m.pend \o Deferred(m) = <<p>>
    BY <1>3, <2>1, <2>2 DEF Deferred
  <2> HIDE DEF p
  <2>4. PendRight(<<p>>, m.cur.last, cs, trusted)
    <3>1. <<p>> \in Seq(Observations) /\ Len(<<p>>) = 1 /\ <<p>>[1] = p /\ DOMAIN <<p>> = 1 .. 1
      BY <2>2
    <3>2. \A i \in 1 .. 1 : i = 1
      OBVIOUS
    <3> QED BY <2>2, <3>1, <3>2 DEF PendRight, Chain
  <2> QED BY <1>1, <2>1, <2>3, <2>4
<1> QED BY <1>2, <1>3

\* An observation of one moment that the machine does not take for late.
Arrives(m, o, cs, trusted) ==
    /\ MachineRight(m, cs, trusted) /\ m.cur.loaded
    /\ o \in Observations /\ o.first = o.last /\ (o.auth => trusted)
    /\ m.cur.found => m.cur.last <= o.last

\* What is stored ends before an observation that arrives.
LEMMA ArrivalFits ==
    ASSUME NEW m, NEW o, NEW cs, CyclesRight(cs), NEW trusted, Arrives(m, o, cs, trusted)
    PROVE  /\ After(cs, o.first) /\ After(cs, o.last)
           /\ m.cur \in States /\ m.cur.last \in Int /\ o.last \in Int /\ o.first \in Int
<1>1. m.cur \in States /\ m.cur.last \in Int /\ o.last \in Int /\ o.first \in Int /\ o.first = o.last
  BY StateTypes, ObservationTypes DEF Arrives, MachineRight, Known
<1>2. CASE m.cur.found
  <2>1. After(cs, m.cur.last) /\ m.cur.last <= o.last
    BY <1>2 DEF Arrives, MachineRight, Known
  <2> QED BY <1>1, <2>1, LaterStays
<1>3. CASE ~m.cur.found
  <2>1. cs = <<>>
    BY <1>3 DEF Arrives, MachineRight, Known
  <2> QED BY <1>1, <2>1 DEF After
<1> QED BY <1>1, <1>2, <1>3

\* A change (appendCodexQuotaHistoryChange).
LEMMA ChangeKeeps ==
    ASSUME NEW m, NEW o, NEW cs, CyclesRight(cs), NEW trusted, Arrives(m, o, cs, trusted)
    PROVE  MachineRight(Change(m, o), cs, trusted) /\ Change(m, o).cur.loaded
<1> DEFINE q == m.pend \o Deferred(m)
           z == Change(m, o)
           pend == Append(q, o)
<1>0. MachineRight(m, cs, trusted) /\ o \in Observations /\ o.first = o.last /\ (o.auth => trusted)
  BY DEF Arrives
<1>1. /\ PendRight(q, m.cur.last, cs, trusted) /\ (q # <<>> => m.cur.found)
      /\ m.cur.last \in Int
  BY <1>0, AllOfIt
<1>2. After(cs, o.first) /\ After(cs, o.last) /\ o.last \in Int /\ o.first \in Int
  BY ArrivalFits
<1>3. q # <<>> => m.cur.last <= o.first
  BY <1>0, <1>1 DEF Arrives
<1>4. pend \in Seq(Observations) /\ q \o <<o>> = pend /\ pend # <<>>
  <2>1. q \in Seq(Observations)
    BY <1>1, PendTypes
  <2> HIDE DEF q
  <2> QED BY <1>0, <2>1
<1>5. z = [cur |-> StateOf(o), stab |-> NoStable, pend |-> pend, idx |-> Len(pend), due |-> m.due \cup {o.last}]
  BY <1>4 DEF Change
<1> HIDE DEF z, q
<1>6. PendRight(pend, o.last, cs, trusted)
  <2>1. o.first <= o.last
    BY <1>0, <1>2
  <2> QED BY <1>0, <1>1, <1>2, <1>3, <2>1, OneMore
<1>7. StateOf(o) \in States /\ StateOf(o).last = o.last /\ StateOf(o).found /\ StateOf(o).loaded
  BY <1>0, ObservationTypes DEF StateOf, States
<1>8. NoStable.exists = FALSE
  BY DEF NoStable
<1>9. Known(StateOf(o), NoStable, cs)
  BY <1>2, <1>7, <1>8 DEF Known
<1> HIDE DEF pend
<1>10. /\ z.cur = StateOf(o) /\ z.stab = NoStable /\ z.pend = pend /\ z.idx = Len(pend)
       /\ z.due = m.due \cup {o.last}
  BY <1>5
<1>11. z = [cur |-> z.cur, stab |-> z.stab, pend |-> z.pend, idx |-> z.idx, due |-> z.due]
  BY <1>5
<1> QED BY <1>6, <1>7, <1>8, <1>9, <1>10, <1>11 DEF MachineRight, z

\* The boundary of what is remembered moves.
LEMMA MovedState ==
    ASSUME NEW s \in States, NEW o \in Observations
    PROVE  /\ Moved(o, s) \in States /\ Moved(o, s).last = s.last /\ Moved(o, s).found = s.found
           /\ Moved(o, s).loaded = s.loaded
BY ObservationTypes DEF Moved, States

\* The boundary of what is to be written moves.
LEMMA MovedObservation ==
    ASSUME NEW p \in Observations, NEW o \in Observations
    PROVE  /\ Moved(o, p) \in Observations /\ Moved(o, p).last = p.last /\ Moved(o, p).first = p.first
           /\ Moved(o, p).auth = p.auth
BY ObservationTypes DEF Moved, Observations

\* What stands for another observation as well, and what lasts until it.
LEMMA WithFits ==
    ASSUME NEW p \in Observations, NEW o \in Observations
    PROVE  /\ With(p, o) \in Observations /\ With(p, o).first = p.first /\ With(p, o).last = p.last
           /\ With(p, o).auth => p.auth \/ o.auth
BY DEF With, Observations

\* What lasts until another observation begins as before.
LEMMA UntilFits ==
    ASSUME NEW p \in Observations, NEW o \in Observations, NEW moved \in BOOLEAN
    PROVE  /\ Until(p, o, moved) \in Observations
           /\ Until(p, o, moved).first = p.first /\ Until(p, o, moved).last = o.last
           /\ Until(p, o, moved).auth => p.auth \/ o.auth
<1> DEFINE b == IF moved THEN Moved(o, p) ELSE p
           w == With(b, o)
<1>1. b \in Observations /\ b.first = p.first /\ b.auth = p.auth
  BY MovedObservation
<1> HIDE DEF b
<1>2. w \in Observations /\ w.first = b.first /\ (w.auth => b.auth \/ o.auth)
  BY <1>1, WithFits
<1>3. Until(p, o, moved) = [w EXCEPT !.last = o.last] /\ o.last \in Int
  BY ObservationTypes DEF Until, b
<1> HIDE DEF w
<1>4. /\ Until(p, o, moved) \in Observations /\ Until(p, o, moved).first = w.first
      /\ Until(p, o, moved).last = o.last /\ Until(p, o, moved).auth = w.auth
  BY <1>2, <1>3 DEF Observations
<1> QED BY <1>1, <1>2, <1>4

\* A calibration at the time of the tail.
LEMMA CalibrateKeeps ==
    ASSUME NEW m, NEW o, NEW cs, CyclesRight(cs), NEW trusted, Arrives(m, o, cs, trusted),
           m.cur.found, o.last = m.cur.last
    PROVE  MachineRight(Calibrate(m, o), cs, trusted) /\ Calibrate(m, o).cur.loaded
<1> DEFINE q == m.pend \o Deferred(m)
           z == Calibrate(m, o)
           k == m.idx
           p == With(Moved(o, q[k]), o)
           e == [o EXCEPT !.pct = m.cur.pct]
           here == IF k > 0 THEN [q EXCEPT ![k] = p] ELSE Append(q, e)
<1>0. MachineRight(m, cs, trusted) /\ o \in Observations /\ o.first = o.last /\ (o.auth => trusted)
  BY DEF Arrives
<1>1. /\ PendRight(q, m.cur.last, cs, trusted) /\ (m.pend # <<>> => q = m.pend)
      /\ m.cur.last \in Int
  BY <1>0, AllOfIt
<1>2. After(cs, o.first) /\ After(cs, o.last) /\ o.last \in Int /\ o.first \in Int /\ m.cur \in States
  BY ArrivalFits
<1>3. k = Len(m.pend) /\ m.pend \in Seq(Observations) /\ k \in Nat
  BY <1>0, PendTypes DEF MachineRight
<1>4. z = [m EXCEPT !.cur = Moved(o, m.cur), !.stab = NoStable, !.pend = here,
                    !.idx = IF k > 0 THEN k ELSE Len(here), !.due = @ \cup {o.last}]
  <2>1. CASE k > 0
    <3>1. z = [m EXCEPT !.cur = Moved(o, m.cur), !.stab = NoStable, !.pend = [q EXCEPT ![k] = p],
                        !.idx = k, !.due = @ \cup {o.last}]
      BY <2>1 DEF Calibrate
    <3> QED BY <2>1, <3>1
  <2>2. CASE ~(k > 0)
    <3>1. z = [m EXCEPT !.cur = Moved(o, m.cur), !.stab = NoStable, !.pend = Append(q, e),
                        !.idx = Len(Append(q, e)), !.due = @ \cup {o.last}]
      BY <2>2 DEF Calibrate
    <3> QED BY <2>2, <3>1
  <2> QED BY <2>1, <2>2
<1>5. k > 0 => m.pend # <<>> /\ q = m.pend /\ k = Len(q) /\ q # <<>>
  BY <1>1, <1>3
<1> HIDE DEF z, q, k
<1>6. /\ PendRight(here, o.last, cs, trusted)
      /\ Len(here) = IF k > 0 THEN k ELSE Len(here)
  <2>1. CASE k > 0
    <3> DEFINE x == q[k]
    <3>1. /\ x \in Observations /\ x.first <= x.last /\ k = Len(q) /\ q # <<>> /\ q \in Seq(Observations)
          /\ k \in 1 .. Len(q) /\ x.last <= m.cur.last /\ (x.auth => trusted) /\ x.last \in Int
      <4>1. q \in Seq(Observations) /\ k \in 1 .. Len(q) /\ k = Len(q) /\ q # <<>>
        BY <1>1, <1>3, <1>5, <2>1, PendTypes
      <4> QED BY <1>1, <4>1, PendTypes DEF PendRight
    <3> HIDE DEF x
    <3>2. /\ Moved(o, x) \in Observations /\ Moved(o, x).last = x.last /\ Moved(o, x).first = x.first
          /\ Moved(o, x).auth = x.auth
      BY <1>0, <3>1, MovedObservation
    <3>5. p \in Observations /\ p.first = x.first /\ p.last = x.last /\ (p.auth => x.auth \/ o.auth)
      <4> DEFINE y == Moved(o, x)
      <4>1. y \in Observations /\ y.last = x.last /\ y.first = x.first /\ y.auth = x.auth /\ p = With(y, o)
        BY <3>2 DEF x
      <4> HIDE DEF y, p
      <4>2. With(y, o) \in Observations /\ With(y, o).first = y.first /\ With(y, o).last = y.last
            /\ (With(y, o).auth => y.auth \/ o.auth)
        BY <1>0, <4>1, WithFits
      <4> QED BY <4>1, <4>2
    <3> HIDE DEF p
    <3>6. p.first = q[Len(q)].first /\ p.last >= q[Len(q)].last /\ p.last <= m.cur.last
      BY <3>1, <3>5 DEF x
    <3>10. p.auth => trusted
      BY <1>0, <3>1, <3>5, Zenon
    <3>7. o.last <= o.last /\ m.cur.last <= o.last /\ m.cur.last \in Int /\ o.last \in Int
      BY <1>2
    <3>8. PendRight([q EXCEPT ![Len(q)] = p], o.last, cs, trusted)
      <4>1. p.last <= o.last
        BY <3>6
      <4> QED BY <1>1, <3>1, <3>5, <3>6, <3>7, <3>10, <4>1, LastChanged
    <3>9. here = [q EXCEPT ![Len(q)] = p] /\ Len(here) = k
      BY <2>1, <3>1
    <3> QED BY <2>1, <3>8, <3>9
  <2>2. CASE ~(k > 0)
    <3>1. /\ e \in Observations /\ e.first = o.first /\ e.last = o.last /\ e.auth = o.auth
      BY <1>0, <1>2, StateTypes DEF Observations
    <3>2. here = Append(q, e)
      BY <2>2
    <3> HIDE DEF e, here
    <3>3. e.first <= e.last /\ (q # <<>> => m.cur.last <= e.first) /\ After(cs, e.first) /\ (e.auth => trusted)
      BY <1>0, <1>2, <3>1
    <3>4. PendRight(Append(q, e), e.last, cs, trusted)
      BY <1>1, <3>1, <3>3, OneMore
    <3> QED BY <2>2, <3>1, <3>2, <3>4
  <2> QED BY <2>1, <2>2
<1> DEFINE cur == Moved(o, m.cur)
<1>7. cur \in States /\ cur.last = o.last /\ cur.found /\ cur.loaded
  BY <1>0, <1>2, MovedState DEF Arrives
<1>8. NoStable.exists = FALSE
  BY DEF NoStable
<1> HIDE DEF cur
<1>9. Known(cur, NoStable, cs)
  BY <1>2, <1>7, <1>8 DEF Known
<1> DEFINE idx == IF k > 0 THEN k ELSE Len(here)
           due == m.due \cup {o.last}
<1>10. z = [m EXCEPT !.cur = cur, !.stab = NoStable, !.pend = here, !.idx = idx, !.due = due]
  BY <1>4 DEF cur
<1>11. idx = Len(here)
  BY <1>6
<1> HIDE DEF here, idx, due
<1>12. /\ z.cur = cur /\ z.stab = NoStable /\ z.pend = here /\ z.idx = idx
       /\ z = [cur |-> z.cur, stab |-> z.stab, pend |-> z.pend, idx |-> z.idx, due |-> z.due]
  <2>1. m = [cur |-> m.cur, stab |-> m.stab, pend |-> m.pend, idx |-> m.idx, due |-> m.due]
    BY <1>0 DEF MachineRight
  <2>2. z = [cur |-> cur, stab |-> NoStable, pend |-> here, idx |-> idx, due |-> due]
    BY <1>10, <2>1
  <2> QED BY <2>2
<1> QED BY <1>6, <1>7, <1>8, <1>9, <1>11, <1>12 DEF MachineRight, z

\* Only a trusted query is deferred as one, and not for long.
DeferredTrust(stab, trusted) == stab.obs.auth => trusted /\ stab.immediate

\* A repetition that is deferred (mergeDeferredCodexQuotaHistoryStable).
LEMMA DeferredFits ==
    ASSUME NEW m, NEW o, NEW cs, CyclesRight(cs), NEW trusted, Arrives(m, o, cs, trusted),
           m.cur.found, NEW immediate \in BOOLEAN, o.auth => immediate,
           NEW cur \in States, cur.last = o.last,
           NEW z, z = DeferStable(m.stab, o, immediate)
    PROVE  /\ z.exists = TRUE /\ DeferredRight(cur, z, cs)
           /\ DeferredTrust(z, trusted)
<1>0. /\ o \in Observations /\ o.first = o.last /\ (o.auth => trusted) /\ Known(m.cur, m.stab, cs)
      /\ (m.stab.exists /\ m.stab.obs.auth => trusted /\ m.stab.immediate)
  BY DEF Arrives, MachineRight
<1>1. After(cs, o.first) /\ After(cs, o.last) /\ o.last \in Int /\ o.first \in Int
  BY ArrivalFits
<1>2. CASE ~m.stab.exists
  <2>1. z.exists = TRUE /\ z.obs = o /\ z.immediate = immediate
    BY <1>2 DEF DeferStable
  <2> QED BY <1>0, <1>1, <2>1 DEF DeferredRight, DeferredTrust
<1>3. CASE m.stab.exists
  <2> DEFINE p == m.stab.obs
             moved == o.auth \/ (p.src = "relative" /\ o.src = "absolute")
             e == Until(p, o, moved)
  <2>1. /\ p \in Observations /\ p.first <= p.last /\ p.last <= m.cur.last /\ After(cs, p.first)
        /\ m.stab.immediate \in BOOLEAN /\ p.first \in Int /\ p.last \in Int /\ m.cur.last \in Int
    BY <1>0, <1>3, StateTypes, ObservationTypes DEF Known, DeferredRight
  <2>2. z = [exists |-> TRUE, immediate |-> m.stab.immediate \/ immediate, obs |-> e]
    BY <1>3 DEF DeferStable
  <2>3. moved \in BOOLEAN
    BY <1>0, ObservationTypes
  <2>4. p.auth => trusted /\ m.stab.immediate
    BY <1>0, <1>3
  <2> HIDE DEF moved, p
  <2>5. e \in Observations /\ e.first = p.first /\ e.last = o.last /\ (e.auth => p.auth \/ o.auth)
    BY <1>0, <2>1, <2>3, UntilFits
  <2> HIDE DEF e
  <2>6. z.exists = TRUE /\ z.obs = e /\ z.immediate = (m.stab.immediate \/ immediate)
    BY <2>2
  <2>7. z.immediate \in BOOLEAN
    BY <2>6
  <2>8. e.first <= e.last
    BY <1>0, <1>1, <2>1, <2>5 DEF Arrives
  <2>9. e.last <= cur.last
    BY <1>1, <2>5
  <2>10. DeferredRight(cur, z, cs)
    BY <2>1, <2>5, <2>6, <2>7, <2>8, <2>9 DEF DeferredRight
  <2>11. e.auth => trusted /\ (m.stab.immediate \/ immediate)
    BY <1>0, <2>4, <2>5
  <2> QED BY <2>6, <2>10, <2>11, Zenon DEF DeferredTrust
<1> QED BY <1>2, <1>3

\* The same percentage again.
LEMMA RepeatKeeps ==
    ASSUME NEW m, NEW o, NEW cs, CyclesRight(cs), NEW trusted, Arrives(m, o, cs, trusted),
           m.cur.found, NEW moved \in BOOLEAN
    PROVE  MachineRight(Repeat(m, o, moved), cs, trusted) /\ Repeat(m, o, moved).cur.loaded
<1> DEFINE z == Repeat(m, o, moved)
           k == m.idx
           b == IF moved THEN Moved(o, m.cur) ELSE m.cur
           cur == [b EXCEPT !.last = o.last]
           p == Until(m.pend[k], o, moved)
           pend == [m.pend EXCEPT ![k] = p]
           due == m.due \cup {o.last}
           stab == DeferStable(m.stab, o, moved \/ o.auth)
<1>0. MachineRight(m, cs, trusted) /\ o \in Observations /\ o.first = o.last /\ (o.auth => trusted)
  BY DEF Arrives
<1>1. After(cs, o.first) /\ After(cs, o.last) /\ o.last \in Int /\ o.first \in Int /\ m.cur \in States
      /\ m.cur.last \in Int /\ m.cur.last <= o.last
  BY ArrivalFits DEF Arrives
<1>2. /\ k = Len(m.pend) /\ m.pend \in Seq(Observations) /\ k \in Nat
      /\ PendRight(m.pend, m.cur.last, cs, trusted)
      /\ m = [cur |-> m.cur, stab |-> m.stab, pend |-> m.pend, idx |-> m.idx, due |-> m.due]
  BY <1>0, PendTypes DEF MachineRight
<1>3. b \in States /\ b.found /\ b.loaded
  BY <1>0, <1>1, MovedState DEF Arrives
<1> HIDE DEF b
<1>4. cur \in States /\ cur.last = o.last /\ cur.found /\ cur.loaded
  BY <1>1, <1>3 DEF States
<1>5. z = IF k > 0 THEN [m EXCEPT !.cur = cur, !.due = due, !.pend[k] = p]
          ELSE [m EXCEPT !.cur = cur, !.stab = stab]
  BY DEF Repeat, b
<1> HIDE DEF z, cur, p
<1>6. CASE k > 0
  <2>1. m.pend # <<>> /\ k \in 1 .. k /\ Len(pend) = k
    BY <1>2, <1>6
  <2>2. ~m.stab.exists /\ m.stab.exists \in BOOLEAN
    BY <1>0, <2>1 DEF MachineRight, Known
  <2>3. z = [cur |-> cur, stab |-> m.stab, pend |-> pend, idx |-> k, due |-> due]
    BY <1>2, <1>5, <1>6
  <2> HIDE DEF due
  <2>4. PendRight(pend, o.last, cs, trusted)
    <3> DEFINE x == m.pend[k]
    <3>1. x \in Observations /\ x.last \in Int /\ x.last <= m.cur.last /\ (x.auth => trusted)
      BY <1>2, <2>1, PendTypes DEF PendRight
    <3>2. p = Until(x, o, moved)
      BY DEF p
    <3> HIDE DEF x
    <3>3. p \in Observations /\ p.first = x.first /\ p.last = o.last /\ (p.auth => x.auth \/ o.auth)
      BY <1>0, <3>1, <3>2, UntilFits
    <3>4. p.first = m.pend[Len(m.pend)].first /\ p.last >= m.pend[Len(m.pend)].last /\ p.last <= o.last
      BY <1>1, <1>2, <3>1, <3>3 DEF x
    <3>5. p.auth => trusted
      BY <1>0, <3>1, <3>3
    <3> HIDE DEF pend
    <3>6. PendRight([m.pend EXCEPT ![Len(m.pend)] = p], o.last, cs, trusted)
      BY <1>1, <1>2, <2>1, <3>3, <3>4, <3>5, LastChanged
    <3> QED BY <1>2, <3>6 DEF pend
  <2>5. Known(cur, m.stab, cs)
    BY <1>1, <1>4, <2>2 DEF Known
  <2> HIDE DEF pend
  <2>6. /\ z.cur = cur /\ z.stab = m.stab /\ z.pend = pend /\ z.idx = k
        /\ z = [cur |-> z.cur, stab |-> z.stab, pend |-> z.pend, idx |-> z.idx, due |-> z.due]
    BY <2>3
  <2> QED BY <1>4, <2>1, <2>2, <2>4, <2>5, <2>6 DEF MachineRight, z
<1>7. CASE ~(k > 0)
  <2>1. m.pend = <<>>
    BY <1>2, <1>7
  <2>2. z = [cur |-> cur, stab |-> stab, pend |-> m.pend, idx |-> k, due |-> m.due]
    BY <1>2, <1>5, <1>7
  <2>3. (moved \/ o.auth) \in BOOLEAN
    OBVIOUS
  <2>4. stab.exists = TRUE /\ DeferredRight(cur, stab, cs) /\ (stab.obs.auth => trusted /\ stab.immediate)
    <3> DEFINE immediate == moved \/ o.auth
    <3>1. stab = DeferStable(m.stab, o, immediate) /\ immediate \in BOOLEAN /\ (o.auth => immediate)
      OBVIOUS
    <3> HIDE DEF immediate, stab
    <3>2. stab.exists = TRUE /\ DeferredRight(cur, stab, cs)
      BY <1>4, <3>1, DeferredFits
    <3>3. stab.obs.auth => trusted /\ stab.immediate
      <4>1. DeferredTrust(stab, trusted)
        BY <1>4, <3>1, DeferredFits
      <4> QED BY <4>1 DEF DeferredTrust
    <3> QED BY <3>2, <3>3
  <2> HIDE DEF stab
  <2>5. Known(cur, stab, cs)
    BY <1>1, <1>4, <2>4 DEF Known
  <2>6. /\ z.cur = cur /\ z.stab = stab /\ z.pend = m.pend /\ z.idx = k
        /\ z = [cur |-> z.cur, stab |-> z.stab, pend |-> z.pend, idx |-> z.idx, due |-> z.due]
    BY <2>2
  <2>7. PendRight(m.pend, o.last, cs, trusted)
    BY <1>1, <1>2, PendStays
  <2> QED BY <1>2, <1>4, <2>1, <2>4, <2>5, <2>6, <2>7 DEF MachineRight, z
<1> QED BY <1>6, <1>7

\* Whatever an observation does to the machine.
LEMMA MergeKeeps ==
    ASSUME NEW m, NEW o, NEW cs, CyclesRight(cs), NEW trusted, MachineRight(m, cs, trusted), m.cur.loaded,
           o \in Observations, o.first = o.last, o.auth => trusted
    PROVE  MachineRight(Merge(m, o), cs, trusted) /\ Merge(m, o).cur.loaded
<1> DEFINE moved == MovesBoundary(m.cur, o)
<1>1. m.cur \in States /\ m.cur.last \in Int /\ o.last \in Int /\ m.cur.found \in BOOLEAN
  BY StateTypes, ObservationTypes DEF MachineRight, Known
<1>2. moved \in BOOLEAN
  BY ObservationTypes DEF MovesBoundary
<1>3. ~m.cur.found \/ ~Late(m.cur, o) => Arrives(m, o, cs, trusted)
  <2>1. m.cur.found /\ ~Late(m.cur, o) => m.cur.last <= o.last
    BY <1>1 DEF Late
  <2> QED BY <1>1, <2>1 DEF Arrives
<1>4. CASE ~m.cur.found
  <2>1. Merge(m, o) = Change(m, o)
    BY <1>4 DEF Merge
  <2> QED BY <1>3, <1>4, <2>1, ChangeKeeps
<1>5. CASE m.cur.found /\ Late(m.cur, o)
  <2>1. Merge(m, o) = m
    BY <1>5 DEF Merge
  <2> QED BY <2>1
<1>6. CASE m.cur.found /\ ~Late(m.cur, o)
  <2>1. \/ Merge(m, o) = Change(m, o)
        \/ Merge(m, o) = Calibrate(m, o) /\ o.last = m.cur.last
        \/ Merge(m, o) = m
        \/ Merge(m, o) = Repeat(m, o, moved)
    BY <1>6 DEF Merge
  <2>2. Arrives(m, o, cs, trusted) /\ m.cur.found
    BY <1>3, <1>6
  <2> HIDE DEF moved
  <2> QED BY <1>2, <2>1, <2>2, ChangeKeeps, CalibrateKeeps, RepeatKeeps
<1> QED BY <1>1, <1>4, <1>5, <1>6

\* What is recovered is what is stored (LoadLatestCodexQuotaHistoryState).
LEMMA RecoveredFits ==
    ASSUME NEW cs, CyclesRight(cs), NEW stab, stab.exists = FALSE
    PROVE  Known(Recovered(cs), stab, cs) /\ Recovered(cs).loaded
<1>1. CASE cs = <<>>
  <2>1. Recovered(cs) = [loaded |-> TRUE, found |-> FALSE, ws |-> 0, src |-> "relative",
                         reset |-> 0, pct |-> 0, last |-> 0]
    BY <1>1 DEF Recovered, Unloaded
  <2>2. Recovered(cs) \in States /\ Recovered(cs).found = FALSE /\ Recovered(cs).loaded = TRUE
    BY <2>1 DEF States, Sources
  <2> QED BY <1>1, <2>2 DEF Known
<1>2. CASE cs # <<>>
  <2> DEFINE i == LatestOf(cs)
             c == cs[i]
             n == Len(c.segs)
  <2>1. cs \in Seq(CycleRows) /\ DOMAIN cs = 1 .. Len(cs)
    BY DEF CyclesRight
  <2>2. i \in 1 .. Len(cs) /\ \A j \in 1 .. Len(cs) : cs[j].last < c.last \/ cs[j].last = c.last
    BY <1>2, <2>1, LatestIsThere
  <2>3. CycleRight(c) /\ c \in CycleRows /\ c.last \in Int
    BY <2>2, TailTypes DEF CyclesRight
  <2>4. c.segs \in Seq(SegmentRows) /\ n \in 1 .. n /\ Last(c.segs) = c.segs[n] /\ c.segs[n].last = c.last
    BY <2>3 DEF CycleRight, Falling, Last
  <2>5. c.segs[n].pct \in Int /\ c.segs[n].last \in Int
    BY <2>4, RowTypes
  <2>6. Recovered(cs) = [loaded |-> TRUE, found |-> TRUE, ws |-> c.ws, src |-> c.src,
                         reset |-> c.reset, pct |-> c.segs[n].pct, last |-> c.last]
    BY <1>2, <2>4 DEF Recovered
  <2>7. After(cs, c.last)
    BY <2>2, TailTypes DEF After
  <2> HIDE DEF c, n
  <2>8. /\ Recovered(cs) \in States /\ Recovered(cs).found = TRUE /\ Recovered(cs).loaded = TRUE
        /\ Recovered(cs).last = c.last
    BY <2>3, <2>5, <2>6, CycleTypes DEF States
  <2> QED BY <2>7, <2>8 DEF Known
<1> QED BY <1>1, <1>2

\* A trusted query of the batch observed this window.
TrustedIn(r) == \E b \in DOMAIN batch : Authoritative(batch[b].source) /\ r \in DOMAIN batch[b].obs

\* What a batch holds of a window: trusted only where a trusted query was.
LEMMA CandidatesFit ==
    ASSUME batch \in Seq(Inputs), NEW r \in Roles, NEW codex
    PROVE  /\ Candidates(r, codex) \in Seq(Observations)
           /\ \A i \in 1 .. Len(Candidates(r, codex)) :
                 /\ Candidates(r, codex)[i] \in Observations
                 /\ Candidates(r, codex)[i].first = Candidates(r, codex)[i].last
                 /\ Candidates(r, codex)[i].auth => TrustedIn(r)
<1> DEFINE kept == {i \in DOMAIN batch : Kept(batch[i], r, codex)}
           o(x) == [ws |-> x.obs[r].ws, src |-> x.obs[r].src, reset |-> x.obs[r].reset,
                    pct |-> x.obs[r].pct, first |-> x.at, last |-> x.at,
                    auth |-> Authoritative(x.source)]
           s == [i \in kept |-> o(batch[i])]
           z == Candidates(r, codex)
<1>1. z = ByTime(s)
  BY DEF Candidates
<1>2. \A i \in kept : batch[i] \in Inputs /\ r \in DOMAIN batch[i].obs /\ i \in DOMAIN batch
  BY DEF Kept
<1>3. ASSUME NEW i \in kept
      PROVE  /\ s[i] \in Observations /\ s[i].first = s[i].last
             /\ s[i].auth => TrustedIn(r)
  <2> DEFINE x == batch[i]
  <2>1. x \in Inputs /\ r \in DOMAIN x.obs /\ i \in DOMAIN batch
    BY <1>2
  <2>2. s[i] = o(x)
    OBVIOUS
  <2>3. x.at \in Int /\ x.obs[r] \in [ws : Int, src : {"relative", "absolute"}, reset : Int, pct : Int]
    BY <2>1, HistoryAssumption DEF HistoryAssumption
  <2>4. Authoritative(x.source) \in BOOLEAN
    BY DEF Authoritative
  <2>5. o(x) \in Observations /\ o(x).first = o(x).last
    BY <2>3, <2>4 DEF Observations, Sources
  <2>6. o(x).auth => TrustedIn(r)
    BY <2>1 DEF TrustedIn
  <2> QED BY <2>2, <2>5, <2>6
<1>4. kept \in SUBSET Int /\ IsFiniteSet(kept)
  <2>1. DOMAIN batch = 1 .. Len(batch) /\ Len(batch) \in Nat /\ kept \in SUBSET (1 .. Len(batch))
    OBVIOUS
  <2> HIDE DEF kept
  <2>2. IsFiniteSet(kept)
    BY <2>1, PlacesFinite
  <2> QED BY <2>1, <2>2
<1> HIDE DEF kept
<1>5. s \in [kept -> Observations]
  BY <1>3
<1> HIDE DEF s, z
<1>6. z \in Seq(Observations) /\ \A i \in DOMAIN z : \E d \in kept : z[i] = s[d]
  BY <1>1, <1>4, <1>5, ByTimeFits
<1>7. ASSUME NEW i \in 1 .. Len(z)
      PROVE  z[i] \in Observations /\ z[i].first = z[i].last /\ (z[i].auth => TrustedIn(r))
  <2>1. PICK d \in kept : z[i] = s[d]
    BY <1>6
  <2> QED BY <1>3, <2>1
<1> QED BY <1>6, <1>7 DEF z

\* What is remembered, deferred and stored of a window.
WindowRight(r) ==
    /\ CyclesRight(cycles[r])
    /\ Known(current[r], stable[r], cycles[r])
    /\ stable[r].exists => ~stable[r].obs.auth

\* The machine before the first candidate.
From(cur, stab) == [cur |-> cur, stab |-> stab, pend |-> <<>>, idx |-> 0, due |-> {}]
Start(r) == From(IF current[r].loaded THEN current[r] ELSE Recovered(cycles[r]), stable[r])

\* What a batch begins with is in order, remembered or recovered.
LEMMA StartFits ==
    ASSUME NEW r \in Roles, WindowRight(r), NEW trusted
    PROVE  /\ MachineRight(From(current[r], stable[r]), cycles[r], trusted)
           /\ MachineRight(Start(r), cycles[r], trusted) /\ Start(r).cur.loaded
<1> DEFINE cur == IF current[r].loaded THEN current[r] ELSE Recovered(cycles[r])
           cs == cycles[r]
<1>1. /\ CyclesRight(cs) /\ Known(current[r], stable[r], cs)
      /\ stable[r].exists \in BOOLEAN /\ (stable[r].exists => ~stable[r].obs.auth)
  BY DEF WindowRight, Known
<1>2. ASSUME NEW c, Known(c, stable[r], cs) PROVE MachineRight(From(c, stable[r]), cs, trusted)
  <2> DEFINE x == From(c, stable[r])
  <2>1. /\ x.cur = c /\ x.stab = stable[r] /\ x.pend = <<>> /\ x.idx = 0 /\ x.due = {}
        /\ x = [cur |-> x.cur, stab |-> x.stab, pend |-> x.pend, idx |-> x.idx, due |-> x.due]
    BY DEF From
  <2>2. PendRight(<<>>, c.last, cs, trusted) /\ Len(<<>>) = 0
    BY DEF PendRight, Chain
  <2> HIDE DEF x
  <2> QED BY <1>1, <1>2, <2>1, <2>2 DEF MachineRight, x
<1>3. Known(cur, stable[r], cs) /\ cur.loaded
  <2>1. CASE current[r].loaded
    BY <1>1, <2>1
  <2>2. CASE ~current[r].loaded
    <3>1. stable[r].exists = FALSE
      BY <1>1, <2>2 DEF Known
    <3> QED BY <1>1, <2>2, <3>1, RecoveredFits
  <2> QED BY <2>1, <2>2
<1>4. Start(r) = From(cur, stable[r])
  BY DEF Start
<1> HIDE DEF cur
<1>5. MachineRight(Start(r), cs, trusted) /\ Start(r).cur = cur
  BY <1>2, <1>3, <1>4 DEF From
<1> QED BY <1>1, <1>2, <1>3, <1>5

\* Observations of a moment each.
Arrivals(cands, trusted) ==
    /\ cands \in Seq(Observations)
    /\ \A i \in 1 .. Len(cands) : cands[i].first = cands[i].last /\ (cands[i].auth => trusted)

\* The machine after each of the candidates.
LEMMA RememberedFits ==
    ASSUME NEW cs, CyclesRight(cs), NEW trusted, NEW s, MachineRight(s, cs, trusted), s.cur.loaded,
           NEW cands, Arrivals(cands, trusted)
    PROVE  \A n \in 0 .. Len(cands) : /\ MachineRight(Remembered(s, cands)[n], cs, trusted)
                                      /\ Remembered(s, cands)[n].cur.loaded
<1> DEFINE W == Remembered(s, cands)
           N == Len(cands)
           Good(n) == MachineRight(W[n], cs, trusted) /\ W[n].cur.loaded
           Bad == {n \in 0 .. N : ~Good(n)}
<1>1. /\ N \in Nat
      /\ \A i \in 1 .. N : /\ cands[i] \in Observations /\ cands[i].first = cands[i].last
                           /\ cands[i].auth => trusted
  BY DEF Arrivals
<1>2. W[0] = s /\ \A n \in 1 .. N : W[n] = Merge(W[n - 1], cands[n])
  BY <1>1, MergingRuns
<1> HIDE DEF W, N
<1> SUFFICES ASSUME Bad # {} PROVE FALSE
  BY DEF W, N
<1>3. Bad \subseteq Nat
  BY <1>1
<1>4. PICK n \in Bad : \A k \in Bad : n <= k
  BY <1>3, NaturalsHaveLeast
<1>5. n \in 0 .. N /\ n \in Nat /\ ~Good(n)
  BY <1>3
<1>6. n # 0
  BY <1>2, <1>5
<1>7. n - 1 \in 0 .. N /\ n - 1 \notin Bad /\ n \in 1 .. N
  BY <1>1, <1>4, <1>5, <1>6
<1>8. MachineRight(W[n - 1], cs, trusted) /\ W[n - 1].cur.loaded
  BY <1>7
<1>9. /\ MachineRight(Merge(W[n - 1], cands[n]), cs, trusted)
      /\ Merge(W[n - 1], cands[n]).cur.loaded
  BY <1>1, <1>7, <1>8, MergeKeeps
<1> QED BY <1>2, <1>5, <1>7, <1>9

\* The machine after a whole batch: nothing happened, or it took all the candidates.
LEMMA MergedIs ==
    ASSUME NEW r \in Roles, NEW codex, NEW loadable
    PROVE  \/ Merged(r, codex, loadable) = From(current[r], stable[r])
           \/ /\ Candidates(r, codex) # <<>>
              /\ Merged(r, codex, loadable)
                    = Remembered(Start(r), Candidates(r, codex))[Len(Candidates(r, codex))]
<1> DEFINE cands == Candidates(r, codex)
<1>1. Merged(r, codex, loadable) = IF cands = <<>> \/ (~current[r].loaded /\ ~loadable)
                                   THEN From(current[r], stable[r]) ELSE Remembered(Start(r), cands)[Len(cands)]
  BY DEF Merged, Start, From
<1> HIDE DEF cands
<1> QED BY <1>1 DEF cands

\* The machine after a whole batch.
LEMMA MergedFits ==
    ASSUME batch \in Seq(Inputs), NEW r \in Roles, WindowRight(r), NEW codex, NEW loadable
    PROVE  MachineRight(Merged(r, codex, loadable), cycles[r], TrustedIn(r))
<1> DEFINE cands == Candidates(r, codex)
           m == Merged(r, codex, loadable)
           N == Len(cands)
<1>1. m = From(current[r], stable[r]) \/ m = Remembered(Start(r), cands)[N]
  BY MergedIs
<1>2. Arrivals(cands, TrustedIn(r)) /\ N \in Nat
  BY CandidatesFit DEF Arrivals
<1>3. CyclesRight(cycles[r])
  BY DEF WindowRight
<1> HIDE DEF m, cands
<1>4. \A n \in 0 .. N : MachineRight(Remembered(Start(r), cands)[n], cycles[r], TrustedIn(r))
  BY <1>2, <1>3, StartFits, RememberedFits
<1>5. N \in 0 .. N
  BY <1>2
<1> QED BY <1>1, <1>4, <1>5, StartFits DEF m

\* What a batch writes of a window.
LEMMA PendingFits ==
    ASSUME NEW cs, NEW trusted, NEW m, MachineRight(m, cs, trusted), NEW due
    PROVE  /\ PendRight(Pending(m, due), m.cur.last, cs, trusted)
           /\ Pending(m, due) # <<>> => m.cur.found
           /\ m.stab.exists /\ m.stab.obs.last \notin due => Pending(m, due) = <<>>
<1> DEFINE x == m.pend \o IF m.stab.exists /\ m.stab.obs.last \in due THEN Deferred(m) ELSE <<>>
           z == Pending(m, due)
<1>1. z = ByTime(x)
  BY DEF Pending
<1>2. m.pend \in Seq(Observations) /\ m.pend \o <<>> = m.pend
  <2>1. m.pend \in Seq(Observations)
    BY PendTypes DEF MachineRight
  <2> QED BY <2>1
<1>3. PendRight(x, m.cur.last, cs, trusted) /\ (x # <<>> => m.cur.found)
  <2>1. CASE m.stab.exists /\ m.stab.obs.last \in due
    <3>1. x = m.pend \o Deferred(m)
      BY <2>1
    <3> QED BY <3>1, AllOfIt
  <2>2. CASE ~(m.stab.exists /\ m.stab.obs.last \in due)
    <3>1. x = m.pend
      BY <1>2, <2>2
    <3> QED BY <3>1 DEF MachineRight
  <2> QED BY <2>1, <2>2
<1>4. m.stab.exists /\ m.stab.obs.last \notin due => x = <<>>
  BY <1>2 DEF MachineRight
<1> HIDE DEF x, z
<1>5. /\ Chain(z)
      /\ \A i \in DOMAIN z : \E d \in DOMAIN x : z[i] = x[d]
      /\ \A d \in DOMAIN x : \E i \in DOMAIN z : z[i] = x[d]
  BY <1>1, <1>3, ChainSorted DEF PendRight
<1>6. x \in Seq(Observations) /\ DOMAIN x = 1 .. Len(x)
  BY <1>3, PendTypes
<1>7. z \in Seq(Observations) /\ DOMAIN z = 1 .. Len(z) /\ Len(z) \in Nat
  BY <1>5 DEF Chain
<1>8. x = <<>> => z = <<>>
  <2> SUFFICES ASSUME x = <<>>, z # <<>> PROVE FALSE
      OBVIOUS
  <2>1. 1 \in DOMAIN z
    BY <1>7
  <2> QED BY <1>5, <2>1
<1>9. ASSUME NEW i \in 1 .. Len(z)
      PROVE  z[i].last <= m.cur.last /\ After(cs, z[i].first) /\ (z[i].auth => trusted)
  <2>1. PICK d \in DOMAIN x : z[i] = x[d]
    BY <1>5, <1>7
  <2> QED BY <1>3, <1>6, <2>1 DEF PendRight
<1>10. PendRight(z, m.cur.last, cs, trusted)
  BY <1>5, <1>9 DEF PendRight
<1> QED BY <1>3, <1>4, <1>8, <1>10 DEF z

\* What is stored (z), current (c) and deferred (s) after a write of the machine m,
\* which may have stopped anywhere; then nothing is remembered.
FlushedTo(m, p, due, cs, z, c, s) ==
    /\ m.stab.exists /\ m.stab.immediate => m.stab.obs.last \in due
    /\ p = Pending(m, due) /\ \E k \in 0 .. Len(p) : z = Written(cs, p)[k]
    /\ \/ c = Unloaded /\ s = NoStable
       \/ /\ c = m.cur
          /\ s = IF m.stab.exists /\ m.stab.obs.last \in due THEN NoStable ELSE m.stab
          /\ z = Written(cs, p)[Len(p)] \/ p = <<>>

KeptFrom(cs, trusted, z, c, s) ==
    /\ CyclesRight(z) /\ Known(c, s, z)
    /\ s.exists => ~s.obs.auth
    /\ Len(cs) <= Len(z)
    /\ ~trusted => NotRaised(cs, z)

\* A write, whatever its outcome, leaves a window in order.
LEMMA WindowFlushed ==
    ASSUME NEW cs, CyclesRight(cs), NEW trusted, NEW m, MachineRight(m, cs, trusted), NEW due,
           NEW p, NEW z, NEW c, NEW s, FlushedTo(m, p, due, cs, z, c, s)
    PROVE  KeptFrom(cs, trusted, z, c, s)
<1>0. /\ m.stab.exists /\ m.stab.immediate => m.stab.obs.last \in due
      /\ p = Pending(m, due) /\ \E k \in 0 .. Len(p) : z = Written(cs, p)[k]
      /\ \/ c = Unloaded /\ s = NoStable
         \/ /\ c = m.cur
            /\ s = IF m.stab.exists /\ m.stab.obs.last \in due THEN NoStable ELSE m.stab
            /\ z = Written(cs, p)[Len(p)] \/ p = <<>>
  BY DEF FlushedTo
<1> DEFINE W == Written(cs, p)
           N == Len(p)
<1>1. /\ PendRight(p, m.cur.last, cs, trusted)
      /\ p # <<>> => m.cur.found
      /\ m.stab.exists /\ m.stab.obs.last \notin due => p = <<>>
  BY <1>0, PendingFits
<1>2. p \in Seq(Observations) /\ N \in Nat
  BY <1>1, PendTypes
<1>3. N = 0 <=> p = <<>>
  BY <1>2
<1>4. p = <<>> => W[N] = cs
  BY <1>2, <1>3, WrittenRuns
<1>10. \A n \in 1 .. N : WrittenSoFar(cs, p, W[n], n)
  BY <1>1, WrittenStored DEF PendRight
<1>5. p # <<>> => N \in 1 .. N /\ WrittenSoFar(cs, p, W[N], N)
  BY <1>2, <1>3, <1>10
<1>11. W[0] = cs
  BY <1>2, WrittenRuns
<1> HIDE DEF W
<1>6. NotRaised(cs, cs) /\ Len(cs) <= Len(cs) /\ Len(cs) \in Nat
  BY TailTypes DEF NotRaised
<1>7. CyclesRight(z) /\ Len(cs) <= Len(z) /\ (~trusted => NotRaised(cs, z))
  <2>0. PICK k \in 0 .. N : z = W[k]
    BY <1>0 DEF W
  <2>1. CASE k = 0
    BY <1>6, <1>11, <2>0, <2>1
  <2>2. CASE k # 0
    <3>0. k \in 1 .. N
      BY <1>2, <2>2
    <3>1. WrittenSoFar(cs, p, z, k)
      BY <1>10, <2>0, <3>0
    <3>2. ~trusted => \A i \in 1 .. N : ~p[i].auth
      BY <1>1 DEF PendRight
    <3> QED BY <3>1, <3>2 DEF WrittenSoFar
  <2> QED BY <2>1, <2>2
<1>8. CASE c = Unloaded /\ s = NoStable
  <2>1. Unloaded \in States /\ Unloaded.found = FALSE /\ Unloaded.loaded = FALSE /\ NoStable.exists = FALSE
    BY DEF Unloaded, States, Sources, NoStable
  <2> QED BY <1>7, <1>8, <2>1 DEF Known, KeptFrom
<1>9. CASE /\ c = m.cur
           /\ s = IF m.stab.exists /\ m.stab.obs.last \in due THEN NoStable ELSE m.stab
           /\ z = Written(cs, p)[Len(p)] \/ p = <<>>
  <2>0. z = W[N]
    BY <1>0, <1>4, <1>9 DEF W
  <2>1. Known(m.cur, m.stab, cs) /\ m.cur \in States /\ m.cur.last \in Int /\ m.stab.exists \in BOOLEAN
    BY StateTypes DEF MachineRight, Known
  <2>2. NoStable.exists = FALSE
    BY DEF NoStable
  <2>3. c.found => After(z, c.last)
    <3>1. CASE p = <<>>
      BY <1>4, <1>9, <2>0, <2>1, <3>1 DEF Known
    <3>2. CASE p # <<>>
      <4>1. CyclesRight(z) /\ After(z, p[N].last)
        BY <1>5, <2>0, <3>2 DEF WrittenSoFar
      <4>2. p[N].last \in Int /\ p[N].last <= c.last
        BY <1>1, <1>5, <1>9, <3>2, PendTypes DEF PendRight
      <4> QED BY <1>9, <2>1, <4>1, <4>2, LaterStays
    <3> QED BY <3>1, <3>2
  <2>4. c.loaded /\ ~c.found => z = <<>>
    BY <1>1, <1>4, <1>9, <2>0, <2>1 DEF Known
  <2>5. CASE s = NoStable
    BY <1>7, <1>9, <2>1, <2>2, <2>3, <2>4, <2>5 DEF Known, KeptFrom
  <2>6. CASE s = m.stab /\ ~(m.stab.exists /\ m.stab.obs.last \in due)
    <3>1. m.stab.exists => z = cs
      BY <1>1, <1>4, <2>0, <2>6
    <3>2. s.exists => DeferredRight(c, s, z)
      BY <1>9, <2>1, <2>6, <3>1 DEF Known
    <3>3. Known(c, s, z)
      BY <1>9, <2>1, <2>3, <2>4, <2>6, <3>2 DEF Known
    <3>4. s.exists => ~s.obs.auth
      BY <1>0, <2>6 DEF MachineRight
    <3> QED BY <1>7, <3>3, <3>4 DEF KeptFrom
  <2> QED BY <1>9, <2>5, <2>6
<1> QED BY <1>0, <1>8, <1>9

\* Repetitions are written because they must, or with what was seen at the same time.
Together(m, due) ==
    \A q \in Roles : m[q].stab.exists /\ (m[q].stab.immediate \/ \E r \in Roles : m[q].stab.obs.last \in m[r].due)
                      => m[q].stab.obs.last \in due

\* Nothing or all of p is stored, or the time it is stored up to is noted.
Noticed(p, cs, z, times, times1) ==
    /\ times \subseteq times1
    /\ z = cs \/ z = Written(cs, p)[Len(p)] \/ Recovered(z).last \in times1

\* What each window becomes of the machine m[r].
BatchFlushes(codex, m, due) ==
    /\ \A r \in Roles : m[r] = Merged(r, codex, TRUE) \/ m[r] = Merged(r, codex, FALSE)
    /\ Together(m, due)
    /\ \A r \in Roles : FlushedTo(m[r], Pending(m[r], due), due, cycles[r], cycles'[r], current'[r], stable'[r])
    /\ \A r \in Roles : Noticed(Pending(m[r], due), cycles[r], cycles'[r], split[r], split'[r])

\* What a batch does to the windows: machines that are merged, the times that are
\* due together, and one write (processCodexMainQuotaHistoryBatch).
LEMMA ProcessFlushes ==
    ASSUME batch \in Seq(Inputs), \A r \in Roles : WindowRight(r), ProcessBatch
    PROVE  \E codex, m, due : BatchFlushes(codex, m, due)
<1>1. PICK codex \in BOOLEAN, unloadable \in SUBSET {r \in Roles : ~current[r].loaded} :
         \E m \in {[r \in Roles |-> Merged(r, codex, r \notin unloadable)]} :
         \E beat \in SUBSET {r \in Roles : m[r].stab.exists} :
         \E due \in {DueTimes(m, beat)} : Flush(m, due)
  BY DEF ProcessBatch
<1> DEFINE m == [r \in Roles |-> Merged(r, codex, r \notin unloadable)]
<1>2. PICK beat \in SUBSET {r \in Roles : m[r].stab.exists} :
         \E due \in {DueTimes(m, beat)} : Flush(m, due)
  BY <1>1
<1> DEFINE due == DueTimes(m, beat)
<1>3. Flush(m, due)
  BY <1>2
<1>4. \A r \in Roles : m[r] = Merged(r, codex, TRUE) \/ m[r] = Merged(r, codex, FALSE)
  <2> SUFFICES ASSUME NEW r \in Roles PROVE m[r] = Merged(r, codex, TRUE) \/ m[r] = Merged(r, codex, FALSE)
      OBVIOUS
  <2>1. m[r] = Merged(r, codex, r \notin unloadable) /\ (r \notin unloadable) \in BOOLEAN
    OBVIOUS
  <2> HIDE DEF m
  <2>2. CASE r \in unloadable
    <3>1. (r \notin unloadable) = FALSE
      BY <2>2
    <3> QED BY <2>1, <3>1
  <2>3. CASE r \notin unloadable
    <3>1. (r \notin unloadable) = TRUE
      BY <2>3
    <3> QED BY <2>1, <3>1
  <2> QED BY <2>2, <2>3
<1> HIDE DEF m
<1>5. Together(m, due)
  BY DEF DueTimes, Together
<1> HIDE DEF due
<1>0. ASSUME NEW r \in Roles PROVE Len(Pending(m[r], due)) \in Nat
  <2>1. MachineRight(Merged(r, codex, TRUE), cycles[r], TrustedIn(r))
        /\ MachineRight(Merged(r, codex, FALSE), cycles[r], TrustedIn(r))
    BY MergedFits
  <2>2. MachineRight(m[r], cycles[r], TrustedIn(r))
    BY <1>4, <2>1
  <2>3. PendRight(Pending(m[r], due), m[r].cur.last, cycles[r], TrustedIn(r))
    BY <2>2, PendingFits
  <2> QED BY <2>3, PendTypes
<1> DEFINE written(pend, steps, cut, failed) ==
               /\ Possible(pend, steps, cut, failed) /\ Store(pend, steps, cut)
               /\ current' = [r \in Roles |->
                    IF pend[r] # <<>> /\ failed THEN Unloaded ELSE m[r].cur]
               /\ stable' = [r \in Roles |->
                    IF (pend[r] # <<>> /\ failed)
                       \/ (m[r].stab.exists /\ m[r].stab.obs.last \in due)
                    THEN NoStable ELSE m[r].stab]
<1>8. \E pend \in {[r \in Roles |-> Pending(m[r], due)]} :
      \E steps \in {[r \in Roles |-> Written(cycles[r], pend[r])]} :
      \E cut \in Cuts(pend), failed \in BOOLEAN : written(pend, steps, cut, failed)
  BY <1>3, Zenon DEF Flush
<1> HIDE DEF written
<1>9. PICK pend \in {[r \in Roles |-> Pending(m[r], due)]} :
      \E steps \in {[r \in Roles |-> Written(cycles[r], pend[r])]} :
      \E cut \in Cuts(pend), failed \in BOOLEAN : written(pend, steps, cut, failed)
  BY <1>8
<1>10. PICK steps \in {[r \in Roles |-> Written(cycles[r], pend[r])]} :
      \E cut \in Cuts(pend), failed \in BOOLEAN : written(pend, steps, cut, failed)
  BY <1>9
<1>6. PICK cut \in Cuts(pend), failed \in BOOLEAN : written(pend, steps, cut, failed)
  BY <1>10
<1>12. ASSUME NEW r \in Roles PROVE cut[r] \in 0 .. Len(Pending(m[r], due))
  <2>0. PICK q \in Roles : \E n \in 0 .. Len(pend[q]) : cut = Stopped(pend, q, n)
    BY DEF Cuts
  <2>1. PICK n \in 0 .. Len(pend[q]) : cut = Stopped(pend, q, n)
    BY <2>0
  <2>2. pend[r] = Pending(m[r], due)
    BY <1>9
  <2>3. cut[r] \in {n, Len(pend[r]), 0} /\ (cut[r] = n => r = q \/ n \in {Len(pend[r]), 0})
    BY <2>1 DEF Stopped
  <2> QED BY <1>0, <1>9, <2>2, <2>3
<1>7. ASSUME NEW r \in Roles
      PROVE  /\ FlushedTo(m[r], Pending(m[r], due), due, cycles[r], cycles'[r], current'[r], stable'[r])
             /\ Noticed(Pending(m[r], due), cycles[r], cycles'[r], split[r], split'[r])
  <2> DEFINE p == Pending(m[r], due)
             W == Written(cycles[r], p)
             forgotten == p # <<>> /\ failed
             k == cut[r]
  <2>1. /\ cycles'[r] = W[k]
        /\ split'[r] = IF k \in {0, Len(p)} THEN split[r] ELSE split[r] \cup {Recovered(W[k]).last}
        /\ current'[r] = IF forgotten THEN Unloaded ELSE m[r].cur
        /\ stable'[r] = IF forgotten \/ (m[r].stab.exists /\ m[r].stab.obs.last \in due)
                        THEN NoStable ELSE m[r].stab
        /\ ~failed => k = Len(p)
    <3>1. pend[r] = p /\ steps[r] = W
      BY <1>9, <1>10
    <3> HIDE DEF p, W
    <3> QED BY <1>6, <3>1 DEF written, Possible, Store
  <2> DEFINE z == cycles'[r]
             c == current'[r]
             s == stable'[r]
  <2>2. Len(p) \in Nat
    BY <1>0
  <2>3. k \in 0 .. Len(p) /\ z = W[k]
    BY <1>12, <2>1, <2>2
  <2>4. \/ c = Unloaded /\ s = NoStable
        \/ /\ c = m[r].cur
           /\ s = IF m[r].stab.exists /\ m[r].stab.obs.last \in due THEN NoStable ELSE m[r].stab
           /\ z = W[Len(p)] \/ p = <<>>
    <3>1. CASE forgotten
      BY <2>1, <3>1
    <3>2. CASE ~forgotten
      BY <2>1, <3>2
    <3> QED BY <3>1, <3>2
  <2>5. p = Pending(m[r], due) /\ W = Written(cycles[r], p)
    OBVIOUS
  <2>6. m[r].stab.exists /\ m[r].stab.immediate => m[r].stab.obs.last \in due
    BY <1>5 DEF Together
  <2>8. W[0] = cycles[r]
    BY <2>2, WrittenRuns
  <2> HIDE DEF p, z, c, s, W, k
  <2>7. FlushedTo(m[r], p, due, cycles[r], z, c, s)
    BY <2>3, <2>4, <2>5, <2>6 DEF FlushedTo
  <2>9. Noticed(p, cycles[r], z, split[r], split'[r])
    BY <2>1, <2>3, <2>5, <2>8 DEF Noticed, z
  <2> QED BY <2>7, <2>9 DEF p, z, c, s
<1>11. BatchFlushes(codex, m, due)
  BY <1>4, <1>5, <1>7 DEF BatchFlushes
<1> QED BY <1>11

\* A batch keeps what is stored and remembered right, and raises nothing but for a trusted query.
WindowKept(r) ==
    /\ WindowRight(r)'
    /\ Len(cycles[r]) <= Len(cycles'[r])
    /\ ~TrustedIn(r) => NotRaised(cycles[r], cycles'[r])

\* One batch, for one window.
LEMMA ProcessKeeps ==
    ASSUME batch \in Seq(Inputs), \A r \in Roles : WindowRight(r), ProcessBatch
    PROVE  \A r \in Roles : WindowKept(r)
<1>1. PICK codex, m, due : BatchFlushes(codex, m, due)
  BY ProcessFlushes
<1>2. ASSUME NEW r \in Roles PROVE WindowKept(r)
  <2> DEFINE mm == m[r]
             cs == cycles[r]
             trusted == TrustedIn(r)
             p == Pending(m[r], due)
             z == cycles'[r]
             c == current'[r]
             s == stable'[r]
  <2>1. CyclesRight(cs) /\ MachineRight(mm, cs, trusted)
    <3>1. mm = Merged(r, codex, TRUE) \/ mm = Merged(r, codex, FALSE)
      BY <1>1 DEF BatchFlushes
    <3>2. MachineRight(Merged(r, codex, TRUE), cs, trusted) /\ MachineRight(Merged(r, codex, FALSE), cs, trusted)
      BY MergedFits
    <3> HIDE DEF mm
    <3> QED BY <3>1, <3>2 DEF WindowRight
  <2>2. FlushedTo(mm, p, due, cs, z, c, s)
    BY <1>1 DEF BatchFlushes
  <2> HIDE DEF p, z, c, s, mm, cs, trusted
  <2>3. KeptFrom(cs, trusted, z, c, s)
    BY <2>1, <2>2, WindowFlushed
  <2> QED BY <2>3 DEF KeptFrom, cs, trusted, WindowKept, WindowRight, z, c, s
<1> QED BY <1>2

HistoryInv == batch \in Seq(Inputs) /\ \A r \in Roles : WindowRight(r)

\* What is taken from the queues are inputs.
LEMMA BatchNext == ASSUME batch \in Seq(Inputs), QueueInv, [Next]_vars PROVE (batch \in Seq(Inputs))'
<1>1. CASE ReceiveHeader
  BY <1>1 DEF ReceiveHeader, QueueInv, QueuesTyped
<1>2. CASE ReceiveTrusted
  BY <1>2 DEF ReceiveTrusted, QueueInv, QueuesTyped
<1>3. CASE batch' = <<>>
  BY <1>3
<1>4. CASE UNCHANGED batch
  BY <1>4
<1>5. batch' = <<>> \/ UNCHANGED batch \/ ReceiveHeader \/ ReceiveTrusted
  BY Zenon DEF Next, Runner, AppendInput, FindFull, FinishPush, DropHead, SendAgain,
     CloseHistory, WakeForHeaders, LookAtQueue,
     TakeCounts, ProcessBatch, Crash, vars, takeVars
<1> QED BY <1>1, <1>2, <1>3, <1>4, <1>5

\* No step disorders a window, or raises it without a trusted query.
LEMMA HistoryNext ==
    ASSUME HistoryInv, [Next]_vars
    PROVE  \A r \in Roles : WindowKept(r)
<1>1. CASE UNCHANGED <<current, stable, cycles>>
  <2> SUFFICES ASSUME NEW r \in Roles PROVE WindowKept(r)
      OBVIOUS
  <2>1. WindowRight(r)
    BY DEF HistoryInv
  <2>2. cycles' = cycles /\ current' = current /\ stable' = stable
    BY <1>1
  <2>3. NotRaised(cycles[r], cycles[r]) /\ Len(cycles[r]) <= Len(cycles[r])
    BY <2>1, TailTypes DEF WindowRight, NotRaised
  <2> QED BY <2>1, <2>2, <2>3 DEF WindowRight, WindowKept
<1>2. CASE ProcessBatch
  BY <1>2, ProcessKeeps DEF HistoryInv
<1>3. CASE Crash
  <2> SUFFICES ASSUME NEW r \in Roles PROVE WindowKept(r)
      OBVIOUS
  <2>1. WindowRight(r)
    BY DEF HistoryInv
  <2>2. cycles' = cycles /\ current'[r] = Unloaded /\ stable'[r] = NoStable
    BY <1>3 DEF Crash
  <2>3. NotRaised(cycles[r], cycles[r]) /\ Len(cycles[r]) <= Len(cycles[r])
    BY <2>1, TailTypes DEF WindowRight, NotRaised
  <2>4. Unloaded \in States /\ Unloaded.found = FALSE /\ Unloaded.loaded = FALSE /\ NoStable.exists = FALSE
    BY DEF Unloaded, States, Sources, NoStable
  <2>5. Known(current'[r], stable'[r], cycles'[r])
    BY <2>2, <2>4 DEF Known
  <2> QED BY <2>1, <2>2, <2>3, <2>4, <2>5 DEF WindowRight, WindowKept
<1>4. UNCHANGED <<current, stable, cycles>> \/ ProcessBatch \/ Crash
  BY Zenon DEF Next, Runner, AppendInput, FindFull, FinishPush, DropHead, SendAgain,
     CloseHistory, WakeForHeaders, LookAtQueue,
     TakeCounts, ReceiveHeader, ReceiveTrusted, vars, stateVars
<1> QED BY <1>1, <1>2, <1>3, <1>4

\* Nothing is stored at first.
LEMMA HistoryInit == Init => HistoryInv
<1> SUFFICES ASSUME Init PROVE HistoryInv
    OBVIOUS
<1>1. batch \in Seq(Inputs)
  BY DEF Init
<1>2. ASSUME NEW r \in Roles PROVE WindowRight(r)
  <2>1. cycles[r] = <<>> /\ current[r] = Unloaded /\ stable[r] = NoStable
    BY DEF Init
  <2>2. Unloaded \in States /\ Unloaded.found = FALSE /\ Unloaded.loaded = FALSE /\ NoStable.exists = FALSE
    BY DEF Unloaded, States, Sources, NoStable
  <2>3. CyclesRight(<<>>)
    BY DEF CyclesRight
  <2>4. Known(Unloaded, NoStable, <<>>)
    BY <2>2 DEF Known
  <2> QED BY <2>1, <2>2, <2>3, <2>4 DEF WindowRight
<1> QED BY <1>1, <1>2 DEF HistoryInv

\* The windows stay in order.
LEMMA HistoryStays == Spec => [](QueueInv /\ HistoryInv)
<1>1. HistoryInv /\ QueueInv /\ [Next]_vars => HistoryInv'
  <2> SUFFICES ASSUME HistoryInv, QueueInv, [Next]_vars PROVE HistoryInv'
      OBVIOUS
  <2>1. (batch \in Seq(Inputs))'
    BY BatchNext DEF HistoryInv
  <2>2. \A r \in Roles : WindowRight(r)'
    BY HistoryNext DEF WindowKept
  <2> QED BY <2>1, <2>2 DEF HistoryInv
<1> QED BY <1>1, HistoryInit, QueuesInOrder, PTL DEF Spec

\* Segments of a cycle fall and do not overlap, for any inputs, crashes and
\* failed writes (repository/codex_quota_history.go): the memory
\* (quota/codex_quota_history_scheduler.go) never writes what is earlier.
THEOREM SegmentsKeepFalling == Spec => []SegmentsFall
<1>1. HistoryInv => SegmentsFall
  <2> SUFFICES ASSUME HistoryInv, NEW r \in Roles, NEW i \in DOMAIN cycles[r]
               PROVE  LET c == cycles[r][i] IN
                        /\ c.last = Last(c.segs).last
                        /\ \A j \in DOMAIN c.segs : c.segs[j].first <= c.segs[j].last
                        /\ \A j \in 1 .. Len(c.segs) - 1 :
                             /\ c.segs[j + 1].pct < c.segs[j].pct
                             /\ c.segs[j].last < c.segs[j + 1].first
      BY DEF SegmentsFall
  <2> DEFINE c == cycles[r][i]
             n == Len(c.segs)
  <2>1. CycleRight(c)
    BY DEF HistoryInv, WindowRight, CyclesRight
  <2> HIDE DEF c
  <2>2. /\ c.segs \in Seq(SegmentRows) /\ n \in Nat /\ n > 0 /\ DOMAIN c.segs = 1 .. n
        /\ c.last = c.segs[n].last /\ Last(c.segs) = c.segs[n]
        /\ \A j \in 1 .. n : c.segs[j].first <= c.segs[j].last
        /\ \A j, k \in 1 .. n : j < k => c.segs[k].pct < c.segs[j].pct /\ c.segs[j].last < c.segs[k].first
    BY <2>1 DEF CycleRight, Falling, Last
  <2>3. \A j \in 1 .. n - 1 : j \in 1 .. n /\ j + 1 \in 1 .. n /\ j < j + 1
    BY <2>2
  <2> HIDE DEF n
  <2>4. \A j \in 1 .. n - 1 : c.segs[j + 1].pct < c.segs[j].pct /\ c.segs[j].last < c.segs[j + 1].first
    BY <2>2, <2>3
  <2> QED BY <2>2, <2>4 DEF c, n
<1> QED BY <1>1, HistoryStays, PTL

\* No batch without a trusted query of the window raises a percentage that is
\* stored (correctQuotaPercentTail is reached by authoritative observations only).
THEOREM TrustedAloneRaises == Spec => OnlyTrustedRaises
<1> DEFINE Raised == \A r \in Roles : \A i \in DOMAIN cycles[r] :
         Last(cycles'[r][i].segs).pct > Last(cycles[r][i].segs).pct
            => \E b \in DOMAIN batch : /\ Authoritative(batch[b].source)
                                       /\ r \in DOMAIN batch[b].obs
<1>1. HistoryInv /\ [Next]_vars => Raised
  <2> SUFFICES ASSUME HistoryInv, [Next]_vars, NEW r \in Roles, NEW i \in DOMAIN cycles[r],
                      ~TrustedIn(r)
               PROVE  ~(Last(cycles'[r][i].segs).pct > Last(cycles[r][i].segs).pct)
      BY DEF TrustedIn
  <2>1. WindowKept(r)
    BY HistoryNext
  <2> DEFINE a == cycles[r]
             z == cycles'[r]
  <2>2. CyclesRight(a) /\ CyclesRight(z) /\ NotRaised(a, z)
    BY <2>1 DEF HistoryInv, WindowRight, WindowKept
  <2>3. i \in 1 .. Len(a)
    BY <2>2 DEF CyclesRight
  <2> HIDE DEF a, z
  <2>4. i \in 1 .. Len(z) /\ TailPct(z[i]) <= TailPct(a[i])
    BY <2>2, <2>3, TailTypes DEF NotRaised
  <2>5. TailPct(z[i]) \in Int /\ TailPct(a[i]) \in Int
    BY <2>2, <2>3, <2>4, TailTypes
  <2>6. Last(z[i].segs).pct = TailPct(z[i]) /\ Last(a[i].segs).pct = TailPct(a[i])
    BY DEF Last, TailPct
  <2> QED BY <2>4, <2>5, <2>6 DEF a, z
<1>2. HistoryInv /\ [Next]_vars => [Raised]_vars
  BY <1>1
<1> QED BY <1>2, HistoryStays, PTL DEF Spec, OnlyTrustedRaises

-----------------------------------------------------------------------------
(* What is in the order of time is sorted into itself.                        *)

\* Numbers in their order, each of them once, are at their own places.
Ascending(f, k, n) ==
    /\ f \in [1 .. k -> 1 .. n]
    /\ \A d \in 1 .. n : \E i \in 1 .. k : f[i] = d
    /\ \A i, j \in 1 .. k : i < j => f[i] < f[j]

\* An ascending function onto a range is the identity.
LEMMA OrderedIsIdentity ==
    ASSUME NEW n \in Nat, NEW k \in Nat, NEW f, Ascending(f, k, n)
    PROVE  k = n /\ \A i \in 1 .. k : f[i] = i
<1>0. /\ f \in [1 .. k -> 1 .. n]
      /\ \A d \in 1 .. n : \E i \in 1 .. k : f[i] = d
      /\ \A i, j \in 1 .. k : i < j => f[i] < f[j]
  BY DEF Ascending
<1> DEFINE Bad == {i \in 1 .. k : f[i] # i}
<1>1. Bad = {}
  <2> SUFFICES ASSUME Bad # {} PROVE FALSE
      OBVIOUS
  <2>1. Bad \subseteq Nat
    OBVIOUS
  <2>2. PICK i \in Bad : \A j \in Bad : i <= j
    BY <2>1, NaturalsHaveLeast
  <2>3. i \in 1 .. k /\ f[i] # i /\ f[i] \in 1 .. n
    BY <1>0
  <2>4. \A j \in 1 .. k : j < i => f[j] = j
    BY <2>2, <2>3
  <2>5. f[i] > i
    <3>1. CASE i = 1
      BY <2>3, <3>1
    <3>2. CASE i # 1
      <4>1. i - 1 \in 1 .. k /\ i - 1 < i
        BY <2>3, <3>2
      <4>2. f[i - 1] = i - 1 /\ f[i - 1] < f[i]
        BY <1>0, <2>3, <2>4, <4>1
      <4> QED BY <2>3, <4>2
    <3> QED BY <3>1, <3>2
  <2>6. PICK j \in 1 .. k : f[j] = i
    BY <1>0, <2>3, <2>5
  <2>7. ~(j < i)
    BY <2>4, <2>6
  <2>8. j # i
    BY <2>3, <2>6
  <2>9. i < j
    BY <2>3, <2>7, <2>8
  <2>10. f[i] < f[j]
    BY <1>0, <2>3, <2>9
  <2> QED BY <2>3, <2>5, <2>6, <2>10
<1>2. \A i \in 1 .. k : f[i] = i
  BY <1>1
<1>3. k <= n
  <2>1. CASE k = 0
    BY <2>1
  <2>2. CASE k # 0
    <3>1. k \in 1 .. k
      BY <2>2
    <3>2. f[k] = k /\ f[k] \in 1 .. n
      BY <1>0, <1>2, <3>1
    <3> QED BY <3>2
  <2> QED BY <2>1, <2>2
<1>4. n <= k
  <2>1. CASE n = 0
    BY <2>1
  <2>2. CASE n # 0
    <3>1. n \in 1 .. n
      BY <2>2
    <3>2. PICK i \in 1 .. k : f[i] = n
      BY <1>0, <3>1
    <3> QED BY <1>2, <3>2
  <2> QED BY <2>1, <2>2
<1> QED BY <1>2, <1>3, <1>4

\* Rows that are in order are written in that order.
LEMMA ChainStays == ASSUME NEW s, Chain(s) PROVE ByTime(s) = s
<1> DEFINE z == ByTime(s)
           D == DOMAIN s
           n == Len(s)
           k == Len(z)
<1>1. D = 1 .. n /\ n \in Nat /\ s \in [1 .. n -> Observations] /\ s \in Seq(Observations)
  BY DEF Chain
<1>2. D \in SUBSET Int /\ IsFiniteSet(D) /\ s \in [D -> Observations]
  BY <1>1, PlacesFinite
<1>3. PICK f \in [DOMAIN z -> D] :
         /\ \A i \in DOMAIN z : z[i] = s[f[i]]
         /\ \A d \in D : \E i \in DOMAIN z : f[i] = d
         /\ \A i, j \in DOMAIN z : i < j =>
               \/ s[f[i]].first < s[f[j]].first
               \/ s[f[i]].first = s[f[j]].first /\ f[i] < f[j]
  <2> HIDE DEF D
  <2> QED BY <1>2, ByTimeFits
<1>4. z \in Seq(Observations)
  <2> HIDE DEF D
  <2> QED BY <1>2, ByTimeFits
<1>5. k \in Nat /\ DOMAIN z = 1 .. k /\ z = [i \in 1 .. k |-> z[i]] /\ s = [i \in 1 .. n |-> s[i]]
  BY <1>1, <1>4
<1> HIDE DEF z
<1>6. ASSUME NEW i \in DOMAIN z, NEW j \in DOMAIN z, i < j PROVE f[i] < f[j]
  <2> DEFINE a == f[i]
             b == f[j]
  <2>1. a \in D /\ b \in D
    BY <1>3
  <2>2. s[a] \in Observations /\ s[b] \in Observations /\ a \in Int /\ b \in Int
    BY <1>1, <2>1
  <2>3. s[a].first < s[b].first \/ (s[a].first = s[b].first /\ a < b)
    BY <1>3, <1>6
  <2> HIDE DEF a, b
  <2>4. s[a].first \in Int /\ s[a].last \in Int /\ s[b].first \in Int /\ s[b].last \in Int
    BY <2>2 DEF Observations
  <2>5. CASE a < b
    BY <2>5 DEF a, b
  <2>6. CASE b < a
    <3>1. s[b].last <= s[a].first /\ s[b].first <= s[b].last
      BY <2>1, <2>6 DEF Chain
    <3> QED BY <2>3, <2>4, <2>6, <2>2, <3>1
  <2>7. CASE a = b
    BY <2>2, <2>3, <2>4, <2>7
  <2> QED BY <2>2, <2>5, <2>6, <2>7
<1> HIDE DEF k, n
<1>9. n \in Nat /\ k \in Nat /\ Ascending(f, k, n)
  BY <1>1, <1>3, <1>5, <1>6 DEF Ascending, n
<1>7. k = n /\ \A i \in 1 .. k : f[i] = i
  <2> HIDE DEF D
  <2> QED BY <1>9, OrderedIsIdentity
<1>8. \A i \in 1 .. n : z[i] = s[i]
  <2> TAKE i \in 1 .. n
  <2>1. i \in 1 .. k /\ i \in DOMAIN z /\ f[i] = i
    BY <1>5, <1>7
  <2>2. z[i] = s[f[i]]
    BY <1>3, <2>1
  <2> QED BY <2>1, <2>2
<1> QED BY <1>5, <1>7, <1>8 DEF z

-----------------------------------------------------------------------------
(* Cycles of one length whose reset times do not drift: each is later, in      *)
(* every respect, than the one before it, and only the last one changes.       *)

\* Among these reset times, to be near is to be one and the same.
Classes(G) == G \subseteq Int /\ \A a, b, c \in G : Near(a, b) /\ Near(b, c) => Near(a, c)

Mixed(cs) == \E i, j \in 1 .. Len(cs) : cs[i].ws # cs[j].ws

Lined(cs) ==
    \A i, j \in 1 .. Len(cs) : i < j =>
        cs[i].last <= cs[j].last /\ cs[i].reset < cs[j].reset /\ ~Near(cs[i].reset, cs[j].reset)

ResetsIn(cs, G) == \A i \in 1 .. Len(cs) : cs[i].reset \in G

\* A time is near to itself, and nearness goes both ways.
LEMMA NearIsEven ==
    ASSUME NEW a \in Int, NEW b \in Int PROVE Near(a, a) /\ (Near(a, b) <=> Near(b, a))
BY HistoryAssumption DEF HistoryAssumption, Near

\* Times that are near to others are ordered like them.
LEMMA ClassesApart ==
    ASSUME NEW G, Classes(G), NEW a \in G, NEW b \in G, NEW c \in G, NEW d \in G,
           Near(a, c), Near(b, d), a < b, ~Near(a, b)
    PROVE  c < d /\ ~Near(c, d)
<1>1. a \in Int /\ b \in Int /\ c \in Int /\ d \in Int
  BY DEF Classes
<1>2. Near(c, a) /\ Near(d, b)
  BY <1>1, NearIsEven
<1>3. ~Near(c, d)
  <2>1. SUFFICES ASSUME Near(c, d) PROVE FALSE
    OBVIOUS
  <2>2. Near(a, d)
    BY <2>1 DEF Classes
  <2>3. Near(a, b)
    BY <1>2, <2>2 DEF Classes
  <2> QED BY <2>3
<1>4. ~(d <= c)
  <2>1. SUFFICES ASSUME d <= c PROVE FALSE
    OBVIOUS
  <2>2. Near(c, d) \/ Near(a, b)
    <3>1. Tolerance \in Nat
      BY HistoryAssumption DEF HistoryAssumption
    <3>2. c - a <= Tolerance /\ b - d <= Tolerance /\ d - c <= Tolerance
      BY <1>1, <2>1, <3>1 DEF Near
    <3>3. ~(c - d <= Tolerance) => b - a <= Tolerance
      BY <1>1, <3>1, <3>2
    <3>4. a - b <= Tolerance
      BY <1>1, <3>1
    <3> QED BY <3>2, <3>3, <3>4 DEF Near
  <2> QED BY <1>3, <2>2
<1> QED BY <1>1, <1>3, <1>4

\* The cycle that was seen last is the last row (loadCurrentQuotaCycle).
LEMMA LatestIsLast ==
    ASSUME NEW cs, CyclesRight(cs), cs # <<>>, Lined(cs)
    PROVE  LatestOf(cs) = Len(cs) /\ Len(cs) \in 1 .. Len(cs)
<1> DEFINE n == Len(cs)
           k == LatestOf(cs)
<1>1. cs \in Seq(CycleRows) /\ n \in Nat /\ DOMAIN cs = 1 .. n /\ n \in 1 .. n
  BY DEF CyclesRight
<1>2. k \in 1 .. n /\ \A j \in 1 .. n : cs[j].last < cs[k].last \/ (cs[j].last = cs[k].last /\ j <= k)
  BY <1>1, LatestIsThere
<1>3. cs[n].last \in Int /\ cs[k].last \in Int
  BY <1>1, <1>2, TailTypes
<1> HIDE DEF k
<1>4. cs[n].last < cs[k].last \/ (cs[n].last = cs[k].last /\ n <= k)
  BY <1>1, <1>2
<1>5. k < n => cs[k].last <= cs[n].last
  BY <1>1, <1>2 DEF Lined
<1>6. k \in Int /\ n \in Int /\ k <= n
  BY <1>1, <1>2
<1> HIDE DEF n
<1>7. k = n \/ k < n
  BY <1>6
<1>8. ~(k < n)
  BY <1>3, <1>4, <1>5, <1>6
<1> QED BY <1>1, <1>7, <1>8 DEF k, n

\* What the transaction makes of an observation that is later than all of them.
LEMMA ApplyCases ==
    ASSUME NEW cs, CyclesRight(cs), cs # <<>>, Lined(cs), ~Mixed(cs),
           NEW o \in Observations, o.first <= o.last, After(cs, o.first),
           NEW G, Classes(G), ResetsIn(cs, G), o.reset \in G,
           NEW c, c = cs[Len(cs)]
    PROVE  /\ o.ws # c.ws => Apply(cs, o) = Append(cs, NewCycle(o))
           /\ o.ws = c.ws /\ Near(c.reset, o.reset) =>
                 Apply(cs, o) = [cs EXCEPT ![Len(cs)] = Observed(Calibrated(c, o), o)]
           /\ o.ws = c.ws /\ ~Near(c.reset, o.reset) /\ c.reset < o.reset =>
                 Apply(cs, o) = Append(cs, NewCycle(o))
           /\ o.ws = c.ws /\ ~Near(c.reset, o.reset) /\ ~(c.reset < o.reset) => Apply(cs, o) = cs
<1> DEFINE n == Len(cs)
           i == CycleOf(cs, o)
           z == Apply(cs, o)
           d == Observed(Calibrated(cs[i], o), o)
<1>1. cs \in Seq(CycleRows) /\ n \in Nat /\ DOMAIN cs = 1 .. n /\ n \in 1 .. n /\ LatestOf(cs) = n
  <2>1. cs \in Seq(CycleRows)
    BY DEF CyclesRight
  <2> QED BY <2>1, LatestIsLast
<1>2. \A k \in 1 .. n : cs[k] \in CycleRows /\ cs[k].last \in Int /\ cs[k].reset \in Int /\ cs[k].reset \in G
  BY TailTypes, CycleTypes DEF ResetsIn
<1>3. o.first \in Int /\ o.last \in Int /\ o.reset \in Int
  BY ObservationTypes
<1>4. i \in 1 .. n \cup {0} /\ (i # 0 => SameCycle(cs[i], o)) /\ (i = 0 => \A k \in 1 .. n : ~SameCycle(cs[k], o))
  BY <1>1, CycleOfFits
<1>5. SameCycle(c, o) => i = n
  BY <1>1 DEF CycleOf
<1>6. z = IF Ignored(cs, o) THEN cs
          ELSE IF i = 0 THEN Append(cs, NewCycle(o))
          ELSE [cs EXCEPT ![i] = d]
  BY DEF Apply
<1>7. ~(o.last < c.last)
  <2>1. c.last <= o.first
    BY <1>1 DEF After
  <2> QED BY <1>1, <1>2, <1>3, <2>1
<1>8. Ignored(cs, o) <=> \/ i \notin {0, n} /\ cs[i].ws = c.ws
                         \/ i = 0 /\ c.ws = o.ws /\ o.reset < c.reset
  BY <1>1, <1>7 DEF Ignored
<1>9. \A k \in 1 .. n : cs[k].ws = c.ws
  BY <1>1 DEF Mixed
<1>10. \A k \in 1 .. n : SameCycle(cs[k], o) <=> cs[k].ws = o.ws /\ Near(cs[k].reset, o.reset)
  BY DEF SameCycle
<1> HIDE DEF i, z, d
<1>11. CASE o.ws # c.ws
  <2>1. i = 0
    BY <1>4, <1>9, <1>10, <1>11
  <2> QED BY <1>6, <1>8, <1>11, <2>1 DEF z
<1>12. CASE o.ws = c.ws /\ Near(c.reset, o.reset)
  <2>1. i = n /\ n # 0
    BY <1>1, <1>5, <1>10, <1>12
  <2> QED BY <1>1, <1>6, <1>8, <1>12, <2>1 DEF z, d
<1>13. CASE o.ws = c.ws /\ ~Near(c.reset, o.reset) /\ c.reset < o.reset
  <2>1. i = 0
    <3>1. SUFFICES ASSUME i # 0 PROVE FALSE
      OBVIOUS
    <3>2. i \in 1 .. n /\ Near(cs[i].reset, o.reset)
      BY <1>4, <1>10, <3>1
    <3>3. i # n
      BY <1>13, <3>2
    <3>4. i < n
      <4>1. i \in Int /\ n \in Int /\ i <= n
        BY <1>1, <3>2
      <4> HIDE DEF n
      <4> QED BY <3>3, <4>1
    <3>5. cs[i].reset < c.reset /\ ~Near(cs[i].reset, c.reset)
      BY <1>1, <3>2, <3>4 DEF Lined
    <3>6. /\ cs[i].reset \in G /\ c.reset \in G
          /\ Near(cs[i].reset, o.reset) /\ Near(c.reset, c.reset)
      BY <1>1, <1>2, <3>2, NearIsEven
    <3>7. o.reset < c.reset
      BY <3>5, <3>6, ClassesApart
    <3> QED BY <1>1, <1>2, <1>3, <1>13, <3>7
  <2>2. ~(o.reset < c.reset)
    BY <1>1, <1>2, <1>3, <1>13
  <2> QED BY <1>6, <1>8, <1>13, <2>1, <2>2 DEF z
<1>14. CASE o.ws = c.ws /\ ~Near(c.reset, o.reset) /\ ~(c.reset < o.reset)
  <2>1. i # n
    <3>1. n # 0
      BY <1>1
    <3> QED BY <1>1, <1>4, <1>10, <1>14, <3>1
  <2>2. o.reset < c.reset
    <3>1. c.reset # o.reset
      <4>1. Near(o.reset, o.reset)
        BY <1>3, NearIsEven
      <4> QED BY <1>14, <4>1
    <3> QED BY <1>1, <1>2, <1>3, <1>14, <3>1
  <2>3. i # 0 => cs[i].ws = c.ws
    BY <1>4, <1>9
  <2>4. Ignored(cs, o)
    BY <1>8, <1>14, <2>1, <2>2, <2>3
  <2> QED BY <1>6, <1>14, <2>4 DEF z
<1> QED BY <1>11, <1>12, <1>13, <1>14

-----------------------------------------------------------------------------
(* Cycles of one length stay in line, whatever is written.                    *)

\* What becomes of a cycle that is observed.
CycleTold(c, d, o) ==
    /\ CycleRight(d) /\ d.ws = c.ws /\ (d.reset = c.reset \/ d.reset = o.reset)
    /\ c.last <= d.last /\ (d.last = c.last \/ d.last = o.last)
    /\ Told(c.segs[Len(c.segs)], o) => TailPct(d) = o.pct /\ d.last = o.last
    /\ o.pct = TailPct(c) /\ c.last = o.first => TailPct(d) = TailPct(c) /\ d.last = c.last

\* What an observation makes of the cycle it belongs to.
LEMMA ObservedTells ==
    ASSUME NEW c, CycleRight(c), NEW o \in Observations, o.first <= o.last, c.last <= o.first
    PROVE  CycleTold(c, Observed(Calibrated(c, o), o), o)
<1> DEFINE e == Calibrated(c, o)
           d == Observed(e, o)
           z == Segments(e.segs, o)
<1>1. CycleRight(e) /\ e.segs = c.segs /\ e.last = c.last
  BY CalibratedFits
<1>2. e.ws = c.ws /\ (e.reset = c.reset \/ e.reset = o.reset)
  <2>1. c \in CycleRows
    BY DEF CycleRight
  <2> QED BY <2>1 DEF Calibrated, CycleRows
<1> HIDE DEF e
<1>3. CycleRight(d)
  BY <1>1, ObservedFits
<1>4. e \in CycleRows /\ Falling(e.segs) /\ e.last = e.segs[Len(e.segs)].last /\ e.last \in Int
  BY <1>1, CycleTypes DEF CycleRight
<1>5. SegmentsKept(e.segs, z, o)
  BY <1>1, <1>4, SegmentsKeep
<1>6. d = IF z = e.segs THEN e
          ELSE [e EXCEPT !.segs = z, !.last = o.last, !.first = IF o.first < @ THEN o.first ELSE @]
  BY DEF Observed
<1>7. o.first \in Int /\ o.last \in Int
  BY ObservationTypes
<1> HIDE DEF d, z
<1>8. d.ws = e.ws /\ d.reset = e.reset /\ d.segs = z
  <2>1. CASE z = e.segs
    BY <1>6, <2>1
  <2>2. CASE z # e.segs
    BY <1>4, <1>6, <2>2 DEF CycleRows
  <2> QED BY <2>1, <2>2
<1>9. d.last = z[Len(z)].last /\ TailPct(d) = z[Len(z)].pct
  BY <1>3, <1>8 DEF CycleRight, TailPct
<1>10. e.last <= d.last /\ (d.last = e.last \/ d.last = o.last)
  <2>1. CASE z = e.segs
    BY <1>4, <1>6, <2>1
  <2>2. CASE z # e.segs
    <3>1. d.last = o.last
      BY <1>5, <1>9, <2>2 DEF SegmentsKept
    <3> QED BY <1>1, <1>4, <1>7, <3>1
  <2> QED BY <2>1, <2>2
<1>11. Told(c.segs[Len(c.segs)], o) => TailPct(d) = o.pct /\ d.last = o.last
  BY <1>1, <1>5, <1>9 DEF SegmentsKept
<1>12. o.pct = TailPct(c) /\ c.last = o.first => TailPct(d) = TailPct(c) /\ d.last = c.last
  <2> SUFFICES ASSUME o.pct = TailPct(c), c.last = o.first
               PROVE  TailPct(d) = TailPct(c) /\ d.last = c.last
      OBVIOUS
  <2>1. z = e.segs
    BY <1>1, <1>4, <1>5 DEF SegmentsKept, TailPct
  <2> QED BY <1>1, <1>6, <2>1 DEF TailPct
<1> QED BY <1>1, <1>2, <1>3, <1>8, <1>10, <1>11, <1>12 DEF CycleTold, d, e

\* One cycle is added, or one of them is changed, or none.
Shaped(cs, z, o) ==
    \/ z = cs
    \/ z = Append(cs, NewCycle(o))
    \/ \E i \in 1 .. Len(cs) : \E d : CycleTold(cs[i], d, o) /\ z = [cs EXCEPT ![i] = d]

\* What it makes of the rows: nothing, a row more, or a row that is changed.
LEMMA ApplyShape ==
    ASSUME NEW cs, CyclesRight(cs), NEW o \in Observations, o.first <= o.last, After(cs, o.first)
    PROVE  Shaped(cs, Apply(cs, o), o)
<1> DEFINE z == Apply(cs, o)
           i == CycleOf(cs, o)
           d == Observed(Calibrated(cs[i], o), o)
<1>1. cs \in Seq(CycleRows) /\ DOMAIN cs = 1 .. Len(cs)
  BY DEF CyclesRight
<1>2. i \in 1 .. Len(cs) \cup {0}
  BY <1>1, CycleOfFits
<1>3. i # 0 => CycleTold(cs[i], d, o)
  <2>1. i # 0 => CycleRight(cs[i]) /\ cs[i].last <= o.first
    BY <1>2 DEF CyclesRight, After
  <2> HIDE DEF i
  <2> QED BY <2>1, ObservedTells
<1>4. z = IF Ignored(cs, o) THEN cs
          ELSE IF i = 0 THEN Append(cs, NewCycle(o))
          ELSE [cs EXCEPT ![i] = d]
  BY DEF Apply
<1> HIDE DEF i, d, z
<1> QED BY <1>2, <1>3, <1>4 DEF Shaped, z

\* The cycles are right, and in line if their reset times do not drift and as
\* long as they have one length.
Orderly(cs, G) == CyclesRight(cs) /\ ResetsIn(cs, G) /\ (Classes(G) /\ ~Mixed(cs) => Lined(cs))

\* A row more.
LEMMA AppendedRows ==
    ASSUME NEW S, NEW s \in Seq(S), NEW e \in S, NEW z, z = Append(s, e)
    PROVE  /\ z \in Seq(S) /\ Len(s) \in Nat /\ Len(z) = Len(s) + 1 /\ z[Len(z)] = e
           /\ \A k \in 1 .. Len(s) : z[k] = s[k]
           /\ \A k \in 1 .. Len(z) : k \in 1 .. Len(s) \/ k = Len(z)
OBVIOUS

\* A row that is changed.
LEMMA ChangedRows ==
    ASSUME NEW S, NEW s \in Seq(S), NEW e \in S, NEW i \in 1 .. Len(s), NEW z, z = [s EXCEPT ![i] = e]
    PROVE  /\ z \in Seq(S) /\ Len(s) \in Nat /\ Len(z) = Len(s)
           /\ \A k \in 1 .. Len(s) : z[k] = IF k = i THEN e ELSE s[k]
OBVIOUS

\* The rows of cs are all there, changed perhaps, and have the reset times of G.
LEMMA ApplyResets ==
    ASSUME NEW cs, CyclesRight(cs), NEW o \in Observations, o.first <= o.last, After(cs, o.first),
           NEW G, ResetsIn(cs, G), o.reset \in G, NEW z, z = Apply(cs, o)
    PROVE  /\ ResetsIn(z, G) /\ (Mixed(cs) => Mixed(z))
           /\ Len(cs) <= Len(z) /\ Len(z) \in Nat /\ Len(cs) \in Nat
<1>1. cs \in Seq(CycleRows) /\ Len(cs) \in Nat /\ \A k \in 1 .. Len(cs) : CycleRight(cs[k])
  BY DEF CyclesRight
<1>2. CASE z = cs
  BY <1>1, <1>2
<1>3. CASE z = Append(cs, NewCycle(o))
  <2> DEFINE e == NewCycle(o)
  <2>1. e \in CycleRows /\ e.reset = o.reset
    <3>1. CycleRight(e)
      BY NewCycleFits
    <3> QED BY <3>1 DEF CycleRight, NewCycle
  <2>2. z = Append(cs, e)
    BY <1>3
  <2> HIDE DEF e
  <2>3. /\ z \in Seq(CycleRows) /\ Len(z) = Len(cs) + 1 /\ z[Len(z)] = e
        /\ \A k \in 1 .. Len(cs) : z[k] = cs[k]
        /\ \A k \in 1 .. Len(z) : k \in 1 .. Len(cs) \/ k = Len(z)
    BY <1>1, <2>1, <2>2, AppendedRows
  <2>4. ResetsIn(z, G)
    BY <2>1, <2>3 DEF ResetsIn
  <2>5. \A k \in 1 .. Len(cs) : k \in 1 .. Len(z)
    BY <1>1, <2>3
  <2>6. Mixed(cs) => Mixed(z)
    BY <2>3, <2>5 DEF Mixed
  <2> QED BY <1>1, <2>3, <2>4, <2>6
<1>4. ASSUME NEW i \in 1 .. Len(cs), NEW d, CycleTold(cs[i], d, o), z = [cs EXCEPT ![i] = d]
      PROVE  ResetsIn(z, G) /\ (Mixed(cs) => Mixed(z)) /\ Len(z) = Len(cs)
  <2>1. d \in CycleRows /\ d.ws = cs[i].ws /\ (d.reset = cs[i].reset \/ d.reset = o.reset)
    BY <1>4 DEF CycleTold, CycleRight
  <2>2. Len(z) = Len(cs) /\ \A k \in 1 .. Len(cs) : z[k] = IF k = i THEN d ELSE cs[k]
    BY <1>1, <1>4, <2>1, ChangedRows
  <2>3. \A k \in 1 .. Len(cs) : z[k].ws = cs[k].ws
    BY <2>1, <2>2
  <2>4. Mixed(cs) => Mixed(z)
    BY <2>2, <2>3 DEF Mixed
  <2>5. ResetsIn(z, G)
    BY <1>4, <2>1, <2>2 DEF ResetsIn
  <2> QED BY <2>2, <2>4, <2>5
<1>5. \/ z = cs
      \/ z = Append(cs, NewCycle(o))
      \/ \E i \in 1 .. Len(cs) : \E d : CycleTold(cs[i], d, o) /\ z = [cs EXCEPT ![i] = d]
  <2>1. Shaped(cs, z, o)
    BY ApplyShape
  <2> QED BY <2>1 DEF Shaped
<1>6. Len(Append(cs, NewCycle(o))) = Len(cs) + 1
  BY <1>1
<1>7. (\E i \in 1 .. Len(cs) : \E d : CycleTold(cs[i], d, o) /\ z = [cs EXCEPT ![i] = d])
      => ResetsIn(z, G) /\ (Mixed(cs) => Mixed(z)) /\ Len(z) = Len(cs)
  BY <1>4
<1>8. z = Append(cs, NewCycle(o)) => Len(z) = Len(cs) + 1
  BY <1>6
<1>9. Len(cs) <= Len(z) /\ Len(z) \in Nat
  BY <1>1, <1>5, <1>7, <1>8
<1> QED BY <1>1, <1>2, <1>3, <1>5, <1>7, <1>9

\* A cycle with a later reset time stays in line.
LEMMA LinedLonger ==
    ASSUME NEW cs, CyclesRight(cs), Lined(cs), cs # <<>>, NEW e \in CycleRows, After(cs, e.last),
           cs[Len(cs)].reset < e.reset, ~Near(cs[Len(cs)].reset, e.reset)
    PROVE  Lined(Append(cs, e))
<1> DEFINE z == Append(cs, e)
           n == Len(cs)
<1>1. cs \in Seq(CycleRows) /\ n \in Nat /\ n \in 1 .. n
  BY DEF CyclesRight
<1>2. /\ Len(z) = n + 1 /\ z[Len(z)] = e
      /\ \A k \in 1 .. n : z[k] = cs[k]
      /\ \A k \in 1 .. Len(z) : k \in 1 .. n \/ k = Len(z)
  BY <1>1, AppendedRows
<1>3. e.reset \in Int /\ e.last \in Int /\ \A k \in 1 .. n : cs[k].reset \in Int /\ cs[k].last <= e.last
  BY <1>1, CycleTypes, TailTypes DEF After
<1>7. Tolerance \in Nat
  BY HistoryAssumption DEF HistoryAssumption
<1> HIDE DEF z, n
<1>4. ASSUME NEW k \in 1 .. n PROVE cs[k].reset < e.reset /\ ~Near(cs[k].reset, e.reset)
  <2>1. k = n \/ k < n
    BY <1>1
  <2>2. CASE k = n
    BY <2>2 DEF n
  <2>3. CASE k < n
    <3>1. cs[k].reset < cs[n].reset
      BY <1>1, <2>3 DEF Lined, n
    <3>2. cs[n].reset < e.reset /\ ~Near(cs[n].reset, e.reset)
      BY DEF n
    <3>3. cs[k].reset \in Int /\ cs[n].reset \in Int
      BY <1>1, <1>3
    <3> QED BY <1>3, <1>7, <3>1, <3>2, <3>3 DEF Near
  <2> QED BY <2>1, <2>2, <2>3
<1>5. ASSUME NEW i \in 1 .. Len(z), NEW j \in 1 .. Len(z), i < j
      PROVE  z[i].last <= z[j].last /\ z[i].reset < z[j].reset /\ ~Near(z[i].reset, z[j].reset)
  <2>1. i \in 1 .. n
    BY <1>1, <1>2, <1>5
  <2>2. CASE j \in 1 .. n
    BY <1>2, <1>5, <2>1, <2>2 DEF Lined, n
  <2>3. CASE j = Len(z)
    BY <1>2, <1>3, <1>4, <2>1, <2>3
  <2> QED BY <1>2, <2>2, <2>3
<1> QED BY <1>5 DEF Lined, z

\* So does the last one when its boundary moves within the tolerance.
LEMMA LinedChanged ==
    ASSUME NEW cs, CyclesRight(cs), Lined(cs), cs # <<>>, NEW G, Classes(G), ResetsIn(cs, G),
           NEW e \in CycleRows, e.reset \in G, Near(cs[Len(cs)].reset, e.reset), cs[Len(cs)].last <= e.last
    PROVE  Lined([cs EXCEPT ![Len(cs)] = e])
<1> DEFINE n == Len(cs)
           z == [cs EXCEPT ![n] = e]
<1>1. cs \in Seq(CycleRows) /\ n \in Nat /\ n \in 1 .. n
  BY DEF CyclesRight
<1>2. Len(z) = n /\ \A k \in 1 .. n : z[k] = IF k = n THEN e ELSE cs[k]
  BY <1>1, ChangedRows
<1>3. e.reset \in Int /\ e.last \in Int /\ \A k \in 1 .. n : cs[k].reset \in Int /\ cs[k].last \in Int /\ cs[k].reset \in G
  BY <1>1, CycleTypes, TailTypes DEF ResetsIn
<1> HIDE DEF z
<1>5. ASSUME NEW i \in 1 .. n, NEW j \in 1 .. n, i < j
      PROVE  z[i].last <= z[j].last /\ z[i].reset < z[j].reset /\ ~Near(z[i].reset, z[j].reset)
  <2>1. i # n /\ z[i] = cs[i]
    BY <1>1, <1>2, <1>5
  <2>2. cs[i].last <= cs[j].last /\ cs[i].reset < cs[j].reset /\ ~Near(cs[i].reset, cs[j].reset)
    BY <1>5 DEF Lined
  <2>3. CASE j # n
    BY <1>2, <2>1, <2>2, <2>3
  <2>4. CASE j = n
    <3>1. z[j] = e /\ cs[j].last <= e.last /\ Near(cs[j].reset, e.reset)
      BY <1>2, <2>4
    <3>2. cs[i].last \in Int /\ cs[j].last \in Int /\ cs[i].last <= e.last
      BY <1>3, <2>2, <3>1
    <3>3. cs[i].reset \in G /\ cs[j].reset \in G /\ Near(cs[i].reset, cs[i].reset)
      BY <1>3, NearIsEven
    <3>4. cs[i].reset < e.reset /\ ~Near(cs[i].reset, e.reset)
      BY <2>2, <3>1, <3>3, ClassesApart
    <3> QED BY <2>1, <3>1, <3>2, <3>4
  <2> QED BY <2>3, <2>4
<1> QED BY <1>2, <1>5 DEF Lined, z

\* One observation leaves the cycles in line, and lengths that are mixed stay so.
LEMMA ApplyOrderly ==
    ASSUME NEW G, NEW cs, Orderly(cs, G), NEW o \in Observations, o.first <= o.last,
           After(cs, o.first), o.reset \in G
    PROVE  Orderly(Apply(cs, o), G) /\ (Mixed(cs) => Mixed(Apply(cs, o)))
<1> DEFINE z == Apply(cs, o)
           n == Len(cs)
<1>1. CyclesRight(cs) /\ ResetsIn(cs, G) /\ (Classes(G) /\ ~Mixed(cs) => Lined(cs)) /\ cs \in Seq(CycleRows) /\ n \in Nat
  BY DEF Orderly, CyclesRight
<1>2. ResetsIn(z, G) /\ (Mixed(cs) => Mixed(z))
  BY <1>1, ApplyResets
<1>3. CyclesRight(z)
  <2> DEFINE t == o.first
  <2>1. t \in Int /\ Stored(cs, t) /\ t <= o.first
    BY <1>1, StoredIsRight, ObservationTypes
  <2> HIDE DEF t
  <2>2. Stored(z, o.last)
    BY <2>1, ApplyKeeps
  <2> QED BY <2>2, StoredIsRight
<1> HIDE DEF z
<1>4. ASSUME Classes(G), ~Mixed(z) PROVE Lined(z)
  <2>1. ~Mixed(cs) /\ Lined(cs)
    BY <1>1, <1>2, <1>4
  <2> DEFINE c == cs[n]
             e == NewCycle(o)
  <2>2. e \in CycleRows /\ e.ws = o.ws /\ e.reset = o.reset /\ e.last = o.last
    <3>1. CycleRight(e)
      BY NewCycleFits
    <3> QED BY <3>1 DEF CycleRight, NewCycle
  <2>3. CASE cs = <<>>
    <3>1. \A i \in 1 .. Len(cs) : FALSE
      BY <2>3
    <3>2. Shaped(cs, z, o)
      BY <1>1, ApplyShape DEF z
    <3>3. z = cs \/ z = Append(cs, NewCycle(o))
      BY <3>1, <3>2 DEF Shaped
    <3>4. Len(z) = 0 \/ Len(z) = 1
      BY <2>2, <2>3, <3>3
    <3> QED BY <3>4 DEF Lined
  <2>4. CASE cs # <<>>
    <3>0. n \in 1 .. n /\ c \in CycleRows /\ c.reset \in Int /\ c.last \in Int /\ CycleRight(c) /\ c.last <= o.first
      BY <1>1, <2>4, CycleTypes DEF CyclesRight, After
    <3>1. /\ o.ws # c.ws => z = Append(cs, NewCycle(o))
          /\ o.ws = c.ws /\ Near(c.reset, o.reset) =>
                z = [cs EXCEPT ![n] = Observed(Calibrated(c, o), o)]
          /\ o.ws = c.ws /\ ~Near(c.reset, o.reset) /\ c.reset < o.reset =>
                z = Append(cs, NewCycle(o))
          /\ o.ws = c.ws /\ ~Near(c.reset, o.reset) /\ ~(c.reset < o.reset) => z = cs
      <4> HIDE DEF c
      <4>1. c = cs[Len(cs)]
        BY DEF c
      <4> QED BY <1>1, <1>4, <2>1, <2>4, <4>1, ApplyCases DEF z
    <3>2. CASE o.ws # c.ws
      <4>1. z = Append(cs, e)
        BY <3>1, <3>2
      <4> HIDE DEF e
      <4>2. Len(z) = n + 1 /\ z[n] = c /\ z[n + 1] = e
        BY <1>1, <2>2, <3>0, <4>1, AppendedRows
      <4>3. n \in 1 .. Len(z) /\ n + 1 \in 1 .. Len(z) /\ z[n].ws # z[n + 1].ws
        BY <2>2, <3>0, <3>2, <4>2
      <4> QED BY <1>4, <4>3 DEF Mixed
    <3>3. CASE o.ws = c.ws /\ Near(c.reset, o.reset)
      <4> DEFINE d == Observed(Calibrated(c, o), o)
      <4> HIDE DEF c
      <4>1. CycleTold(c, d, o)
        BY <3>0, ObservedTells
      <4>2. z = [cs EXCEPT ![n] = d]
        BY <3>1, <3>3
      <4> HIDE DEF d
      <4>3. d \in CycleRows /\ c.last <= d.last /\ (d.reset = c.reset \/ d.reset = o.reset)
        BY <4>1 DEF CycleTold, CycleRight
      <4>4. d.reset \in G /\ Near(c.reset, d.reset)
        <5>1. c.reset \in G /\ Near(c.reset, c.reset)
          BY <1>1, <3>0, NearIsEven DEF ResetsIn, c
        <5> QED BY <3>3, <4>3, <5>1
      <4> QED BY <1>1, <1>4, <2>1, <2>4, <4>2, <4>3, <4>4, LinedChanged DEF c
    <3>4. CASE o.ws = c.ws /\ ~Near(c.reset, o.reset) /\ c.reset < o.reset
      <4>1. z = Append(cs, e)
        BY <3>1, <3>4
      <4>2. c.reset < e.reset /\ ~Near(c.reset, e.reset)
        BY <2>2, <3>4
      <4>3. After(cs, e.last)
        <5>1. o.first \in Int /\ o.last \in Int
          BY ObservationTypes
        <5> QED BY <1>1, <2>2, <5>1, LaterStays
      <4> HIDE DEF e
      <4> QED BY <1>1, <2>1, <2>2, <2>4, <4>1, <4>2, <4>3, LinedLonger
    <3>5. CASE o.ws = c.ws /\ ~Near(c.reset, o.reset) /\ ~(c.reset < o.reset)
      BY <2>1, <3>1, <3>5
    <3> QED BY <3>2, <3>3, <3>4, <3>5
  <2> QED BY <2>3, <2>4
<1> QED BY <1>2, <1>3, <1>4 DEF Orderly, z

-----------------------------------------------------------------------------
(* What one observation makes of the machine: nothing, an entry more, or a    *)
(* renewed entry.                                                             *)

\* All the machine would write, were it to write now.
AllOf(m) == m.pend \o Deferred(m)

\* What is still to be written: the entries of the batch, or what is deferred.
LEMMA AllOfCases ==
    ASSUME NEW m, NEW cs, NEW trusted, MachineRight(m, cs, trusted)
    PROVE  /\ AllOf(m) \in Seq(Observations)
           /\ ~m.stab.exists => AllOf(m) = m.pend
           /\ m.stab.exists => m.pend = <<>> /\ AllOf(m) = <<m.stab.obs>> /\ m.stab.obs \in Observations
           /\ m.pend # <<>> => ~m.stab.exists
<1>1. m.pend \in Seq(Observations)
  BY DEF MachineRight, PendRight, Chain
<1>2. CASE ~m.stab.exists
  BY <1>1, <1>2 DEF AllOf, Deferred
<1>3. CASE m.stab.exists
  <2> DEFINE p == m.stab.obs
  <2>1. m.pend = <<>> /\ p \in Observations
    BY <1>3 DEF MachineRight, Known, DeferredRight
  <2>2. AllOf(m) = <<>> \o <<p>>
    BY <1>3, <2>1 DEF AllOf, Deferred
  <2> HIDE DEF p
  <2>3. <<>> \o <<p>> = <<p>> /\ <<p>> \in Seq(Observations)
    BY <2>1
  <2> QED BY <1>3, <2>1, <2>2, <2>3 DEF p
<1> QED BY <1>2, <1>3

\* e is p, brought up to what o shows.
Renews(p, e, o) ==
    /\ e \in Observations /\ e.ws = p.ws /\ e.pct = p.pct /\ e.first = p.first
    /\ e.reset = p.reset \/ e.reset = o.reset
    /\ p.auth => e.auth

\* c is what the window was before, brought up to what o shows.
StateRenewed(cur, c, o) ==
    /\ c.found /\ c.ws = cur.ws /\ c.pct = cur.pct /\ c.last = o.last
    /\ c.reset = cur.reset \/ c.reset = o.reset

\* o begins something: a window, a cycle, a fall, or a correction.
Leads(cur, o) ==
    \/ ~cur.found
    \/ cur.last <= o.last /\ cur.ws # o.ws
    \/ cur.last <= o.last /\ cur.ws = o.ws /\ ~Near(cur.reset, o.reset) /\ ~(o.reset < cur.reset)
    \/ cur.last <= o.last /\ SameCycle(cur, o) /\ o.auth /\ o.pct > cur.pct
    \/ cur.last < o.last /\ SameCycle(cur, o) /\ o.pct < cur.pct

WrittenNow(m, z, o) == ~z.stab.exists /\ z.due = m.due \cup {o.last}

Led(m, z, o) ==
    /\ Leads(m.cur, o) /\ WrittenNow(m, z, o)
    /\ z.cur = StateOf(o) /\ AllOf(z) = Append(AllOf(m), o)

\* Another entry for the same moment, with another boundary.
SameMoment(m, z, o) ==
    /\ m.cur.found /\ SameCycle(m.cur, o) /\ StateRenewed(m.cur, z.cur, o)
    /\ o.last = m.cur.last /\ m.pend = <<>> /\ WrittenNow(m, z, o)
    /\ AllOf(z) = Append(AllOf(m), [o EXCEPT !.pct = m.cur.pct])

\* The entry that this batch writes anyway is renewed.
EntryRenewed(m, z, o) ==
    /\ m.cur.found /\ SameCycle(m.cur, o) /\ StateRenewed(m.cur, z.cur, o)
    /\ m.cur.last <= o.last /\ m.pend # <<>> /\ WrittenNow(m, z, o)
    /\ \E e : /\ Renews(AllOf(m)[Len(AllOf(m))], e, o)
              /\ AllOf(z) = [AllOf(m) EXCEPT ![Len(AllOf(m))] = e]
              /\ \/ e.last = o.last
                 \/ e.last = AllOf(m)[Len(AllOf(m))].last /\ o.last = m.cur.last

\* What is deferred is renewed, or begins.
DeferredRenewed(m, z, o) ==
    /\ m.cur.found /\ SameCycle(m.cur, o) /\ StateRenewed(m.cur, z.cur, o)
    /\ m.cur.last < o.last /\ o.pct = m.cur.pct
    /\ m.pend = <<>> /\ z.pend = <<>> /\ z.due = m.due /\ z.stab.exists
    /\ ~m.stab.exists => z.stab.obs = o
    /\ m.stab.exists => Renews(m.stab.obs, z.stab.obs, o) /\ z.stab.obs.last = o.last

\* What lasts until o, and what is calibrated by o.
LEMMA RenewedEntry ==
    ASSUME NEW p \in Observations, NEW o \in Observations, NEW moved \in BOOLEAN
    PROVE  /\ Renews(p, Until(p, o, moved), o) /\ Until(p, o, moved).last = o.last
           /\ Renews(p, With(Moved(o, p), o), o) /\ With(Moved(o, p), o).last = p.last
<1>1. /\ o.src \in Sources /\ o.reset \in Int /\ o.last \in Int /\ o.auth \in BOOLEAN
      /\ p.ws \in Int /\ p.src \in Sources /\ p.reset \in Int /\ p.pct \in Int /\ p.first \in Int
      /\ p.last \in Int /\ p.auth \in BOOLEAN
      /\ p = [ws |-> p.ws, src |-> p.src, reset |-> p.reset, pct |-> p.pct, first |-> p.first,
              last |-> p.last, auth |-> p.auth]
  BY DEF Observations
<1> DEFINE e(src, reset, t, auth) == [ws |-> p.ws, src |-> src, reset |-> reset, pct |-> p.pct,
                                      first |-> p.first, last |-> t, auth |-> auth]
<1>2. ASSUME NEW src \in Sources, NEW reset \in {p.reset, o.reset}, NEW t \in Int
      PROVE  Renews(p, e(src, reset, t, p.auth \/ o.auth), o)
  <2> DEFINE f == e(src, reset, t, p.auth \/ o.auth)
  <2>1. (p.auth \/ o.auth) \in BOOLEAN
    OBVIOUS
  <2>2. f \in Observations
    BY <1>1, <1>2, <2>1 DEF Observations
  <2>3. f.ws = p.ws /\ f.pct = p.pct /\ f.first = p.first /\ f.reset = reset /\ f.auth = (p.auth \/ o.auth)
    OBVIOUS
  <2> HIDE DEF f
  <2>4. p.auth => f.auth
    BY <2>3
  <2>5. Renews(p, f, o)
    BY <1>2, <2>2, <2>3, <2>4 DEF Renews
  <2> QED BY <2>5 DEF f
<1>3. Moved(o, p) = e(o.src, o.reset, p.last, p.auth)
  <2>1. p = e(p.src, p.reset, p.last, p.auth)
    BY <1>1
  <2>2. [p EXCEPT !.src = o.src] = e(o.src, p.reset, p.last, p.auth)
    BY <2>1
  <2>3. [e(o.src, p.reset, p.last, p.auth) EXCEPT !.reset = o.reset] = e(o.src, o.reset, p.last, p.auth)
    OBVIOUS
  <2>4. Moved(o, p) = [[p EXCEPT !.src = o.src] EXCEPT !.reset = o.reset]
    BY <2>1 DEF Moved
  <2> QED BY <2>2, <2>3, <2>4
<1>0. ASSUME NEW y \in Observations
      PROVE  With(y, o) = [ws |-> y.ws, src |-> y.src, reset |-> y.reset, pct |-> y.pct,
                           first |-> y.first, last |-> y.last, auth |-> y.auth \/ o.auth]
  <2>1. y = [ws |-> y.ws, src |-> y.src, reset |-> y.reset, pct |-> y.pct,
             first |-> y.first, last |-> y.last, auth |-> y.auth]
    BY DEF Observations
  <2> QED BY <2>1 DEF With
<1>4. With(Moved(o, p), o) = e(o.src, o.reset, p.last, p.auth \/ o.auth)
  <2> DEFINE y == Moved(o, p)
  <2>1. y \in Observations
    BY MovedObservation
  <2>2. y.ws = p.ws /\ y.src = o.src /\ y.reset = o.reset /\ y.pct = p.pct /\ y.first = p.first
        /\ y.last = p.last /\ y.auth = p.auth
    BY <1>3
  <2> HIDE DEF y
  <2> QED BY <1>0, <2>1, <2>2 DEF y
<1>5. With(p, o) = e(p.src, p.reset, p.last, p.auth \/ o.auth)
  BY <1>0
<1>6. Until(p, o, moved) = IF moved THEN e(o.src, o.reset, o.last, p.auth \/ o.auth)
                           ELSE e(p.src, p.reset, o.last, p.auth \/ o.auth)
  <2>1. CASE moved
    BY <1>4, <2>1 DEF Until
  <2>2. CASE ~moved
    BY <1>5, <2>2 DEF Until
  <2> QED BY <2>1, <2>2
<1>7. e(o.src, o.reset, o.last, p.auth \/ o.auth).last = o.last
      /\ e(p.src, p.reset, o.last, p.auth \/ o.auth).last = o.last
      /\ e(o.src, o.reset, p.last, p.auth \/ o.auth).last = p.last
  OBVIOUS
<1> HIDE DEF e
<1> DEFINE e1 == e(o.src, o.reset, p.last, p.auth \/ o.auth)
           e2 == e(o.src, o.reset, o.last, p.auth \/ o.auth)
           e3 == e(p.src, p.reset, o.last, p.auth \/ o.auth)
<1>8. Renews(p, e1, o) /\ Renews(p, e2, o) /\ Renews(p, e3, o)
  BY <1>1, <1>2
<1>9. /\ e1.last = p.last /\ e2.last = o.last /\ e3.last = o.last
      /\ With(Moved(o, p), o) = e1 /\ (Until(p, o, moved) = e2 \/ Until(p, o, moved) = e3)
  <2> HIDE DEF e1, e2, e3
  <2>1. Until(p, o, moved) = IF moved THEN e2 ELSE e3
    BY <1>6 DEF e2, e3
  <2>2. Until(p, o, moved) = e2 \/ Until(p, o, moved) = e3
    BY <2>1
  <2> QED BY <1>4, <1>7, <2>2 DEF e1, e2, e3
<1> HIDE DEF e1, e2, e3
<1> QED BY <1>8, <1>9

\* A change puts an entry behind (appendCodexQuotaHistoryChange).
LEMMA ChangeLeads ==
    ASSUME NEW m, NEW o, NEW cs, CyclesRight(cs), NEW trusted, Arrives(m, o, cs, trusted), Leads(m.cur, o)
    PROVE  Led(m, Change(m, o), o)
<1> DEFINE z == Change(m, o)
<1>1. MachineRight(z, cs, trusted) /\ MachineRight(m, cs, trusted) /\ o \in Observations
  BY ChangeKeeps DEF Arrives
<1>2. z.cur = StateOf(o) /\ z.stab = NoStable /\ z.pend = AllOf(m) \o <<o>> /\ z.due = m.due \cup {o.last}
  BY DEF Change, AllOf
<1> HIDE DEF z
<1>3. ~z.stab.exists /\ AllOf(z) = z.pend
  <2>1. z.stab.exists = FALSE
    BY <1>2 DEF NoStable
  <2> QED BY <1>1, <2>1, AllOfCases
<1>4. AllOf(m) \o <<o>> = Append(AllOf(m), o)
  <2>1. AllOf(m) \in Seq(Observations)
    BY <1>1, AllOfCases
  <2> QED BY <1>1, <2>1
<1> QED BY <1>2, <1>3, <1>4 DEF Led, WrittenNow, z

\* What is remembered, brought up to o.
LEMMA MovedRenewed ==
    ASSUME NEW c \in States, NEW o \in Observations, c.found, NEW moved \in BOOLEAN
    PROVE  /\ StateRenewed(c, [(IF moved THEN Moved(o, c) ELSE c) EXCEPT !.last = o.last], o)
           /\ c.last = o.last => StateRenewed(c, Moved(o, c), o)
<1> DEFINE a == Moved(o, c)
           b == IF moved THEN a ELSE c
           d == [b EXCEPT !.last = o.last]
<1>1. a \in States /\ a.last = c.last /\ a.found = c.found
  BY MovedState
<1>2. a.ws = c.ws /\ a.pct = c.pct /\ a.reset = o.reset
  BY DEF Moved, States
<1> HIDE DEF a
<1>3. b \in States /\ b.found /\ b.ws = c.ws /\ b.pct = c.pct /\ (b.reset = c.reset \/ b.reset = o.reset)
  <2>1. CASE moved
    BY <1>1, <1>2, <2>1
  <2>2. CASE ~moved
    BY <2>2
  <2> QED BY <2>1, <2>2
<1> HIDE DEF b
<1>4. d.found = b.found /\ d.ws = b.ws /\ d.pct = b.pct /\ d.reset = b.reset /\ d.last = o.last
  BY <1>3 DEF States
<1> HIDE DEF d
<1>5. StateRenewed(c, d, o)
  BY <1>3, <1>4 DEF StateRenewed
<1>6. c.last = o.last => StateRenewed(c, a, o)
  BY <1>1, <1>2 DEF StateRenewed
<1> QED BY <1>5, <1>6 DEF a, b, d

\* A calibration puts an entry behind, or renews the last one.
LEMMA CalibrateRenews ==
    ASSUME NEW m, NEW o, NEW cs, CyclesRight(cs), NEW trusted, Arrives(m, o, cs, trusted),
           m.cur.found, SameCycle(m.cur, o), o.last = m.cur.last
    PROVE  SameMoment(m, Calibrate(m, o), o) \/ EntryRenewed(m, Calibrate(m, o), o)
<1> DEFINE z == Calibrate(m, o)
           L == AllOf(m)
           N == Len(L)
           e == [o EXCEPT !.pct = m.cur.pct]
<1>1. /\ MachineRight(z, cs, trusted) /\ MachineRight(m, cs, trusted) /\ o \in Observations
      /\ m.idx = Len(m.pend) /\ m.cur \in States
  <2>1. MachineRight(z, cs, trusted)
    BY CalibrateKeeps
  <2>2. MachineRight(m, cs, trusted) /\ o \in Observations
    BY DEF Arrives
  <2> QED BY <2>1, <2>2 DEF MachineRight, Known
<1>0. m = [cur |-> m.cur, stab |-> m.stab, pend |-> m.pend, idx |-> m.idx, due |-> m.due]
  BY <1>1 DEF MachineRight
<1>2. L \in Seq(Observations) /\ N \in Nat /\ (m.pend # <<>> => ~m.stab.exists /\ L = m.pend)
  <2>1. L \in Seq(Observations) /\ (m.pend # <<>> => ~m.stab.exists /\ L = m.pend)
    BY <1>1, AllOfCases
  <2> QED BY <2>1
<1>3. m.pend = <<>> <=> m.idx = 0
  <2>1. m.pend \in Seq(Observations)
    BY <1>1 DEF MachineRight, PendRight, Chain
  <2> QED BY <1>1, <2>1
<1>4. m.idx \in Nat
  <2>1. m.pend \in Seq(Observations)
    BY <1>1 DEF MachineRight, PendRight, Chain
  <2> QED BY <1>1, <2>1
<1>5. /\ z.cur = Moved(o, m.cur) /\ z.stab = NoStable /\ z.due = m.due \cup {o.last}
      /\ z.pend = IF m.idx > 0 THEN [L EXCEPT ![m.idx] = With(Moved(o, L[m.idx]), o)] ELSE Append(L, e)
  <2> DEFINE here == IF m.idx > 0 THEN [L EXCEPT ![m.idx] = With(Moved(o, L[m.idx]), o)] ELSE Append(L, e)
             idx == IF m.idx > 0 THEN m.idx ELSE Len(here)
  <2>1. z = [m EXCEPT !.cur = Moved(o, m.cur), !.stab = NoStable, !.pend = here,
                      !.idx = idx, !.due = m.due \cup {o.last}]
    <3>1. CASE m.idx > 0
      <4>1. z = [m EXCEPT !.cur = Moved(o, m.cur), !.stab = NoStable,
                          !.pend = [L EXCEPT ![m.idx] = With(Moved(o, L[m.idx]), o)],
                          !.idx = m.idx, !.due = m.due \cup {o.last}]
        BY <3>1 DEF Calibrate, AllOf
      <4> QED BY <3>1, <4>1
    <3>2. CASE ~(m.idx > 0)
      <4>1. z = [m EXCEPT !.cur = Moved(o, m.cur), !.stab = NoStable, !.pend = Append(L, e),
                          !.idx = Len(Append(L, e)), !.due = m.due \cup {o.last}]
        BY <3>2 DEF Calibrate, AllOf
      <4> QED BY <3>2, <4>1
    <3> QED BY <3>1, <3>2
  <2> HIDE DEF here, idx, z
  <2> DEFINE due == m.due \cup {o.last}
             cur == Moved(o, m.cur)
  <2>2. z = [cur |-> cur, stab |-> NoStable, pend |-> here, idx |-> idx, due |-> due]
    <3> HIDE DEF due, cur
    <3>1. z = [m EXCEPT !.cur = cur, !.stab = NoStable, !.pend = here, !.idx = idx, !.due = due]
      BY <2>1 DEF due, cur
    <3> QED BY <1>0, <3>1
  <2> QED BY <2>2 DEF here
<1> HIDE DEF z, L
<1>6. ~z.stab.exists /\ AllOf(z) = z.pend
  <2>1. z.stab.exists = FALSE
    BY <1>5 DEF NoStable
  <2> QED BY <1>1, <2>1, AllOfCases
<1>7. StateRenewed(m.cur, z.cur, o)
  <2>1. TRUE \in BOOLEAN
    OBVIOUS
  <2> QED BY <1>1, <1>5, <2>1, MovedRenewed
<1>8. CASE m.idx = 0
  <2>1. AllOf(z) = Append(L, e) /\ m.pend = <<>>
    BY <1>3, <1>5, <1>6, <1>8
  <2> QED BY <1>5, <1>6, <1>7, <2>1 DEF SameMoment, WrittenNow, L, z
<1>9. CASE m.idx # 0
  <2>1. m.idx > 0 /\ m.pend # <<>> /\ L = m.pend /\ m.idx = N /\ N \in 1 .. N
    BY <1>1, <1>2, <1>3, <1>4, <1>9
  <2> DEFINE p == L[N]
             q == With(Moved(o, p), o)
  <2>2. p \in Observations
    BY <1>2, <2>1
  <2>3. AllOf(z) = [L EXCEPT ![N] = q]
    BY <1>5, <1>6, <2>1
  <2> HIDE DEF p
  <2>4. Renews(p, q, o) /\ q.last = p.last
    <3>1. TRUE \in BOOLEAN
      OBVIOUS
    <3> QED BY <1>1, <2>2, <3>1, RenewedEntry
  <2> HIDE DEF q
  <2>5. \E x : Renews(p, x, o) /\ AllOf(z) = [L EXCEPT ![N] = x] /\ (x.last = o.last \/ (x.last = p.last /\ o.last = m.cur.last))
    BY <2>3, <2>4
  <2>6. m.cur.last <= o.last
    BY StateTypes DEF Arrives
  <2> QED BY <1>5, <1>6, <1>7, <2>1, <2>5, <2>6 DEF EntryRenewed, WrittenNow, L, p, z
<1> QED BY <1>8, <1>9

\* The same percentage again renews the last entry, or is deferred
\* (mergeDeferredCodexQuotaHistoryStable).
LEMMA RepeatRenews ==
    ASSUME NEW m, NEW o, NEW cs, CyclesRight(cs), NEW trusted, Arrives(m, o, cs, trusted),
           m.cur.found, SameCycle(m.cur, o), o.pct = m.cur.pct, m.cur.last < o.last, NEW moved \in BOOLEAN
    PROVE  EntryRenewed(m, Repeat(m, o, moved), o) \/ DeferredRenewed(m, Repeat(m, o, moved), o)
<1> DEFINE z == Repeat(m, o, moved)
           k == m.idx
           cur == [(IF moved THEN Moved(o, m.cur) ELSE m.cur) EXCEPT !.last = o.last]
           due == m.due \cup {o.last}
           p == m.pend[k]
           e == Until(p, o, moved)
           pend == [m.pend EXCEPT ![k] = e]
           stab == DeferStable(m.stab, o, moved \/ o.auth)
<1>1. /\ MachineRight(z, cs, trusted) /\ MachineRight(m, cs, trusted) /\ o \in Observations
      /\ k = Len(m.pend) /\ m.cur \in States
  <2>1. MachineRight(z, cs, trusted)
    BY RepeatKeeps
  <2>2. MachineRight(m, cs, trusted) /\ o \in Observations
    BY DEF Arrives
  <2> QED BY <2>1, <2>2 DEF MachineRight, Known
<1>0. m = [cur |-> m.cur, stab |-> m.stab, pend |-> m.pend, idx |-> m.idx, due |-> m.due]
  BY <1>1 DEF MachineRight
<1>2. m.pend \in Seq(Observations) /\ k \in Nat /\ (m.pend = <<>> <=> k = 0)
  <2>1. m.pend \in Seq(Observations)
    BY <1>1 DEF MachineRight, PendRight, Chain
  <2> QED BY <1>1, <2>1
<1>3. StateRenewed(m.cur, cur, o)
  BY <1>1, MovedRenewed
<1> HIDE DEF cur
<1>4. z = IF k > 0 THEN [m EXCEPT !.cur = cur, !.due = due, !.pend[k] = e]
          ELSE [m EXCEPT !.cur = cur, !.stab = stab]
  BY DEF Repeat, cur
<1> HIDE DEF z, due, e
<1>5. CASE k > 0
  <2>1. z = [cur |-> cur, stab |-> m.stab, pend |-> pend, idx |-> k, due |-> due]
    BY <1>0, <1>4, <1>5
  <2> HIDE DEF pend
  <2>2. z.cur = cur /\ z.stab = m.stab /\ z.pend = pend /\ z.due = due
    BY <2>1
  <2>3. m.pend # <<>> /\ ~m.stab.exists /\ AllOf(m) = m.pend /\ k \in 1 .. k
    <3>1. m.pend # <<>> /\ k \in 1 .. k
      BY <1>2, <1>5
    <3> QED BY <1>1, <3>1, AllOfCases
  <2>4. AllOf(z) = z.pend
    BY <1>1, <2>2, <2>3, AllOfCases
  <2>5. Renews(p, e, o) /\ e.last = o.last
    <3>1. p \in Observations
      BY <1>1, <1>2, <2>3
    <3> HIDE DEF p
    <3> QED BY <1>1, <3>1, RenewedEntry DEF e
  <2>6. \E x : Renews(p, x, o) /\ AllOf(z) = [AllOf(m) EXCEPT ![Len(AllOf(m))] = x]
                /\ (x.last = o.last \/ (x.last = p.last /\ o.last = m.cur.last))
    <3>1. AllOf(z) = [AllOf(m) EXCEPT ![Len(AllOf(m))] = e]
      BY <1>1, <2>2, <2>3, <2>4 DEF pend
    <3> QED BY <2>5, <3>1
  <2>7. p = AllOf(m)[Len(AllOf(m))]
    BY <1>1, <2>3
  <2>8. m.cur.last <= o.last
    BY DEF Arrives
  <2> HIDE DEF p
  <2>9. WrittenNow(m, z, o)
    BY <2>2, <2>3 DEF WrittenNow, due
  <2> QED BY <1>3, <2>2, <2>3, <2>6, <2>7, <2>8, <2>9 DEF EntryRenewed, z
<1>6. CASE ~(k > 0)
  <2>1. z = [cur |-> cur, stab |-> stab, pend |-> m.pend, idx |-> k, due |-> m.due]
    BY <1>0, <1>4, <1>6
  <2> HIDE DEF stab
  <2>2. z.cur = cur /\ z.stab = stab /\ z.pend = m.pend /\ z.due = m.due /\ m.pend = <<>>
    BY <1>2, <1>6, <2>1
  <2>3. ~m.stab.exists => stab.exists /\ stab.obs = o
    BY DEF stab, DeferStable
  <2>4. m.stab.exists => stab.exists /\ Renews(m.stab.obs, stab.obs, o) /\ stab.obs.last = o.last
    <3> SUFFICES ASSUME m.stab.exists
                 PROVE  stab.exists /\ Renews(m.stab.obs, stab.obs, o) /\ stab.obs.last = o.last
        OBVIOUS
    <3> DEFINE d == m.stab.obs
               mv == o.auth \/ (d.src = "relative" /\ o.src = "absolute")
               f == Until(d, o, mv)
    <3>1. stab.exists /\ stab.obs = f
      BY DEF stab, DeferStable
    <3>2. d \in Observations
      BY <1>1, AllOfCases
    <3>3. mv \in BOOLEAN
      OBVIOUS
    <3> HIDE DEF d, mv
    <3>4. Renews(d, f, o) /\ f.last = o.last
      BY <1>1, <3>2, <3>3, RenewedEntry
    <3> QED BY <3>1, <3>4 DEF d
  <2>5. z.stab.exists
    BY <1>1, <2>2, <2>3, <2>4 DEF MachineRight, Known
  <2> QED BY <1>3, <2>2, <2>3, <2>4, <2>5 DEF DeferredRenewed, z
<1>7. k > 0 \/ ~(k > 0)
  OBVIOUS
<1> QED BY <1>5, <1>6, <1>7

\* Whatever an observation does to the machine is one of these.
Merges(m, z, o) ==
    \/ z = m
    \/ Led(m, z, o)
    \/ SameMoment(m, z, o)
    \/ EntryRenewed(m, z, o)
    \/ DeferredRenewed(m, z, o)

\* One observation does one of these (mergeCodexQuotaHistoryObservation).
LEMMA MergeIsOne ==
    ASSUME NEW m, NEW o, NEW cs, CyclesRight(cs), NEW trusted, MachineRight(m, cs, trusted), m.cur.loaded,
           o \in Observations, o.first = o.last, o.auth => trusted
    PROVE  Merges(m, Merge(m, o), o)
<1> DEFINE moved == MovesBoundary(m.cur, o)
           z == Merge(m, o)
<1>1. /\ m.cur \in States /\ m.cur.last \in Int /\ o.last \in Int /\ m.cur.found \in BOOLEAN
      /\ m.cur.pct \in Int /\ o.pct \in Int /\ m.cur.ws \in Int /\ o.ws \in Int
      /\ m.cur.reset \in Int /\ o.reset \in Int
  BY StateTypes, ObservationTypes DEF MachineRight, Known
<1>2. moved \in BOOLEAN
  BY ObservationTypes DEF MovesBoundary
<1>3. ~m.cur.found \/ ~Late(m.cur, o) => Arrives(m, o, cs, trusted)
  <2>1. m.cur.found /\ ~Late(m.cur, o) => m.cur.last <= o.last
    BY <1>1 DEF Late
  <2> QED BY <1>1, <2>1 DEF Arrives
<1>4. CASE ~m.cur.found
  <2>1. z = Change(m, o)
    BY <1>4 DEF Merge
  <2>2. Arrives(m, o, cs, trusted) /\ Leads(m.cur, o)
    BY <1>3, <1>4 DEF Leads
  <2> QED BY <2>1, <2>2, ChangeLeads DEF Merges
<1>5. CASE m.cur.found /\ Late(m.cur, o)
  <2>1. z = m
    BY <1>5 DEF Merge
  <2> QED BY <2>1 DEF Merges
<1>6. CASE m.cur.found /\ ~Late(m.cur, o)
  <2>0. Arrives(m, o, cs, trusted) /\ m.cur.last <= o.last
    BY <1>3, <1>6 DEF Arrives
  <2>1. CASE ~SameCycle(m.cur, o)
    <3>1. z = Change(m, o)
      BY <1>6, <2>1 DEF Merge
    <3>2. Leads(m.cur, o)
      BY <1>6, <2>0, <2>1 DEF Leads, Late, SameCycle
    <3> QED BY <2>0, <3>1, <3>2, ChangeLeads DEF Merges
  <2>2. CASE SameCycle(m.cur, o)
    <3>0. z = IF o.pct > m.cur.pct /\ o.auth THEN Change(m, o)
              ELSE IF o.last = m.cur.last THEN (IF moved THEN Calibrate(m, o) ELSE m)
              ELSE IF o.pct > m.cur.pct THEN m
              ELSE IF o.pct = m.cur.pct THEN Repeat(m, o, moved)
              ELSE Change(m, o)
      BY <1>6, <2>2 DEF Merge
    <3> HIDE DEF moved, z
    <3>1. CASE o.pct > m.cur.pct /\ o.auth
      <4>1. Leads(m.cur, o) /\ z = Change(m, o)
        BY <2>0, <2>2, <3>0, <3>1 DEF Leads
      <4> QED BY <2>0, <4>1, ChangeLeads DEF Merges, z
    <3>2. CASE z = m
      BY <3>2 DEF Merges, z
    <3>3. CASE o.last = m.cur.last /\ z = Calibrate(m, o)
      BY <1>6, <2>0, <2>2, <3>3, CalibrateRenews DEF Merges, z
    <3>4. CASE o.last # m.cur.last /\ o.pct = m.cur.pct /\ z = Repeat(m, o, moved)
      <4>1. m.cur.last < o.last
        BY <1>1, <2>0, <3>4
      <4> QED BY <1>2, <1>6, <2>0, <2>2, <3>4, <4>1, RepeatRenews DEF Merges, z
    <3>5. CASE o.last # m.cur.last /\ ~(o.pct > m.cur.pct) /\ o.pct # m.cur.pct /\ z = Change(m, o)
      <4>1. m.cur.last < o.last /\ o.pct < m.cur.pct
        BY <1>1, <2>0, <3>5
      <4>2. Leads(m.cur, o)
        BY <2>2, <4>1 DEF Leads
      <4> QED BY <2>0, <3>5, <4>2, ChangeLeads DEF Merges, z
    <3>6. \/ o.pct > m.cur.pct /\ o.auth
          \/ z = m
          \/ o.last = m.cur.last /\ z = Calibrate(m, o)
          \/ o.last # m.cur.last /\ o.pct = m.cur.pct /\ z = Repeat(m, o, moved)
          \/ o.last # m.cur.last /\ ~(o.pct > m.cur.pct) /\ o.pct # m.cur.pct /\ z = Change(m, o)
      BY <3>0
    <3> QED BY <3>1, <3>2, <3>3, <3>4, <3>5, <3>6
  <2> QED BY <2>1, <2>2
<1> QED BY <1>1, <1>4, <1>5, <1>6

-----------------------------------------------------------------------------
(* The machine's reset times and times are those of what it was told.         *)

InSets(v, G, H) == v.reset \in G /\ v.last \in H

\* All the machine remembers and would write has reset times of G and times of H.
Within(m, G, H) ==
    /\ m.cur.found => InSets(m.cur, G, H)
    /\ \A i \in 1 .. Len(AllOf(m)) : InSets(AllOf(m)[i], G, H)

\* What is brought up to o has the times of both.
LEMMA StateWithin ==
    ASSUME NEW G, NEW H, NEW cur, NEW c, NEW o, InSets(cur, G, H), InSets(o, G, H), StateRenewed(cur, c, o)
    PROVE  InSets(c, G, H)
BY DEF InSets, StateRenewed

\* An observation with the percentage that is remembered.
LEMMA SamePercent ==
    ASSUME NEW o \in Observations, NEW pct \in Int, NEW e, e = [o EXCEPT !.pct = pct]
    PROVE  /\ e \in Observations /\ e.ws = o.ws /\ e.reset = o.reset /\ e.first = o.first
           /\ e.last = o.last /\ e.pct = pct /\ e.auth = o.auth
BY DEF Observations

\* The machine learns no time but that of o.
LEMMA MergesWithin ==
    ASSUME NEW G, NEW H, NEW m, NEW z, NEW cs, NEW trusted, MachineRight(m, cs, trusted),
           MachineRight(z, cs, trusted), NEW o \in Observations, Merges(m, z, o),
           Within(m, G, H), InSets(o, G, H)
    PROVE  Within(z, G, H)
<1> DEFINE L == AllOf(m)
           M == AllOf(z)
           N == Len(L)
<1>1. L \in Seq(Observations) /\ M \in Seq(Observations) /\ N \in Nat
  <2>1. L \in Seq(Observations) /\ M \in Seq(Observations)
    BY AllOfCases
  <2> QED BY <2>1
<1>2. (m.cur.found => InSets(m.cur, G, H)) /\ \A i \in 1 .. N : InSets(L[i], G, H)
  BY DEF Within
<1>3. m.cur \in States
  BY DEF MachineRight, Known
<1> HIDE DEF L, M
<1>4. CASE z = m
  BY <1>4
<1>5. CASE Led(m, z, o)
  <2>1. z.cur = StateOf(o) /\ M = Append(L, o)
    BY <1>5 DEF Led, L, M
  <2>2. InSets(z.cur, G, H)
    BY <2>1 DEF InSets, StateOf
  <2>3. \A i \in 1 .. Len(M) : InSets(M[i], G, H)
    BY <1>1, <1>2, <2>1, AppendedRows
  <2> QED BY <2>2, <2>3 DEF Within, M
<1>6. CASE SameMoment(m, z, o)
  <2> DEFINE e == [o EXCEPT !.pct = m.cur.pct]
  <2>1. m.cur.found /\ StateRenewed(m.cur, z.cur, o) /\ M = Append(L, e)
    BY <1>6 DEF SameMoment, L, M
  <2>2. InSets(z.cur, G, H)
    BY <1>2, <2>1, StateWithin
  <2>3. e \in Observations /\ e.reset = o.reset /\ e.last = o.last
    BY <1>3, StateTypes, SamePercent
  <2> HIDE DEF e
  <2>4. InSets(e, G, H)
    BY <2>3 DEF InSets
  <2>5. \A i \in 1 .. Len(M) : InSets(M[i], G, H)
    BY <1>1, <1>2, <2>1, <2>3, <2>4, AppendedRows
  <2> QED BY <2>2, <2>5 DEF Within, M
<1>7. CASE EntryRenewed(m, z, o)
  <2>1. m.cur.found /\ StateRenewed(m.cur, z.cur, o) /\ m.pend # <<>>
    BY <1>7 DEF EntryRenewed
  <2>2. PICK e : /\ Renews(L[N], e, o) /\ M = [L EXCEPT ![N] = e]
                 /\ e.last = o.last \/ e.last = L[N].last
    BY <1>7 DEF EntryRenewed, L, M
  <2>3. N \in 1 .. N
    <3>1. L = m.pend /\ L # <<>>
      BY <2>1, AllOfCases DEF L
    <3> QED BY <1>1, <3>1
  <2>4. InSets(z.cur, G, H)
    BY <1>2, <2>1, StateWithin
  <2>5. InSets(e, G, H) /\ e \in Observations
    BY <1>2, <2>2, <2>3 DEF InSets, Renews
  <2>6. Len(M) = N /\ \A k \in 1 .. N : M[k] = IF k = N THEN e ELSE L[k]
    BY <1>1, <2>2, <2>3, <2>5, ChangedRows
  <2>7. \A i \in 1 .. Len(M) : InSets(M[i], G, H)
    BY <1>2, <2>5, <2>6
  <2> QED BY <2>4, <2>7 DEF Within, M
<1>8. CASE DeferredRenewed(m, z, o)
  <2>1. /\ m.cur.found /\ StateRenewed(m.cur, z.cur, o) /\ z.stab.exists
        /\ (~m.stab.exists => z.stab.obs = o)
        /\ (m.stab.exists => Renews(m.stab.obs, z.stab.obs, o) /\ z.stab.obs.last = o.last)
    BY <1>8 DEF DeferredRenewed
  <2>2. InSets(z.cur, G, H)
    BY <1>2, <2>1, StateWithin
  <2>3. M = <<z.stab.obs>>
    BY <2>1, AllOfCases DEF M
  <2>4. InSets(z.stab.obs, G, H)
    <3>1. CASE ~m.stab.exists
      BY <2>1, <3>1
    <3>2. CASE m.stab.exists
      <4>1. L = <<m.stab.obs>>
        BY <3>2, AllOfCases DEF L
      <4>2. InSets(m.stab.obs, G, H)
        BY <1>2, <4>1
      <4> QED BY <2>1, <3>2, <4>2 DEF InSets, Renews
    <3> QED BY <3>1, <3>2
  <2>5. \A i \in 1 .. Len(M) : InSets(M[i], G, H)
    BY <2>3, <2>4
  <2> QED BY <2>2, <2>5 DEF Within, M
<1> QED BY <1>4, <1>5, <1>6, <1>7, <1>8 DEF Merges

-----------------------------------------------------------------------------
(* How what the machine writes follows what is stored.                        *)

Viewed(v) == v.ws \in Int /\ v.reset \in Int /\ v.pct \in Int /\ v.last \in Int

\* v shows the window as c does; the time of v may be behind, if it is one of T.
Agrees(v, c, T) ==
    /\ v.ws = c.ws /\ Near(v.reset, c.reset) /\ v.pct = c.pct
    /\ v.last = c.last \/ (v.last < c.last /\ v.last \in T)

\* The same percentage, seen later.
Repeats(v, p) == v.ws = p.ws /\ Near(v.reset, p.reset) /\ p.pct = v.pct /\ v.last < p.first

\* After v, the transaction makes of p what the machine does.
Fits(v, p, T) ==
    \/ v.ws # p.ws
    \/ v.ws = p.ws /\ ~Near(v.reset, p.reset) /\ v.reset < p.reset
    \/ v.ws = p.ws /\ Near(v.reset, p.reset) /\ p.pct < v.pct /\ v.last < p.first
    \/ v.ws = p.ws /\ Near(v.reset, p.reset) /\ p.auth /\ v.pct < p.pct
    \/ Repeats(v, p)
    \/ v.ws = p.ws /\ Near(v.reset, p.reset) /\ p.pct = v.pct /\ v.last = p.first /\ v.last \in T

\* What begins something for the memory does so for the transaction.
LEMMA LeadFits ==
    ASSUME NEW G, Classes(G), NEW T, NEW v, Viewed(v), NEW c, Viewed(c), c.found, Agrees(v, c, T),
           NEW o \in Observations, o.first = o.last, Leads(c, o),
           v.reset \in G, c.reset \in G, o.reset \in G
    PROVE  Fits(v, o, T)
<1>1. /\ v.reset \in Int /\ c.reset \in Int /\ o.reset \in Int /\ v.last \in Int /\ c.last \in Int
      /\ o.last \in Int /\ o.pct \in Int /\ c.pct \in Int /\ v.pct \in Int
  BY ObservationTypes DEF Viewed
<1>2. v.ws = c.ws /\ Near(v.reset, c.reset) /\ v.pct = c.pct /\ v.last <= c.last
  BY <1>1 DEF Agrees
<1>3. Near(c.reset, v.reset) /\ Near(o.reset, o.reset)
  BY <1>1, <1>2, NearIsEven
<1>4. CASE c.ws # o.ws
  BY <1>2, <1>4 DEF Fits
<1>5. CASE c.ws = o.ws /\ ~Near(c.reset, o.reset) /\ ~(o.reset < c.reset)
  <2>1. c.reset < o.reset
    BY <1>1, <1>3, <1>5
  <2>2. v.reset < o.reset /\ ~Near(v.reset, o.reset)
    BY <1>3, <1>5, <2>1, ClassesApart
  <2> QED BY <1>2, <1>5, <2>2 DEF Fits
<1>6. SameCycle(c, o) => v.ws = o.ws /\ Near(v.reset, o.reset)
  BY <1>2 DEF SameCycle, Classes
<1>7. CASE SameCycle(c, o) /\ o.auth /\ o.pct > c.pct
  BY <1>1, <1>2, <1>6, <1>7 DEF Fits
<1>8. CASE SameCycle(c, o) /\ o.pct < c.pct /\ c.last < o.last
  <2>1. o.pct < v.pct /\ v.last < o.first
    BY <1>1, <1>2, <1>8
  <2> QED BY <1>6, <1>8, <2>1 DEF Fits
<1> QED BY <1>4, <1>5, <1>7, <1>8 DEF Leads

\* A second input of the moment that is stored last.
LEMMA MomentFits ==
    ASSUME NEW G, Classes(G), NEW T, NEW v, Viewed(v), NEW c, Viewed(c), Agrees(v, c, T),
           NEW o \in Observations, o.first = o.last, SameCycle(c, o), o.last = c.last, o.last \in T,
           v.reset \in G, c.reset \in G, o.reset \in G, NEW e, e = [o EXCEPT !.pct = c.pct],
           NEW d, StateRenewed(c, d, o)
    PROVE  Fits(v, e, T) /\ e \in Observations /\ Agrees(e, d, T)
<1>1. /\ e \in Observations /\ e.ws = o.ws /\ e.reset = o.reset /\ e.first = o.first
      /\ e.last = o.last /\ e.pct = c.pct /\ o.reset \in Int /\ c.reset \in Int
  BY SamePercent, ObservationTypes DEF Viewed
<1>2. v.ws = c.ws /\ Near(v.reset, c.reset) /\ v.pct = c.pct /\ (v.last = c.last \/ v.last < c.last)
  BY DEF Agrees
<1>3. c.ws = o.ws /\ Near(c.reset, o.reset) /\ Near(v.reset, o.reset)
  BY <1>2 DEF SameCycle, Classes
<1>4. Fits(v, e, T)
  BY <1>1, <1>2, <1>3 DEF Fits, Repeats
<1>5. Near(o.reset, c.reset) /\ Near(o.reset, o.reset)
  BY <1>1, <1>3, NearIsEven
<1>6. Agrees(e, d, T)
  BY <1>1, <1>3, <1>5 DEF Agrees, StateRenewed
<1> QED BY <1>1, <1>4, <1>6

\* An entry that is renewed fits where it fitted.
LEMMA RenewedFits ==
    ASSUME NEW G, Classes(G), NEW T, NEW v, Viewed(v), NEW p \in Observations, NEW o \in Observations,
           NEW e, Renews(p, e, o), Fits(v, p, T) \/ Repeats(v, p), Near(p.reset, o.reset),
           v.reset \in G, p.reset \in G, o.reset \in G
    PROVE  (Fits(v, p, T) => Fits(v, e, T)) /\ (Repeats(v, p) => Repeats(v, e))
<1>1. /\ v.reset \in Int /\ p.reset \in Int /\ o.reset \in Int /\ e.reset \in G /\ e.reset \in Int
      /\ e.ws = p.ws /\ e.pct = p.pct /\ e.first = p.first /\ (p.auth => e.auth)
  BY ObservationTypes DEF Viewed, Renews
<1>2. Near(v.reset, v.reset) /\ Near(p.reset, e.reset) /\ Near(e.reset, p.reset)
  BY <1>1, NearIsEven DEF Renews
<1>3. Near(v.reset, p.reset) => Near(v.reset, e.reset)
  BY <1>1, <1>2 DEF Classes
<1>4. ~Near(v.reset, p.reset) /\ v.reset < p.reset => ~Near(v.reset, e.reset) /\ v.reset < e.reset
  BY <1>1, <1>2, ClassesApart
<1>5. Repeats(v, p) => Repeats(v, e)
  BY <1>1, <1>3 DEF Repeats
<1>6. Fits(v, p, T) => Fits(v, e, T)
  BY <1>1, <1>3, <1>4, <1>5 DEF Fits
<1> QED BY <1>5, <1>6

\* It shows what is then remembered.
LEMMA RenewedAgrees ==
    ASSUME NEW G, Classes(G), NEW T, NEW p \in Observations, NEW c, Viewed(c), Agrees(p, c, T),
           NEW o \in Observations, SameCycle(c, o), NEW e, Renews(p, e, o), NEW d, StateRenewed(c, d, o),
           e.last = o.last \/ (e.last = p.last /\ o.last = c.last),
           c.reset \in G, p.reset \in G, o.reset \in G
    PROVE  Agrees(e, d, T) /\ Near(p.reset, o.reset)
<1>1. /\ p.reset \in Int /\ o.reset \in Int /\ c.reset \in Int
      /\ e.ws = p.ws /\ e.pct = p.pct /\ (e.reset = p.reset \/ e.reset = o.reset)
      /\ d.ws = c.ws /\ d.pct = c.pct /\ d.last = o.last /\ (d.reset = c.reset \/ d.reset = o.reset)
  BY ObservationTypes DEF Viewed, Renews, StateRenewed
<1>2. p.ws = c.ws /\ Near(p.reset, c.reset) /\ p.pct = c.pct /\ (p.last = c.last \/ (p.last < c.last /\ p.last \in T))
  BY DEF Agrees
<1>3. Near(c.reset, o.reset) /\ Near(p.reset, o.reset) /\ Near(o.reset, c.reset) /\ Near(o.reset, o.reset)
  <2>1. Near(c.reset, o.reset)
    BY DEF SameCycle
  <2> QED BY <1>1, <1>2, <2>1, NearIsEven DEF Classes
<1>4. Near(e.reset, d.reset)
  BY <1>1, <1>2, <1>3
<1>5. e.last = d.last \/ (e.last < d.last /\ e.last \in T)
  BY <1>1, <1>2
<1> QED BY <1>1, <1>2, <1>3, <1>4, <1>5 DEF Agrees

\* The cycle that was seen last, as it is shown.
TailView(cs) == [ws |-> cs[Len(cs)].ws, reset |-> cs[Len(cs)].reset, pct |-> TailPct(cs[Len(cs)]),
                 last |-> cs[Len(cs)].last]

Preceding(cs, L, i) == IF i = 1 THEN TailView(cs) ELSE L[i - 1]
LastView(cs, L) == IF L = <<>> THEN TailView(cs) ELSE L[Len(L)]

\* Each entry fits what precedes it; the first of all follows nothing.
Fitting(cs, L, T) ==
    \A i \in 1 .. Len(L) : (i = 1 /\ cs = <<>>) \/ Fits(Preceding(cs, L, i), L[i], T)

\* The machine follows what is stored, and its last entry is what it remembers.
Follows(cs, m, T) ==
    /\ Fitting(cs, AllOf(m), T)
    /\ m.cur.found => (cs # <<>> \/ AllOf(m) # <<>>) /\ Agrees(LastView(cs, AllOf(m)), m.cur, T)
    /\ m.stab.exists => cs # <<>> /\ Repeats(TailView(cs), m.stab.obs) /\ m.stab.obs.last = m.cur.last

\* What the cycle that was seen last shows.
LEMMA TailViewed ==
    ASSUME NEW cs, CyclesRight(cs), cs # <<>>
    PROVE  /\ Viewed(TailView(cs)) /\ Len(cs) \in 1 .. Len(cs)
           /\ TailView(cs).ws = cs[Len(cs)].ws /\ TailView(cs).reset = cs[Len(cs)].reset
           /\ TailView(cs).pct = TailPct(cs[Len(cs)]) /\ TailView(cs).last = cs[Len(cs)].last
<1>1. Len(cs) \in 1 .. Len(cs)
  BY DEF CyclesRight
<1>2. cs[Len(cs)] \in CycleRows /\ TailPct(cs[Len(cs)]) \in Int
  BY <1>1, TailTypes
<1> QED BY <1>1, <1>2, CycleTypes DEF TailView, Viewed

\* What an observation shows.
LEMMA ObservationViewed == ASSUME NEW o \in Observations PROVE Viewed(o)
BY ObservationTypes DEF Viewed

\* What is remembered shows.
LEMMA StateViewed == ASSUME NEW c \in States PROVE Viewed(c)
BY StateTypes DEF Viewed

Continues(cs, L, e, T) == (L = <<>> /\ cs = <<>>) \/ Fits(LastView(cs, L), e, T)
Replaces(cs, L, e, T) == (Len(L) = 1 /\ cs = <<>>) \/ Fits(Preceding(cs, L, Len(L)), e, T)

FitsUntil(cs, M, e, T) == Fitting(cs, M, T) /\ LastView(cs, M) = e /\ M # <<>>

\* An entry more that fits.
LEMMA FittingMore ==
    ASSUME NEW cs, NEW T, NEW L \in Seq(Observations), NEW e \in Observations, Fitting(cs, L, T),
           Continues(cs, L, e, T)
    PROVE  FitsUntil(cs, Append(L, e), e, T)
<1> DEFINE N == Len(L)
           M == Append(L, e)
<1>0. (L = <<>> /\ cs = <<>>) \/ Fits(LastView(cs, L), e, T)
  BY DEF Continues
<1>1. /\ M \in Seq(Observations) /\ N \in Nat /\ Len(M) = N + 1 /\ M[Len(M)] = e
      /\ \A k \in 1 .. N : M[k] = L[k]
      /\ \A k \in 1 .. Len(M) : k \in 1 .. N \/ k = Len(M)
  BY AppendedRows
<1>2. M # <<>> /\ LastView(cs, M) = e
  BY <1>1 DEF LastView
<1>3. L = <<>> <=> N = 0
  OBVIOUS
<1> HIDE DEF N, M
<1>4. ASSUME NEW i \in 1 .. N PROVE (i = 1 /\ cs = <<>>) \/ Fits(Preceding(cs, M, i), M[i], T)
  <2>1. (i = 1 /\ cs = <<>>) \/ Fits(Preceding(cs, L, i), L[i], T)
    BY DEF Fitting, N
  <2>2. i # 1 => i - 1 \in 1 .. N
    BY <1>1
  <2>3. Preceding(cs, M, i) = Preceding(cs, L, i) /\ M[i] = L[i]
    BY <1>1, <2>2 DEF Preceding
  <2> QED BY <2>1, <2>3
<1>5. (N + 1 = 1 /\ cs = <<>>) \/ Fits(Preceding(cs, M, N + 1), M[N + 1], T)
  <2>1. CASE N = 0
    BY <1>0, <1>1, <1>3, <2>1 DEF Preceding, LastView
  <2>2. CASE N # 0
    <3>1. N + 1 # 1 /\ (N + 1) - 1 = N /\ N \in 1 .. N
      BY <1>1, <2>2
    <3>2. Preceding(cs, M, N + 1) = L[N]
      BY <1>1, <3>1 DEF Preceding
    <3>3. LastView(cs, L) = L[N]
      BY <1>3, <2>2 DEF LastView, N
    <3> QED BY <1>0, <1>1, <1>3, <2>2, <3>2, <3>3
  <2> QED BY <2>1, <2>2
<1>6. Fitting(cs, M, T)
  BY <1>1, <1>4, <1>5 DEF Fitting
<1> QED BY <1>2, <1>6 DEF FitsUntil, M, N

\* The last entry is replaced by one that fits.
LEMMA FittingChanged ==
    ASSUME NEW cs, NEW T, NEW L \in Seq(Observations), NEW e \in Observations, Fitting(cs, L, T), L # <<>>,
           Replaces(cs, L, e, T)
    PROVE  FitsUntil(cs, [L EXCEPT ![Len(L)] = e], e, T)
<1> DEFINE N == Len(L)
           M == [L EXCEPT ![N] = e]
<1>0. N \in Nat /\ N \in 1 .. N
  OBVIOUS
<1>1. /\ M \in Seq(Observations) /\ Len(M) = N
      /\ \A k \in 1 .. N : M[k] = IF k = N THEN e ELSE L[k]
  BY <1>0, ChangedRows
<1>2. M # <<>> /\ LastView(cs, M) = e
  <2>1. M # <<>>
    BY <1>0, <1>1
  <2> QED BY <1>0, <1>1, <2>1 DEF LastView
<1>3. (N = 1 /\ cs = <<>>) \/ Fits(Preceding(cs, L, N), e, T)
  BY DEF Replaces
<1>4. \A i \in 1 .. N : (i = 1 /\ cs = <<>>) \/ Fits(Preceding(cs, L, i), L[i], T)
  BY DEF Fitting
<1> HIDE DEF N, M
<1>5. ASSUME NEW i \in 1 .. N PROVE (i = 1 /\ cs = <<>>) \/ Fits(Preceding(cs, M, i), M[i], T)
  <2>2. i # 1 => i - 1 \in 1 .. N /\ i - 1 # N
    BY <1>0
  <2>3. Preceding(cs, M, i) = Preceding(cs, L, i)
    BY <1>1, <2>2 DEF Preceding
  <2>4. CASE i = N
    BY <1>0, <1>1, <1>3, <2>3, <2>4
  <2>5. CASE i # N
    BY <1>1, <1>4, <2>3, <2>5
  <2> QED BY <2>4, <2>5
<1>6. Fitting(cs, M, T)
  BY <1>1, <1>5 DEF Fitting
<1> QED BY <1>2, <1>6 DEF FitsUntil, M, N

\* Whatever an observation does to the machine, it follows what is stored.
LEMMA MergesFollow ==
    ASSUME NEW G, Classes(G), NEW H, NEW T, NEW cs, CyclesRight(cs), ResetsIn(cs, G), NEW m, NEW z, NEW trusted,
           MachineRight(m, cs, trusted), MachineRight(z, cs, trusted), m.cur.loaded,
           NEW o \in Observations, o.first = o.last, Within(m, G, H), InSets(o, G, H),
           m.cur.found /\ o.last = m.cur.last => o.last \in T,
           Merges(m, z, o), Follows(cs, m, T)
    PROVE  Follows(cs, z, T)
<1> DEFINE L == AllOf(m)
           M == AllOf(z)
           N == Len(L)
           v == LastView(cs, L)
           c == m.cur
<1>1. L \in Seq(Observations) /\ M \in Seq(Observations) /\ N \in Nat /\ (L = <<>> <=> N = 0)
      /\ (L # <<>> => N \in 1 .. N)
  <2>1. L \in Seq(Observations) /\ M \in Seq(Observations)
    BY AllOfCases
  <2> QED BY <2>1
<1>2. /\ Fitting(cs, L, T)
      /\ c.found => (cs # <<>> \/ L # <<>>) /\ Agrees(v, c, T)
      /\ m.stab.exists => cs # <<>> /\ Repeats(TailView(cs), m.stab.obs) /\ m.stab.obs.last = c.last
  BY DEF Follows
<1>3. c \in States /\ Viewed(c) /\ c.found \in BOOLEAN
  BY StateViewed, StateTypes DEF MachineRight, Known
<1>4. ~c.found => cs = <<>> /\ L = <<>>
  <2> SUFFICES ASSUME ~c.found PROVE cs = <<>> /\ L = <<>>
      OBVIOUS
  <2>1. cs = <<>> /\ ~m.stab.exists /\ m.pend = <<>>
    BY DEF MachineRight, Known
  <2> QED BY <2>1, AllOfCases
<1>5. cs # <<>> => Viewed(TailView(cs)) /\ TailView(cs).reset \in G
  BY TailViewed DEF ResetsIn
<1>6. \A i \in 1 .. N : L[i] \in Observations /\ Viewed(L[i]) /\ L[i].reset \in G
  BY <1>1, ObservationViewed DEF Within, InSets
<1>7. c.found => Viewed(v) /\ v.reset \in G /\ c.reset \in G
  <2>1. CASE L = <<>>
    BY <1>2, <1>5, <2>1 DEF LastView, Within, InSets
  <2>2. CASE L # <<>>
    <3>1. v = L[N]
      BY <2>2 DEF LastView
    <3> QED BY <1>1, <1>6, <2>2, <3>1 DEF Within, InSets
  <2> QED BY <2>1, <2>2
<1>8. o.reset \in G /\ o.reset \in Int
  BY ObservationTypes DEF InSets
<1> HIDE DEF L, M, v, c, N
<1>9. CASE z = m
  BY <1>9
<1>10. CASE Led(m, z, o)
  <2>1. z.cur = StateOf(o) /\ M = Append(L, o) /\ Leads(c, o) /\ ~z.stab.exists
    BY <1>10 DEF Led, WrittenNow, L, M, c
  <2>2. (L = <<>> /\ cs = <<>>) \/ Fits(v, o, T)
    BY <1>2, <1>3, <1>4, <1>7, <1>8, <2>1, LeadFits
  <2>3. Fitting(cs, M, T) /\ LastView(cs, M) = o /\ M # <<>>
    <3>1. Continues(cs, L, o, T)
      BY <2>2 DEF v, Continues
    <3>2. L \in Seq(Observations) /\ o \in Observations /\ Fitting(cs, L, T) /\ M = Append(L, o)
      BY <1>1, <1>2, <2>1, <2>2
    <3>3. FitsUntil(cs, M, o, T)
      BY <3>1, <3>2, FittingMore
    <3> QED BY <3>3 DEF FitsUntil
  <2>4. Agrees(o, z.cur, T)
    <3>1. Near(o.reset, o.reset)
      BY <1>8, NearIsEven
    <3> QED BY <2>1, <3>1 DEF Agrees, StateOf
  <2> QED BY <2>1, <2>3, <2>4 DEF Follows, M
<1>11. CASE SameMoment(m, z, o)
  <2> DEFINE e == [o EXCEPT !.pct = c.pct]
  <2>1. /\ c.found /\ SameCycle(c, o) /\ StateRenewed(c, z.cur, o) /\ o.last = c.last
        /\ M = Append(L, e) /\ ~z.stab.exists
    BY <1>11 DEF SameMoment, WrittenNow, L, M, c
  <2>2. o.last \in T
    BY <2>1 DEF c
  <2>3. Fits(v, e, T) /\ e \in Observations /\ Agrees(e, z.cur, T)
    BY <1>2, <1>3, <1>7, <1>8, <2>1, <2>2, MomentFits
  <2> HIDE DEF e
  <2>4. Fitting(cs, M, T) /\ LastView(cs, M) = e /\ M # <<>>
    <3>1. Continues(cs, L, e, T)
      BY <2>3 DEF v, Continues
    <3>2. L \in Seq(Observations) /\ e \in Observations /\ Fitting(cs, L, T) /\ M = Append(L, e)
      BY <1>1, <1>2, <2>1, <2>3
    <3>3. FitsUntil(cs, M, e, T)
      BY <3>1, <3>2, FittingMore
    <3> QED BY <3>3 DEF FitsUntil
  <2> QED BY <2>1, <2>3, <2>4 DEF Follows, M
<1>12. CASE EntryRenewed(m, z, o)
  <2>1. /\ c.found /\ SameCycle(c, o) /\ StateRenewed(c, z.cur, o) /\ m.pend # <<>> /\ ~z.stab.exists
    BY <1>12 DEF EntryRenewed, WrittenNow, c
  <2>2. L # <<>> /\ N \in 1 .. N
    <3>1. L = m.pend
      BY <2>1, AllOfCases DEF L
    <3> QED BY <1>1, <2>1, <3>1
  <2> DEFINE p == L[N]
             u == Preceding(cs, L, N)
  <2>3. p \in Observations /\ p.reset \in G /\ v = p
    BY <1>6, <2>2 DEF v, LastView, N
  <2>4. PICK e : /\ Renews(p, e, o) /\ M = [L EXCEPT ![N] = e]
                 /\ e.last = o.last \/ (e.last = p.last /\ o.last = c.last)
    BY <1>12 DEF EntryRenewed, L, M, N, c
  <2>5. (N = 1 /\ cs = <<>>) \/ (Fits(u, p, T) /\ Viewed(u) /\ u.reset \in G)
    <3>1. (N = 1 /\ cs = <<>>) \/ Fits(u, p, T)
      BY <1>2, <2>2 DEF Fitting, N
    <3>2. N # 1 => N - 1 \in 1 .. N
      BY <1>1, <2>2
    <3>3. N # 1 => Viewed(u) /\ u.reset \in G
      BY <1>6, <3>2 DEF Preceding
    <3>4. N = 1 /\ cs # <<>> => Viewed(u) /\ u.reset \in G
      BY <1>5 DEF Preceding
    <3> QED BY <3>1, <3>3, <3>4
  <2> HIDE DEF p, u
  <2>6. Agrees(e, z.cur, T) /\ Near(p.reset, o.reset) /\ e \in Observations
    <3>1. Agrees(p, c, T) /\ c.reset \in G
      BY <1>2, <1>7, <2>1, <2>3
    <3>2. Agrees(e, z.cur, T) /\ Near(p.reset, o.reset)
      BY <1>3, <1>8, <2>1, <2>3, <2>4, <3>1, RenewedAgrees
    <3> QED BY <2>4, <3>2 DEF Renews
  <2>7. (N = 1 /\ cs = <<>>) \/ Fits(u, e, T)
    BY <1>8, <2>3, <2>4, <2>5, <2>6, RenewedFits
  <2>8. Fitting(cs, M, T) /\ LastView(cs, M) = e /\ M # <<>>
    <3>1. Replaces(cs, L, e, T)
      BY <2>7 DEF u, N, Replaces
    <3>2. L \in Seq(Observations) /\ e \in Observations /\ Fitting(cs, L, T) /\ L # <<>>
          /\ M = [L EXCEPT ![Len(L)] = e]
      BY <1>1, <1>2, <2>2, <2>4, <2>6 DEF N
    <3>3. FitsUntil(cs, M, e, T)
      BY <3>1, <3>2, FittingChanged
    <3> QED BY <3>3 DEF FitsUntil
  <2> QED BY <2>1, <2>6, <2>8 DEF Follows, M
<1>13. CASE DeferredRenewed(m, z, o)
  <2> DEFINE p == z.stab.obs
             t == TailView(cs)
             s == m.stab.obs
  <2>1. /\ c.found /\ SameCycle(c, o) /\ StateRenewed(c, z.cur, o) /\ z.stab.exists
        /\ c.last < o.last /\ o.pct = c.pct /\ m.pend = <<>>
        /\ (~m.stab.exists => p = o)
        /\ (m.stab.exists => Renews(s, p, o) /\ p.last = o.last)
    BY <1>13 DEF DeferredRenewed, c
  <2>2. M = <<p>> /\ p \in Observations
    BY <2>1, AllOfCases DEF M
  <2>3. cs # <<>>
    <3>1. ~m.stab.exists => L = <<>>
      BY <2>1, AllOfCases DEF L
    <3> QED BY <1>2, <2>1, <3>1
  <2>4. Viewed(t) /\ t.reset \in G
    BY <1>5, <2>3
  <2> HIDE DEF p, t, s
  <2>5. Repeats(t, p) /\ p.last = o.last /\ Agrees(p, z.cur, T)
    <3>1. CASE ~m.stab.exists
      <4>1. L = <<>> /\ v = t
        <5>1. L = <<>>
          BY <2>1, <3>1, AllOfCases DEF L
        <5> QED BY <5>1 DEF v, LastView, t
      <4>2. Agrees(t, c, T) /\ p = o /\ c.reset \in G
        BY <1>2, <1>7, <2>1, <3>1, <4>1
      <4>3. t.ws = c.ws /\ Near(t.reset, c.reset) /\ t.pct = c.pct /\ t.last <= c.last
        BY <1>3, <2>4, <4>2 DEF Agrees, Viewed
      <4>4. c.ws = o.ws /\ Near(c.reset, o.reset)
        BY <2>1 DEF SameCycle
      <4>5. t.last < o.first
        BY <1>3, <2>1, <2>2, <2>4, <4>2, <4>3, ObservationTypes DEF Viewed
      <4>6. Repeats(t, o)
        BY <1>8, <2>1, <2>4, <4>2, <4>3, <4>4, <4>5 DEF Repeats, Classes
      <4>7. Near(o.reset, c.reset) /\ Near(o.reset, o.reset)
        BY <1>3, <1>8, <4>4, NearIsEven DEF Viewed
      <4>8. Agrees(o, z.cur, T)
        BY <2>1, <4>4, <4>7 DEF Agrees, StateRenewed
      <4> QED BY <4>2, <4>6, <4>8
    <3>2. CASE m.stab.exists
      <4>1. L = <<s>> /\ s \in Observations /\ v = s /\ s.reset \in G
        <5>1. L = <<s>> /\ s \in Observations
          BY <3>2, AllOfCases DEF L, s
        <5>2. N = 1 /\ L[1] = s
          BY <5>1 DEF N
        <5> QED BY <1>6, <5>1, <5>2 DEF v, LastView
      <4>2. Repeats(t, s) /\ Renews(s, p, o) /\ p.last = o.last /\ Agrees(s, c, T) /\ c.reset \in G
        BY <1>2, <1>7, <2>1, <3>2, <4>1 DEF s, t
      <4>3. Agrees(p, z.cur, T) /\ Near(s.reset, o.reset)
        BY <1>3, <1>8, <2>1, <4>1, <4>2, RenewedAgrees
      <4>4. Repeats(t, p)
        BY <1>8, <2>4, <4>1, <4>2, <4>3, RenewedFits
      <4> QED BY <4>2, <4>3, <4>4
    <3> QED BY <3>1, <3>2
  <2>6. Fitting(cs, M, T) /\ LastView(cs, M) = p /\ M # <<>>
    <3>1. Len(M) = 1 /\ M[1] = p /\ M # <<>>
      BY <2>2
    <3>2. Fits(Preceding(cs, M, 1), M[1], T)
      BY <2>5, <3>1 DEF Preceding, Fits, t
    <3>3. \A i \in 1 .. 1 : i = 1
      OBVIOUS
    <3> QED BY <3>1, <3>2, <3>3 DEF Fitting, LastView
  <2>7. p.last = z.cur.last
    BY <2>1, <2>5 DEF StateRenewed
  <2> QED BY <2>3, <2>5, <2>6, <2>7 DEF Follows, M, p, t
<1> QED BY <1>9, <1>10, <1>11, <1>12, <1>13 DEF Merges

-----------------------------------------------------------------------------
(* What the transaction makes of what fits.                                    *)

\* The cycle that was seen last shows the window as v does.
Tells(cs, v, T) == cs # <<>> /\ Agrees(TailView(cs), v, T)

\* v shows the window, with a reset time of G.
Shown(v, G) == Viewed(v) /\ v.reset \in G

\* A new cycle shows what was observed; with another length, lengths are mixed.
LEMMA NewCycleTells ==
    ASSUME NEW cs, CyclesRight(cs), NEW p \in Observations, p.first <= p.last, NEW T
    PROVE  /\ Tells(Append(cs, NewCycle(p)), p, T)
           /\ cs # <<>> /\ p.ws # cs[Len(cs)].ws => Mixed(Append(cs, NewCycle(p)))
<1> DEFINE e == NewCycle(p)
           z == Append(cs, e)
<1>1. cs \in Seq(CycleRows) /\ CycleRight(e)
  BY NewCycleFits DEF CyclesRight
<1>2. e \in CycleRows
  BY <1>1 DEF CycleRight
<1>3. e.ws = p.ws /\ e.reset = p.reset /\ e.last = p.last /\ TailPct(e) = p.pct
  BY NewSegmentRow DEF NewCycle, TailPct
<1> HIDE DEF e
<1>4. /\ Len(cs) \in Nat /\ Len(z) = Len(cs) + 1 /\ z[Len(z)] = e
      /\ \A k \in 1 .. Len(cs) : z[k] = cs[k]
  BY <1>1, <1>2, AppendedRows
<1>5. z # <<>>
  BY <1>1, <1>2
<1> HIDE DEF z
<1>6. Near(p.reset, p.reset)
  BY ObservationTypes, NearIsEven
<1>7. Tells(z, p, T)
  BY <1>3, <1>4, <1>5, <1>6 DEF Tells, Agrees, TailView
<1>8. cs # <<>> /\ p.ws # cs[Len(cs)].ws => Mixed(z)
  <2> SUFFICES ASSUME cs # <<>>, p.ws # cs[Len(cs)].ws PROVE Mixed(z)
      OBVIOUS
  <2>1. Len(cs) \in 1 .. Len(cs)
    BY <1>1
  <2>2. Len(cs) \in 1 .. Len(z) /\ Len(z) \in 1 .. Len(z)
    BY <1>4, <2>1
  <2> QED BY <1>3, <1>4, <2>1, <2>2 DEF Mixed
<1> QED BY <1>7, <1>8 DEF z, e

\* What fits what is shown of a cycle, and of which the cycle has the reset time.
ToldOf(c, v, p, T) ==
    \/ Told(c.segs[Len(c.segs)], p)
    \/ p.pct = TailPct(c) /\ c.last = p.first /\ c.last \in T

\* What fits the view of a cycle is written to it, or is the same moment again.
LEMMA FitIsTold ==
    ASSUME NEW G, Classes(G), NEW T, NEW c, CycleRight(c), c.reset \in G, NEW v, Shown(v, G),
           v.ws = c.ws, Near(c.reset, v.reset), TailPct(c) = v.pct,
           c.last = v.last \/ (c.last < v.last /\ c.last \in T),
           NEW p \in Observations, p.reset \in G, p.ws = c.ws, Near(c.reset, p.reset), Fits(v, p, T)
    PROVE  ToldOf(c, v, p, T)
<1>1. Near(v.reset, p.reset)
  <2>1. Near(v.reset, c.reset)
    BY NearIsEven DEF Shown, Classes
  <2> QED BY <2>1 DEF Shown, Classes
<1> DEFINE s == c.segs[Len(c.segs)]
<1>2. /\ s.pct = v.pct /\ s.last = c.last /\ c.last \in Int /\ v.last \in Int /\ v.pct \in Int
      /\ p.pct \in Int /\ p.first \in Int
  BY ObservationTypes DEF CycleRight, CycleRows, TailPct, Shown, Viewed
<1> HIDE DEF s
<1>3. \/ p.pct < v.pct /\ v.last < p.first
      \/ p.auth /\ v.pct < p.pct
      \/ p.pct = v.pct /\ v.last < p.first
      \/ p.pct = v.pct /\ v.last = p.first /\ v.last \in T
  BY <1>1 DEF Fits, Repeats
<1>4. CASE p.auth /\ v.pct < p.pct
  <2>1. p.auth /\ p.pct > s.pct
    BY <1>2, <1>4
  <2> QED BY <2>1 DEF ToldOf, Told, s
<1>5. CASE p.pct <= v.pct /\ v.last < p.first
  <2>1. p.pct <= s.pct /\ s.last < p.first
    BY <1>2, <1>5
  <2> QED BY <2>1 DEF ToldOf, Told, s
<1>6. CASE p.pct = v.pct /\ v.last = p.first /\ v.last \in T
  <2>1. CASE c.last = v.last
    BY <1>6, <2>1 DEF ToldOf
  <2>2. CASE c.last < v.last
    <3>1. p.pct <= s.pct /\ s.last < p.first
      BY <1>2, <1>6, <2>2
    <3> QED BY <3>1 DEF ToldOf, Told, s
  <2> QED BY <2>1, <2>2
<1>7. p.pct <= v.pct <=> p.pct < v.pct \/ p.pct = v.pct
  BY <1>2
<1> QED BY <1>3, <1>4, <1>5, <1>6, <1>7

\* After what fits, the stored tail shows it: the transaction accepts what the
\* memory accepted (applyCodexMainQuotaObservation).
LEMMA StepFits ==
    ASSUME NEW G, Classes(G), NEW T, NEW cs, Orderly(cs, G), NEW v, Shown(v, G), Tells(cs, v, T),
           NEW p \in Observations, p.first <= p.last, After(cs, p.first), p.reset \in G, Fits(v, p, T),
           ~Mixed(Apply(cs, p))
    PROVE  Tells(Apply(cs, p), p, T)
<1> DEFINE z == Apply(cs, p)
           n == Len(cs)
           c == cs[n]
           d == Observed(Calibrated(c, p), p)
<1>1. ~Mixed(cs)
  BY ApplyOrderly
<1>2. /\ CyclesRight(cs) /\ ResetsIn(cs, G) /\ Lined(cs) /\ cs \in Seq(CycleRows)
      /\ n \in 1 .. n /\ n \in Nat /\ cs # <<>> /\ Len(cs) = n
  <2>1. CyclesRight(cs) /\ ResetsIn(cs, G) /\ Lined(cs) /\ cs \in Seq(CycleRows) /\ cs # <<>>
    BY <1>1 DEF Orderly, CyclesRight, Tells
  <2> QED BY <2>1
<1>3. CycleRight(c) /\ c \in CycleRows /\ c.reset \in G /\ c.last <= p.first
  BY <1>2 DEF CyclesRight, ResetsIn, After, CycleRight
<1>4. /\ c.ws = v.ws /\ Near(c.reset, v.reset) /\ TailPct(c) = v.pct
      /\ c.last = v.last \/ (c.last < v.last /\ c.last \in T)
  BY DEF Tells, Agrees, TailView
<1>5. /\ p.ws # c.ws => z = Append(cs, NewCycle(p))
      /\ p.ws = c.ws /\ Near(c.reset, p.reset) => z = [cs EXCEPT ![n] = d]
      /\ p.ws = c.ws /\ ~Near(c.reset, p.reset) /\ c.reset < p.reset => z = Append(cs, NewCycle(p))
      /\ p.ws = c.ws /\ ~Near(c.reset, p.reset) /\ ~(c.reset < p.reset) => z = cs
  BY <1>1, <1>2, ApplyCases
<1>6. ~Mixed(z)
  OBVIOUS
<1>7. Tells(Append(cs, NewCycle(p)), p, T) /\ (p.ws # c.ws => Mixed(Append(cs, NewCycle(p))))
  BY <1>2, NewCycleTells
<1>8. CycleTold(c, d, p)
  BY <1>3, ObservedTells
<1> HIDE DEF z, d, c, n
<1>9. p.ws = c.ws
  BY <1>5, <1>6, <1>7
<1>10. CASE Near(c.reset, p.reset)
  <2>1. z = [cs EXCEPT ![n] = d]
    BY <1>5, <1>9, <1>10
  <2>2. CycleRight(d) /\ d \in CycleRows
    BY <1>8 DEF CycleTold, CycleRight
  <2>3. z \in Seq(CycleRows) /\ Len(z) = n /\ z[n] = d /\ z # <<>>
    <3>1. z \in Seq(CycleRows) /\ Len(z) = Len(cs) /\ \A k \in 1 .. Len(cs) : z[k] = IF k = n THEN d ELSE cs[k]
      BY <1>2, <2>1, <2>2, ChangedRows
    <3> QED BY <1>2, <3>1
  <2>4. ToldOf(c, v, p, T)
    BY <1>3, <1>4, <1>9, <1>10, FitIsTold
  <2>5. TailPct(d) = p.pct /\ (d.last = p.last \/ (d.last = p.first /\ d.last \in T))
    BY <1>8, <2>4 DEF ToldOf, CycleTold
  <2>6. d.last = p.last \/ (d.last < p.last /\ d.last \in T)
    BY <2>5, ObservationTypes
  <2>7. d.ws = p.ws /\ Near(d.reset, p.reset)
    <3>1. d.ws = c.ws /\ (d.reset = c.reset \/ d.reset = p.reset)
      BY <1>8 DEF CycleTold
    <3>2. Near(p.reset, p.reset)
      BY NearIsEven, ObservationTypes
    <3> QED BY <1>9, <1>10, <3>1, <3>2
  <2>8. Agrees(TailView(z), p, T)
    BY <2>3, <2>5, <2>6, <2>7 DEF Agrees, TailView
  <2> QED BY <2>3, <2>8 DEF Tells, z
<1>11. CASE ~Near(c.reset, p.reset) /\ c.reset < p.reset
  BY <1>5, <1>7, <1>9, <1>11 DEF z
<1>12. CASE ~Near(c.reset, p.reset) /\ ~(c.reset < p.reset)
  <2>1. v.reset \in G /\ Near(v.reset, c.reset) /\ Near(p.reset, p.reset) /\ Near(c.reset, v.reset)
    BY <1>3, <1>4, NearIsEven, ObservationTypes DEF Shown, Classes
  <2>2. ~Near(v.reset, p.reset)
    BY <1>3, <1>12, <2>1 DEF Classes
  <2>3. ~(v.reset < p.reset)
    BY <1>3, <1>12, <2>1, <2>2, ClassesApart
  <2> QED BY <1>4, <1>9, <2>2, <2>3 DEF Fits, Repeats
<1> QED BY <1>10, <1>11, <1>12

\* The first observation of all.
LEMMA FirstFits ==
    ASSUME NEW p \in Observations, p.first <= p.last, NEW T
    PROVE  Tells(Apply(<<>>, p), p, T)
<1>1. CyclesRight(<<>>)
  BY DEF CyclesRight
<1>2. Apply(<<>>, p) = Append(<<>>, NewCycle(p))
  BY DEF Apply, Ignored, CycleOf
<1> QED BY <1>1, <1>2, NewCycleTells

\* The cycles were last seen at times of H.
LastsIn(cs, H) == \A i \in 1 .. Len(cs) : cs[i].last \in H

\* One observation stores no other time than its own.
LEMMA ApplyLasts ==
    ASSUME NEW cs, CyclesRight(cs), NEW o \in Observations, o.first <= o.last, After(cs, o.first),
           NEW H, LastsIn(cs, H), o.last \in H
    PROVE  LastsIn(Apply(cs, o), H) /\ Apply(cs, o) # <<>>
<1> DEFINE z == Apply(cs, o)
<1>1. cs \in Seq(CycleRows) /\ Len(cs) \in Nat /\ \A k \in 1 .. Len(cs) : CycleRight(cs[k])
  BY DEF CyclesRight
<1>2. NewCycle(o) \in CycleRows /\ NewCycle(o).last = o.last
  BY NewCycleFits DEF CycleRight
<1>3. z # <<>>
  <2>1. CASE cs = <<>>
    <3>1. Tells(Apply(<<>>, o), o, {})
      BY FirstFits
    <3> QED BY <2>1, <3>1 DEF Tells
  <2>2. CASE cs # <<>>
    <3>1. Len(cs) <= Len(z) /\ Len(z) \in Nat
      <4>1. ResetsIn(cs, Int)
        BY <1>1, CycleTypes DEF ResetsIn, CycleRight
      <4> QED BY <4>1, ApplyResets, ObservationTypes
    <3>2. Len(cs) > 0
      BY <1>1, <2>2
    <3> QED BY <1>1, <3>1, <3>2
  <2> QED BY <2>1, <2>2
<1>4. Shaped(cs, z, o)
  BY ApplyShape
<1> HIDE DEF z
<1>5. CASE z = cs
  BY <1>3, <1>5 DEF z
<1>6. CASE z = Append(cs, NewCycle(o))
  <2>1. /\ Len(z) = Len(cs) + 1 /\ z[Len(z)] = NewCycle(o)
        /\ \A k \in 1 .. Len(cs) : z[k] = cs[k]
        /\ \A k \in 1 .. Len(z) : k \in 1 .. Len(cs) \/ k = Len(z)
    BY <1>1, <1>2, <1>6, AppendedRows
  <2>2. LastsIn(z, H)
    BY <1>2, <2>1 DEF LastsIn
  <2> QED BY <1>3, <2>2 DEF z
<1>7. ASSUME NEW i \in 1 .. Len(cs), NEW d, CycleTold(cs[i], d, o), z = [cs EXCEPT ![i] = d]
      PROVE  LastsIn(z, H)
  <2>1. d \in CycleRows /\ (d.last = cs[i].last \/ d.last = o.last)
    BY <1>7 DEF CycleTold, CycleRight
  <2>2. Len(z) = Len(cs) /\ \A k \in 1 .. Len(cs) : z[k] = IF k = i THEN d ELSE cs[k]
    BY <1>1, <1>7, <2>1, ChangedRows
  <2> QED BY <2>1, <2>2 DEF LastsIn
<1> QED BY <1>3, <1>4, <1>5, <1>6, <1>7 DEF Shaped, z

\* What is written: in order, later than what is stored, with reset times of G
\* and times of H.
Writes(cs, L, G, H) ==
    /\ Chain(L)
    /\ \A i \in 1 .. Len(L) : After(cs, L[i].first) /\ InSets(L[i], G, H)

\* The transaction, after some of it.
Proceeds(z, o, G, H) ==
    /\ Orderly(z, G) /\ LastsIn(z, H) /\ z # <<>> /\ After(z, o.last)

\* All the way through the transaction the cycles are in line.
LEMMA WrittenProceeds ==
    ASSUME NEW G, NEW H, NEW cs, Orderly(cs, G), LastsIn(cs, H), NEW L, Writes(cs, L, G, H)
    PROVE  \A n \in 1 .. Len(L) : /\ Proceeds(Written(cs, L)[n], L[n], G, H)
                                  /\ Orderly(Written(cs, L)[n - 1], G)
                                  /\ After(Written(cs, L)[n - 1], L[n].first)
<1> DEFINE W == Written(cs, L)
           N == Len(L)
           Good(n) == /\ Proceeds(W[n], L[n], G, H)
                      /\ Orderly(W[n - 1], G) /\ After(W[n - 1], L[n].first)
           Bad == {n \in 1 .. N : ~Good(n)}
<1>1. L \in Seq(Observations) /\ N \in Nat /\ DOMAIN L = 1 .. N
  BY DEF Chain, Writes
<1>2. W[0] = cs /\ \A n \in 1 .. N : W[n] = Apply(W[n - 1], L[n])
  BY <1>1, WrittenRuns
<1>3. \A i \in 1 .. N : /\ L[i] \in Observations /\ L[i].first <= L[i].last
                        /\ L[i].first \in Int /\ L[i].last \in Int
                        /\ L[i].reset \in G /\ L[i].last \in H /\ After(cs, L[i].first)
  BY <1>1, ObservationTypes DEF Chain, Writes, InSets
<1> HIDE DEF W
<1>4. SUFFICES ASSUME Bad # {} PROVE FALSE
  BY DEF W
<1>5. Bad \subseteq Nat
  BY <1>1
<1>6. PICK n \in Bad : \A k \in Bad : n <= k
  BY <1>4, <1>5, NaturalsHaveLeast
<1>7. n \in 1 .. N /\ n \in Nat /\ ~Good(n)
  BY <1>5
<1> DEFINE o == L[n]
           z == W[n - 1]
<1>8. o \in Observations /\ o.first <= o.last /\ o.first \in Int /\ o.last \in Int /\ o.reset \in G /\ o.last \in H
  BY <1>3, <1>7
<1>9. Orderly(z, G) /\ LastsIn(z, H) /\ After(z, o.first)
  <2>1. CASE n = 1
    BY <1>2, <1>3, <1>7, <2>1
  <2>2. CASE n # 1
    <3>1. n - 1 \in 1 .. N /\ n - 1 < n /\ n - 1 \in Nat
      BY <1>1, <1>7, <2>2
    <3>2. Proceeds(z, L[n - 1], G, H)
      BY <1>5, <1>6, <3>1
    <3>3. L[n - 1].last <= o.first /\ L[n - 1].last \in Int
      BY <1>1, <1>3, <1>7, <3>1 DEF Chain, Writes
    <3>4. CyclesRight(z) /\ After(z, L[n - 1].last)
      BY <3>2 DEF Proceeds, Orderly
    <3>5. After(z, o.first)
      BY <1>8, <3>3, <3>4, LaterStays
    <3> QED BY <3>2, <3>5 DEF Proceeds
  <2> QED BY <2>1, <2>2
<1>10. W[n] = Apply(z, o)
  BY <1>2, <1>7
<1> HIDE DEF z, o
<1>11. CyclesRight(z)
  BY <1>9 DEF Orderly
<1>12. Orderly(Apply(z, o), G)
  BY <1>8, <1>9, ApplyOrderly
<1>13. LastsIn(Apply(z, o), H) /\ Apply(z, o) # <<>>
  BY <1>8, <1>9, <1>11, ApplyLasts
<1>14. After(Apply(z, o), o.last)
  <2>1. Stored(z, o.first)
    BY <1>9, <1>11, StoredIsRight
  <2>2. Stored(Apply(z, o), o.last)
    BY <1>8, <2>1, ApplyKeeps
  <2> QED BY <2>2, StoredIsRight
<1>15. Proceeds(W[n], L[n], G, H)
  BY <1>10, <1>12, <1>13, <1>14 DEF Proceeds, o
<1> QED BY <1>7, <1>9, <1>15 DEF z, o

\* What is mixed stays mixed.
LEMMA MixedStays ==
    ASSUME NEW G, NEW H, NEW cs, Orderly(cs, G), LastsIn(cs, H), NEW L, Writes(cs, L, G, H),
           NEW n \in 1 .. Len(L), ~Mixed(Written(cs, L)[n])
    PROVE  ~Mixed(Written(cs, L)[n - 1])
<1> DEFINE z == Written(cs, L)[n - 1]
<1>1. L \in Seq(Observations) /\ Len(L) \in Nat /\ L[n] \in Observations
      /\ L[n].first <= L[n].last /\ L[n].reset \in G
  BY DEF Chain, Writes, InSets
<1>2. Written(cs, L)[n] = Apply(z, L[n])
  BY <1>1, WrittenRuns
<1>3. Orderly(z, G) /\ After(z, L[n].first)
  BY WrittenProceeds
<1> HIDE DEF z
<1>4. Mixed(z) => Mixed(Apply(z, L[n]))
  BY <1>1, <1>3, ApplyOrderly
<1> QED BY <1>2, <1>4 DEF z

\* What is stored then shows what was written last.
LEMMA WrittenTells ==
    ASSUME NEW G, Classes(G), NEW H, NEW T, NEW cs, Orderly(cs, G), LastsIn(cs, H), NEW L, Writes(cs, L, G, H),
           Fitting(cs, L, T)
    PROVE  \A n \in 1 .. Len(L) : ~Mixed(Written(cs, L)[n]) => Tells(Written(cs, L)[n], L[n], T)
<1> DEFINE W == Written(cs, L)
           N == Len(L)
           Good(n) == ~Mixed(W[n]) => Tells(W[n], L[n], T)
           Bad == {n \in 1 .. N : ~Good(n)}
<1>1. L \in Seq(Observations) /\ N \in Nat /\ DOMAIN L = 1 .. N
  BY DEF Chain, Writes
<1>2. W[0] = cs /\ \A n \in 1 .. N : W[n] = Apply(W[n - 1], L[n])
  BY <1>1, WrittenRuns
<1>3. \A i \in 1 .. N : /\ L[i] \in Observations /\ L[i].first <= L[i].last /\ L[i].reset \in G
                        /\ Viewed(L[i]) /\ Shown(L[i], G)
  BY <1>1, ObservationViewed DEF Chain, Writes, InSets, Shown
<1>4. \A n \in 1 .. N : Orderly(W[n - 1], G) /\ After(W[n - 1], L[n].first)
  BY WrittenProceeds
<1>5. \A n \in 1 .. N : ~Mixed(W[n]) => ~Mixed(W[n - 1])
  BY MixedStays
<1> HIDE DEF W
<1>6. SUFFICES ASSUME Bad # {} PROVE FALSE
  BY DEF W
<1>7. Bad \subseteq Nat
  BY <1>1
<1>8. PICK n \in Bad : \A k \in Bad : n <= k
  BY <1>6, <1>7, NaturalsHaveLeast
<1>9. n \in 1 .. N /\ n \in Nat /\ ~Mixed(W[n]) /\ ~Tells(W[n], L[n], T)
  BY <1>7
<1> DEFINE o == L[n]
           z == W[n - 1]
<1>10. /\ o \in Observations /\ o.first <= o.last /\ o.reset \in G
       /\ W[n] = Apply(z, o) /\ Orderly(z, G) /\ After(z, o.first) /\ ~Mixed(z)
  BY <1>2, <1>3, <1>4, <1>5, <1>9
<1>11. (n = 1 /\ cs = <<>>) \/ Fits(Preceding(cs, L, n), o, T)
  BY <1>9 DEF Fitting
<1>12. ASSUME NEW v, Shown(v, G), Tells(z, v, T), Fits(v, o, T) PROVE FALSE
  <2> HIDE DEF z, o
  <2>1. Tells(Apply(z, o), o, T)
    BY <1>9, <1>10, <1>12, StepFits
  <2> QED BY <1>9, <1>10, <2>1 DEF o
<1>13. CASE n = 1 /\ cs = <<>>
  <2>1. z = <<>>
    BY <1>2, <1>13
  <2> HIDE DEF z, o
  <2>2. Tells(Apply(<<>>, o), o, T)
    BY <1>10, FirstFits
  <2> QED BY <1>9, <1>10, <2>1, <2>2 DEF o
<1>14. CASE n = 1 /\ cs # <<>>
  <2> DEFINE v == TailView(cs)
  <2>1. z = cs
    BY <1>2, <1>14
  <2>2. CyclesRight(cs) /\ ResetsIn(cs, G)
    BY DEF Orderly
  <2>3. Shown(v, G)
    BY <1>14, <2>2, TailViewed DEF Shown, ResetsIn
  <2>4. Near(v.reset, v.reset)
    BY <2>3, NearIsEven DEF Shown, Viewed
  <2>5. Fits(v, o, T)
    BY <1>11, <1>14 DEF Preceding
  <2> HIDE DEF v, z, o
  <2>6. Agrees(v, v, T)
    BY <2>4 DEF Agrees
  <2>7. Tells(z, v, T)
    BY <1>14, <2>1, <2>6 DEF Tells, v
  <2> QED BY <1>12, <2>3, <2>5, <2>7
<1>15. CASE n # 1
  <2>1. n - 1 \in 1 .. N /\ n - 1 < n /\ n - 1 \in Nat
    BY <1>1, <1>9, <1>15
  <2>2. Good(n - 1)
    BY <1>7, <1>8, <2>1
  <2>3. Tells(z, L[n - 1], T) /\ Shown(L[n - 1], G)
    BY <1>3, <1>10, <2>1, <2>2
  <2>4. Fits(L[n - 1], o, T)
    BY <1>11, <1>15 DEF Preceding
  <2> QED BY <1>12, <2>3, <2>4
<1> QED BY <1>13, <1>14, <1>15

\* Lengths that are not mixed afterwards were not before.
LEMMA MixedNever ==
    ASSUME NEW G, NEW H, NEW cs, Orderly(cs, G), LastsIn(cs, H), NEW L, Writes(cs, L, G, H)
    PROVE  \A n \in 1 .. Len(L) : ~Mixed(Written(cs, L)[n]) => ~Mixed(cs)
<1> DEFINE W == Written(cs, L)
           N == Len(L)
           Good(n) == ~Mixed(W[n]) => ~Mixed(cs)
           Bad == {n \in 1 .. N : ~Good(n)}
<1>1. N \in Nat /\ W[0] = cs
  BY WrittenRuns DEF Chain, Writes
<1>2. \A n \in 1 .. N : ~Mixed(W[n]) => ~Mixed(W[n - 1])
  BY MixedStays
<1> HIDE DEF W
<1>3. SUFFICES ASSUME Bad # {} PROVE FALSE
  BY DEF W
<1>4. Bad \subseteq Nat
  BY <1>1
<1>5. PICK n \in Bad : \A k \in Bad : n <= k
  BY <1>3, <1>4, NaturalsHaveLeast
<1>6. n \in 1 .. N /\ n \in Nat /\ ~Mixed(W[n]) /\ Mixed(cs)
  BY <1>4
<1>7. CASE n = 1
  BY <1>1, <1>2, <1>6, <1>7
<1>8. CASE n # 1
  <2>1. n - 1 \in 1 .. N /\ n - 1 < n /\ n - 1 \in Nat
    BY <1>1, <1>6, <1>8
  <2>2. Good(n - 1)
    BY <1>4, <1>5, <2>1
  <2> QED BY <1>2, <1>6, <2>2
<1> QED BY <1>7, <1>8

\* What agrees with what agrees.
LEMMA AgreesThrough ==
    ASSUME NEW G, Classes(G), NEW T, NEW u, Shown(u, G), NEW v, Shown(v, G), NEW c, Shown(c, G),
           Agrees(u, v, T), Agrees(v, c, T)
    PROVE  Agrees(u, c, T)
<1>1. Near(u.reset, c.reset)
  BY DEF Agrees, Shown, Classes
<1>2. u.last = c.last \/ (u.last < c.last /\ u.last \in T)
  BY DEF Agrees, Shown, Viewed
<1> QED BY <1>1, <1>2 DEF Agrees

-----------------------------------------------------------------------------
(* A window: what is stored, what is remembered, and what the batch makes.    *)

\* The window is known just if something of it is stored, or is about to be.
Loads(cs, m) == m.cur.found <=> cs # <<>> \/ m.pend # <<>>

\* A window is remembered when something of it is stored or pending.
LEMMA MergesLoad ==
    ASSUME NEW cs, NEW trusted, NEW m, NEW z, MachineRight(m, cs, trusted), MachineRight(z, cs, trusted),
           NEW o, Merges(m, z, o), Loads(cs, m)
    PROVE  Loads(cs, z)
<1>1. AllOf(m) \in Seq(Observations) /\ Len(AllOf(m)) \in Nat
  BY AllOfCases
<1>2. CASE z = m
  BY <1>2
<1>3. ASSUME NEW e, ~z.stab.exists, AllOf(z) = Append(AllOf(m), e), z.cur.found PROVE Loads(cs, z)
  <2>1. z.pend = AllOf(z)
    BY <1>3, AllOfCases
  <2>2. Len(Append(AllOf(m), e)) = Len(AllOf(m)) + 1
    BY <1>1
  <2>3. z.pend # <<>>
    BY <1>1, <1>3, <2>1, <2>2
  <2> QED BY <1>3, <2>3 DEF Loads
<1>4. CASE Led(m, z, o)
  BY <1>3, <1>4 DEF Led, WrittenNow, StateOf
<1>5. CASE SameMoment(m, z, o)
  BY <1>3, <1>5 DEF SameMoment, WrittenNow, StateRenewed
<1>6. CASE EntryRenewed(m, z, o)
  <2>1. ~z.stab.exists /\ z.cur.found /\ m.pend # <<>>
    BY <1>6 DEF EntryRenewed, WrittenNow, StateRenewed
  <2>2. z.pend = AllOf(z) /\ AllOf(m) # <<>>
    BY <2>1, AllOfCases
  <2>3. PICK e : AllOf(z) = [AllOf(m) EXCEPT ![Len(AllOf(m))] = e]
    BY <1>6 DEF EntryRenewed
  <2>4. Len(AllOf(m)) > 0 /\ AllOf(z) \in Seq(Observations)
    BY <1>1, <2>2, AllOfCases
  <2>5. DOMAIN AllOf(z) = DOMAIN AllOf(m)
    BY <2>3
  <2>6. z.pend # <<>>
    BY <1>1, <2>2, <2>4, <2>5
  <2> QED BY <2>1, <2>6 DEF Loads
<1>7. CASE DeferredRenewed(m, z, o)
  BY <1>7 DEF DeferredRenewed, StateRenewed, Loads
<1> QED BY <1>2, <1>4, <1>5, <1>6, <1>7 DEF Merges

\* The machine fits what is stored; the reset times are of G, the times of H,
\* and what is stored is behind what is remembered only at times of T.
MachineFits(cs, m, G, H, T) ==
    /\ Orderly(cs, G) /\ LastsIn(cs, H) /\ Within(m, G, H)
    /\ m.cur.loaded => Loads(cs, m)
    /\ Classes(G) /\ ~Mixed(cs) => Follows(cs, m, T)

\* Everything is written, or what was deferred stays so.
LEMMA PendingIs ==
    ASSUME NEW cs, NEW trusted, NEW m, MachineRight(m, cs, trusted), NEW due
    PROVE  /\ m.stab.exists /\ m.stab.obs.last \notin due => Pending(m, due) = <<>>
           /\ ~(m.stab.exists /\ m.stab.obs.last \notin due) => Pending(m, due) = AllOf(m)
<1>1. Chain(AllOf(m))
  BY AllOfIt DEF AllOf, PendRight
<1>2. ByTime(AllOf(m)) = AllOf(m)
  BY <1>1, ChainStays
<1>3. m.stab.exists /\ m.stab.obs.last \notin due => Pending(m, due) = <<>>
  BY PendingFits
<1>4. CASE ~m.stab.exists
  <2>1. m.pend \o <<>> = m.pend /\ AllOf(m) = m.pend
    BY <1>4, AllOfCases
  <2> QED BY <1>2, <1>4, <2>1 DEF Pending
<1>5. CASE m.stab.exists /\ m.stab.obs.last \in due
  BY <1>2, <1>5 DEF Pending, AllOf
<1> QED BY <1>3, <1>4, <1>5

\* All of it may be written.
LEMMA AllOfWrites ==
    ASSUME NEW cs, NEW trusted, NEW m, MachineRight(m, cs, trusted), NEW G, NEW H, Within(m, G, H)
    PROVE  Writes(cs, AllOf(m), G, H)
<1>1. PendRight(AllOf(m), m.cur.last, cs, trusted)
  BY AllOfIt DEF AllOf
<1> QED BY <1>1 DEF PendRight, Writes, Within

\* What a machine without anything to write follows.
LEMMA NothingFollows ==
    ASSUME NEW c, NEW s, s.exists = FALSE, NEW G, NEW H, NEW T, NEW cs
    PROVE  /\ AllOf(From(c, s)) = <<>>
           /\ Within(From(c, s), G, H) <=> (c.found => InSets(c, G, H))
           /\ Follows(cs, From(c, s), T) <=> (c.found => Tells(cs, c, T))
<1>1. AllOf(From(c, s)) = <<>> /\ From(c, s).cur = c /\ From(c, s).stab = s
  BY DEF AllOf, Deferred, From
<1>2. \A i \in 1 .. Len(<<>>) : FALSE
  OBVIOUS
<1>3. Within(From(c, s), G, H) <=> (c.found => InSets(c, G, H))
  BY <1>1, <1>2 DEF Within
<1>4. Follows(cs, From(c, s), T) <=> (c.found => Tells(cs, c, T))
  BY <1>1, <1>2 DEF Follows, Fitting, LastView, Tells
<1> QED BY <1>1, <1>3, <1>4

\* A write, whatever its outcome, leaves a memory that fits what is stored.
LEMMA FlushedFits ==
    ASSUME NEW cs, NEW trusted, NEW m, MachineRight(m, cs, trusted), NEW due, NEW G, NEW H, NEW T,
           MachineFits(cs, m, G, H, T), NEW p, NEW z, NEW c, NEW s, FlushedTo(m, p, due, cs, z, c, s)
    PROVE  MachineFits(z, From(c, s), G, H, T)
<1> DEFINE N == Len(p)
           x == From(c, s)
           kept == m.stab.exists /\ m.stab.obs.last \notin due
<1>1. /\ p = Pending(m, due) /\ \E k \in 0 .. N : z = Written(cs, p)[k]
      /\ \/ c = Unloaded /\ s = NoStable
         \/ /\ c = m.cur
            /\ s = IF m.stab.exists /\ m.stab.obs.last \in due THEN NoStable ELSE m.stab
            /\ z = Written(cs, p)[N] \/ p = <<>>
  BY DEF FlushedTo
<1>2. (kept => p = <<>>) /\ (~kept => p = AllOf(m)) /\ (p # <<>> => m.cur.found)
  BY <1>1, PendingIs, PendingFits
<1>3. /\ Orderly(cs, G) /\ LastsIn(cs, H) /\ Within(m, G, H)
      /\ (m.cur.loaded => Loads(cs, m))
      /\ (Classes(G) /\ ~Mixed(cs) => Follows(cs, m, T))
  BY DEF MachineFits
<1>4. Writes(cs, AllOf(m), G, H) /\ AllOf(m) \in Seq(Observations)
  BY <1>3, AllOfWrites, AllOfCases
<1>5. m.stab.exists \in BOOLEAN /\ NoStable.exists = FALSE /\ Known(m.cur, m.stab, cs)
      /\ m.cur \in States /\ (m.cur.found => m.cur.loaded)
  <2>1. Known(m.cur, m.stab, cs)
    BY DEF MachineRight
  <2> QED BY <2>1 DEF NoStable, Known
<1> HIDE DEF N, kept
<1>6. CASE p = <<>>
  <2>1. z = cs
    <3>1. N = 0
      BY <1>6 DEF N
    <3>2. Written(cs, p)[0] = cs
      BY <1>6, WrittenRuns
    <3>3. \A k \in 0 .. N : k = 0
      BY <3>1
    <3> QED BY <1>1, <3>2, <3>3
  <2>2. CASE c = Unloaded /\ s = NoStable
    <3>1. c.found = FALSE /\ c.loaded = FALSE /\ x.cur = c
      BY <2>2 DEF Unloaded, From
    <3>2. s.exists = FALSE
      BY <1>5, <2>2
    <3> HIDE DEF x
    <3>3. Within(x, G, H) /\ Follows(cs, x, T)
      BY <3>1, <3>2, NothingFollows DEF x
    <3> QED BY <1>3, <2>1, <3>1, <3>3 DEF MachineFits, x
  <2>3. CASE /\ c = m.cur
             /\ s = IF m.stab.exists /\ m.stab.obs.last \in due THEN NoStable ELSE m.stab
    <3>1. m.pend = <<>>
      <4>1. CASE kept
        BY <4>1, AllOfCases DEF kept
      <4>2. CASE ~kept
        BY <1>2, <1>6, <4>2, AllOfCases
      <4> QED BY <4>1, <4>2
    <3>2. s = m.stab
      <4>1. CASE kept
        BY <2>3, <4>1 DEF kept
      <4>2. CASE ~kept
        <5>1. AllOf(m) = <<>>
          BY <1>2, <1>6, <4>2
        <5>2. m.stab.exists => AllOf(m) = <<m.stab.obs>>
          BY AllOfCases
        <5>3. ~m.stab.exists
          BY <5>1, <5>2
        <5> QED BY <2>3, <5>3
      <4> QED BY <4>1, <4>2
    <3>3. x.cur = m.cur /\ x.stab = m.stab /\ x.pend = m.pend /\ AllOf(x) = AllOf(m)
      BY <2>3, <3>1, <3>2 DEF From, AllOf, Deferred
    <3> HIDE DEF x
    <3>4. Within(x, G, H) /\ (x.cur.loaded => Loads(cs, x)) /\ (Follows(cs, m, T) => Follows(cs, x, T))
      BY <1>3, <3>3 DEF Within, Loads, Follows
    <3> QED BY <1>3, <2>1, <3>4 DEF MachineFits, x
  <2> QED BY <1>1, <2>2, <2>3
<1>7. CASE p # <<>>
  <2>1. p = AllOf(m) /\ m.cur.found /\ ~kept
    BY <1>2, <1>7
  <2>2. N \in 1 .. N /\ Writes(cs, p, G, H) /\ p \in Seq(Observations) /\ N = Len(p)
    <3>1. p \in Seq(Observations) /\ Writes(cs, p, G, H)
      BY <1>4, <2>1
    <3> QED BY <1>7, <3>1 DEF N
  <2>3. \A n \in 1 .. N : /\ Proceeds(Written(cs, p)[n], p[n], G, H)
                          /\ ~Mixed(Written(cs, p)[n]) => ~Mixed(cs)
    BY <1>3, <2>2, WrittenProceeds, MixedNever
  <2>4. Orderly(z, G) /\ LastsIn(z, H) /\ (~Mixed(z) => ~Mixed(cs)) /\ (z = Written(cs, p)[N] => z # <<>>)
    <3>1. PICK k \in 0 .. N : z = Written(cs, p)[k]
      BY <1>1
    <3>2. Written(cs, p)[0] = cs
      BY <2>2, WrittenRuns
    <3>3. k = 0 \/ k \in 1 .. N
      BY <2>2
    <3> QED BY <1>3, <2>2, <2>3, <3>1, <3>2, <3>3 DEF Proceeds
  <2>5. CASE c = Unloaded /\ s = NoStable
    <3>1. c.found = FALSE /\ c.loaded = FALSE /\ x.cur = c
      BY <2>5 DEF Unloaded, From
    <3>2. s.exists = FALSE
      BY <1>5, <2>5
    <3> HIDE DEF x
    <3>3. Within(x, G, H) /\ Follows(z, x, T)
      BY <3>1, <3>2, NothingFollows DEF x
    <3> QED BY <2>4, <3>1, <3>3 DEF MachineFits, x
  <2>6. CASE /\ c = m.cur /\ z = Written(cs, p)[N]
             /\ s = IF m.stab.exists /\ m.stab.obs.last \in due THEN NoStable ELSE m.stab
    <3>1. s.exists = FALSE
      BY <1>5, <2>1, <2>6 DEF kept
    <3>2. z # <<>> /\ c.found /\ c.loaded /\ x.cur = c /\ x.pend = <<>>
      BY <1>5, <2>1, <2>4, <2>6 DEF From
    <3>3. InSets(c, G, H)
      BY <1>3, <2>1, <2>6 DEF Within
    <3>4. ASSUME Classes(G), ~Mixed(z) PROVE Tells(z, c, T)
      <4>1. Follows(cs, m, T) /\ ~Mixed(cs)
        BY <1>3, <2>4, <3>4
      <4>2. Fitting(cs, p, T) /\ Agrees(LastView(cs, p), c, T)
        BY <2>1, <2>6, <3>2, <4>1 DEF Follows
      <4>3. Tells(z, p[N], T)
        BY <1>3, <2>2, <2>6, <3>4, <4>2, WrittenTells
      <4>4. LastView(cs, p) = p[N]
        BY <1>7 DEF LastView, N
      <4>5. Shown(p[N], G)
        BY <2>2, ObservationViewed DEF Shown, Writes, InSets
      <4>6. Shown(c, G)
        BY <1>5, <2>6, <3>3, StateViewed DEF Shown, InSets
      <4>7. Shown(TailView(z), G)
        <5>1. CyclesRight(z) /\ ResetsIn(z, G)
          BY <2>4 DEF Orderly
        <5> QED BY <3>2, <5>1, TailViewed DEF Shown, ResetsIn
      <4>8. Agrees(TailView(z), p[N], T) /\ Agrees(p[N], c, T)
        BY <4>2, <4>3, <4>4 DEF Tells
      <4>9. Agrees(TailView(z), c, T)
        BY <3>4, <4>5, <4>6, <4>7, <4>8, AgreesThrough
      <4> QED BY <3>2, <4>9 DEF Tells
    <3> HIDE DEF x
    <3>5. Within(x, G, H) /\ (Classes(G) /\ ~Mixed(z) => Follows(z, x, T))
      BY <3>1, <3>3, <3>4, NothingFollows DEF x
    <3>6. x.cur.loaded => Loads(z, x)
      BY <3>2 DEF Loads
    <3> QED BY <2>4, <3>5, <3>6 DEF MachineFits, x
  <2> QED BY <1>1, <1>7, <2>5, <2>6
<1> QED BY <1>6, <1>7

\* More times that were met.
LEMMA FitsMore ==
    ASSUME NEW cs, NEW m, NEW G, NEW H, NEW T, MachineFits(cs, m, G, H, T), NEW K, H \subseteq K
    PROVE  MachineFits(cs, m, G, K, T)
<1>1. LastsIn(cs, K)
  BY DEF MachineFits, LastsIn
<1>2. Within(m, G, K)
  BY DEF MachineFits, Within, InSets
<1> QED BY <1>1, <1>2 DEF MachineFits

\* The times the machine has met after n candidates.
Met(H, cands, n) == H \cup {cands[k].last : k \in 1 .. n}

\* Candidates with reset times of G, and at times that were met only if of T.
Arriving(cands, G, H, T) ==
    \A n \in 1 .. Len(cands) : /\ cands[n].reset \in G
                               /\ cands[n].last \in Met(H, cands, n - 1) => cands[n].last \in T

\* One observation and the window.
LEMMA MergeFits ==
    ASSUME NEW cs, CyclesRight(cs), NEW trusted, NEW m, MachineRight(m, cs, trusted), m.cur.loaded,
           NEW o \in Observations, o.first = o.last, o.auth => trusted, NEW G, o.reset \in G,
           NEW H, NEW K, H \subseteq K, o.last \in K, NEW T, o.last \in H => o.last \in T,
           MachineFits(cs, m, G, H, T)
    PROVE  MachineFits(cs, Merge(m, o), G, K, T)
<1> DEFINE z == Merge(m, o)
<1>1. Merges(m, z, o)
  BY MergeIsOne
<1>2. MachineRight(z, cs, trusted) /\ z.cur.loaded
  BY MergeKeeps
<1> HIDE DEF z
<1>3. MachineFits(cs, m, G, K, T)
  BY FitsMore
<1>4. InSets(o, G, K)
  BY DEF InSets
<1>5. /\ Orderly(cs, G) /\ ResetsIn(cs, G) /\ LastsIn(cs, K) /\ Within(m, G, K) /\ Loads(cs, m)
      /\ (Classes(G) /\ ~Mixed(cs) => Follows(cs, m, T))
  BY <1>3 DEF MachineFits, Orderly
<1>6. Within(z, G, K)
  BY <1>1, <1>2, <1>4, <1>5, MergesWithin
<1>7. Loads(cs, z)
  BY <1>1, <1>2, <1>5, MergesLoad
<1>8. m.cur.found /\ o.last = m.cur.last => o.last \in T
  BY DEF MachineFits, Within, InSets
<1>9. Classes(G) /\ ~Mixed(cs) => Follows(cs, z, T)
  <2> SUFFICES ASSUME Classes(G), ~Mixed(cs) PROVE Follows(cs, z, T)
      OBVIOUS
  <2>1. Follows(cs, m, T)
    BY <1>5
  <2> QED BY <1>1, <1>2, <1>4, <1>5, <1>8, <2>1, MergesFollow
<1> QED BY <1>5, <1>6, <1>7, <1>9 DEF MachineFits, z

\* All candidates of a batch and the window.
LEMMA RememberedFollows ==
    ASSUME NEW cs, CyclesRight(cs), NEW trusted, NEW s, MachineRight(s, cs, trusted), s.cur.loaded,
           NEW G, NEW H, NEW T, MachineFits(cs, s, G, H, T),
           NEW cands, Arrivals(cands, trusted), Arriving(cands, G, H, T)
    PROVE  MachineFits(cs, Remembered(s, cands)[Len(cands)], G, Met(H, cands, Len(cands)), T)
<1> DEFINE W == Remembered(s, cands)
           N == Len(cands)
           Good(n) == MachineFits(cs, W[n], G, Met(H, cands, n), T)
           Bad == {n \in 0 .. N : ~Good(n)}
<1>1. /\ N \in Nat
      /\ \A i \in 1 .. N : /\ cands[i] \in Observations /\ cands[i].first = cands[i].last
                           /\ cands[i].auth => trusted
  BY DEF Arrivals
<1>2. W[0] = s /\ \A n \in 1 .. N : W[n] = Merge(W[n - 1], cands[n])
  BY <1>1, MergingRuns
<1>3. \A n \in 0 .. N : MachineRight(W[n], cs, trusted) /\ W[n].cur.loaded
  BY RememberedFits
<1>4. \A i \in 1 .. N : /\ cands[i].reset \in G
                        /\ cands[i].last \in Met(H, cands, i - 1) => cands[i].last \in T
  BY DEF Arriving
<1> HIDE DEF W, N
<1>5. SUFFICES Bad = {}
  <2>1. N \in 0 .. N
    BY <1>1
  <2> QED BY <1>5, <2>1 DEF W, N
<1> SUFFICES ASSUME Bad # {} PROVE FALSE
  OBVIOUS
<1>6. Bad \subseteq Nat
  BY <1>1
<1>7. PICK n \in Bad : \A k \in Bad : n <= k
  BY <1>6, NaturalsHaveLeast
<1>8. n \in 0 .. N /\ n \in Nat /\ ~Good(n)
  BY <1>6
<1>9. n # 0
  <2>1. H \subseteq Met(H, cands, 0)
    BY DEF Met
  <2>2. MachineFits(cs, s, G, Met(H, cands, 0), T)
    BY <2>1, FitsMore
  <2> QED BY <1>2, <1>8, <2>2
<1>10. n - 1 \in 0 .. N /\ n - 1 \notin Bad /\ n \in 1 .. N
  BY <1>1, <1>7, <1>8, <1>9
<1> DEFINE K == Met(H, cands, n)
           J == Met(H, cands, n - 1)
           o == cands[n]
           m == W[n - 1]
<1>11. J \subseteq K /\ o.last \in K
  BY <1>8, <1>10 DEF Met
<1>12. /\ MachineFits(cs, m, G, J, T) /\ MachineRight(m, cs, trusted) /\ m.cur.loaded
       /\ o \in Observations /\ o.first = o.last /\ (o.auth => trusted) /\ o.reset \in G
       /\ (o.last \in J => o.last \in T)
  BY <1>1, <1>3, <1>4, <1>10
<1>13. W[n] = Merge(m, o) /\ ~MachineFits(cs, W[n], G, K, T)
  BY <1>2, <1>8, <1>10
<1> HIDE DEF K, J, o, m, Bad
<1> QED BY <1>11, <1>12, <1>13, MergeFits

\* A window that is recovered fits what is stored.
LEMMA StartsFit ==
    ASSUME NEW r \in Roles, WindowRight(r), NEW G, NEW H, NEW T,
           MachineFits(cycles[r], From(current[r], stable[r]), G, H, T)
    PROVE  MachineFits(cycles[r], Start(r), G, H, T)
<1> DEFINE cs == cycles[r]
           c == Recovered(cs)
           s == stable[r]
<1>1. CASE current[r].loaded
  <2>1. Start(r) = From(current[r], stable[r])
    BY <1>1 DEF Start
  <2> QED BY <2>1
<1>2. CASE ~current[r].loaded
  <2>1. Start(r) = From(c, s)
    BY <1>2 DEF Start
  <2>2. s.exists = FALSE /\ CyclesRight(cs)
    BY <1>2 DEF WindowRight, Known
  <2>3. Orderly(cs, G) /\ LastsIn(cs, H)
    BY DEF MachineFits
  <2>4. From(c, s).cur = c /\ From(c, s).pend = <<>>
    BY DEF From
  <2>5. c.found <=> cs # <<>>
    BY DEF Recovered, Unloaded
  <2>6. ASSUME cs # <<>>
        PROVE  InSets(c, G, H) /\ (Classes(G) /\ ~Mixed(cs) => Tells(cs, c, T))
    <3> DEFINE i == LatestOf(cs)
               d == cs[i]
               n == Len(d.segs)
    <3>1. cs \in Seq(CycleRows) /\ DOMAIN cs = 1 .. Len(cs)
      BY <2>2 DEF CyclesRight
    <3>2. i \in 1 .. Len(cs)
      BY <2>6, <3>1, LatestIsThere
    <3>3. CycleRight(d) /\ d \in CycleRows
      BY <2>2, <3>2 DEF CyclesRight, CycleRight
    <3>4. n \in 1 .. n /\ Last(d.segs) = d.segs[n] /\ d.segs[n].last = d.last
      BY <3>3 DEF CycleRight, Falling, Last
    <3>5. c.ws = d.ws /\ c.reset = d.reset /\ c.pct = TailPct(d) /\ c.last = d.last
      BY <2>6, <3>4 DEF Recovered, TailPct
    <3>6. d.reset \in G /\ d.last \in H /\ d.reset \in Int
      BY <2>3, <3>2, <3>3, CycleTypes DEF Orderly, ResetsIn, LastsIn
    <3>7. Classes(G) /\ ~Mixed(cs) => i = Len(cs)
      BY <2>2, <2>3, <2>6, LatestIsLast DEF Orderly
    <3> HIDE DEF c, d, i
    <3>8. ASSUME i = Len(cs) PROVE Tells(cs, c, T)
      <4>1. TailView(cs) = [ws |-> d.ws, reset |-> d.reset, pct |-> TailPct(d), last |-> d.last]
        BY <3>8 DEF TailView, d
      <4>2. Near(d.reset, d.reset)
        BY <3>6, NearIsEven
      <4> QED BY <2>6, <3>5, <4>1, <4>2 DEF Tells, Agrees
    <3> QED BY <3>5, <3>6, <3>7, <3>8 DEF InSets
  <2> HIDE DEF c, s
  <2>7. Within(From(c, s), G, H)
    BY <2>2, <2>5, <2>6, NothingFollows
  <2>8. Classes(G) /\ ~Mixed(cs) => Follows(cs, From(c, s), T)
    BY <2>2, <2>5, <2>6, NothingFollows
  <2>9. Loads(cs, From(c, s))
    BY <2>4, <2>5 DEF Loads
  <2> QED BY <2>1, <2>3, <2>7, <2>8, <2>9 DEF MachineFits
<1> QED BY <1>1, <1>2

-----------------------------------------------------------------------------
(* Every input passes once: it waits in a queue, or in the batch, or is gone.  *)

Single(s) == \A i, j \in 1 .. Len(s) : s[i] = s[j] => i = j
In(x, s) == \E i \in 1 .. Len(s) : s[i] = x
Apart(s, u) == \A x : ~(In(x, s) /\ In(x, u))
\* Three places an input may be in, each of them once.
ThreeOnce(S, h, t, b) ==
    /\ h \in Seq(S) /\ t \in Seq(S) /\ b \in Seq(S)
    /\ Single(h) /\ Single(t) /\ Single(b)
    /\ Apart(h, t) /\ Apart(h, b) /\ Apart(t, b)

OnceInv ==
    /\ offered \subseteq Inputs /\ ThreeOnce(offered, headerQ, trustedQ, batch)
    /\ pushing # "no" => pushed \in Inputs /\ pushed \notin offered

\* What was offered and waits no more.
Gone == {x \in offered : ~In(x, headerQ) /\ ~In(x, trustedQ) /\ ~In(x, batch)}
\* The times at which something of a window is gone, and those at which it was
\* observed twice.
Seen(r) == {x.at : x \in {y \in Gone : r \in DOMAIN y.obs}}
Moments(r) == {t \in Int : Twice(r, t)}

\* Each candidate is an input of the batch, no two the same.
ComesFrom(cands, f, r) ==
    /\ \A i \in 1 .. Len(cands) : /\ f[i] \in DOMAIN batch /\ r \in DOMAIN batch[f[i]].obs
                                  /\ cands[i].last = batch[f[i]].at
                                  /\ cands[i].reset = batch[f[i]].obs[r].reset
    /\ \A i, j \in 1 .. Len(cands) : i < j => f[i] # f[j]

\* The candidates are inputs of the batch, each at most once.
LEMMA CandidatesCome ==
    ASSUME batch \in Seq(Inputs), NEW r \in Roles, NEW codex
    PROVE  \E f : ComesFrom(Candidates(r, codex), f, r)
<1> DEFINE kept == {i \in DOMAIN batch : Kept(batch[i], r, codex)}
           o(x) == [ws |-> x.obs[r].ws, src |-> x.obs[r].src, reset |-> x.obs[r].reset,
                    pct |-> x.obs[r].pct, first |-> x.at, last |-> x.at,
                    auth |-> Authoritative(x.source)]
           s == [i \in kept |-> o(batch[i])]
           z == Candidates(r, codex)
<1>1. z = ByTime(s)
  BY DEF Candidates
<1>2. \A i \in kept : batch[i] \in Inputs /\ r \in DOMAIN batch[i].obs /\ i \in DOMAIN batch
  BY DEF Kept
<1>3. ASSUME NEW i \in kept
      PROVE  s[i] \in Observations /\ s[i].last = batch[i].at /\ s[i].reset = batch[i].obs[r].reset
  <2> DEFINE x == batch[i]
  <2>1. x \in Inputs /\ r \in DOMAIN x.obs /\ i \in DOMAIN batch
    BY <1>2
  <2>2. s[i] = o(x)
    OBVIOUS
  <2>3. x.at \in Int /\ x.obs[r] \in [ws : Int, src : {"relative", "absolute"}, reset : Int, pct : Int]
    BY <2>1, HistoryAssumption DEF HistoryAssumption
  <2>4. Authoritative(x.source) \in BOOLEAN
    BY DEF Authoritative
  <2>5. o(x) \in Observations /\ o(x).last = x.at /\ o(x).reset = x.obs[r].reset
    BY <2>3, <2>4 DEF Observations, Sources
  <2> QED BY <2>2, <2>5
<1>4. kept \in SUBSET Int /\ IsFiniteSet(kept)
  <2>1. DOMAIN batch = 1 .. Len(batch) /\ Len(batch) \in Nat /\ kept \in SUBSET (1 .. Len(batch))
    OBVIOUS
  <2> HIDE DEF kept
  <2>2. IsFiniteSet(kept)
    BY <2>1, PlacesFinite
  <2> QED BY <2>1, <2>2
<1> HIDE DEF kept
<1>5. s \in [kept -> Observations]
  BY <1>3
<1> HIDE DEF s, z
<1>6. z \in Seq(Observations) /\
      \E f \in [DOMAIN z -> kept] :
         /\ \A i \in DOMAIN z : z[i] = s[f[i]]
         /\ \A i, j \in DOMAIN z : i < j =>
               \/ s[f[i]].first < s[f[j]].first
               \/ s[f[i]].first = s[f[j]].first /\ f[i] < f[j]
  <2>1. ByTime(s) \in Seq(Observations) /\
        \E f \in [DOMAIN ByTime(s) -> kept] :
           /\ \A i \in DOMAIN ByTime(s) : ByTime(s)[i] = s[f[i]]
           /\ \A d \in kept : \E i \in DOMAIN ByTime(s) : f[i] = d
           /\ \A i, j \in DOMAIN ByTime(s) : i < j =>
                 \/ s[f[i]].first < s[f[j]].first
                 \/ s[f[i]].first = s[f[j]].first /\ f[i] < f[j]
    BY <1>4, <1>5, ByTimeFits
  <2> QED BY <1>1, <2>1
<1>7. PICK f \in [DOMAIN z -> kept] :
         /\ \A i \in DOMAIN z : z[i] = s[f[i]]
         /\ \A i, j \in DOMAIN z : i < j =>
               \/ s[f[i]].first < s[f[j]].first
               \/ s[f[i]].first = s[f[j]].first /\ f[i] < f[j]
  BY <1>6
<1>8. DOMAIN z = 1 .. Len(z)
  BY <1>6
<1>9. ASSUME NEW i \in 1 .. Len(z)
      PROVE  /\ f[i] \in DOMAIN batch /\ r \in DOMAIN batch[f[i]].obs
             /\ z[i].last = batch[f[i]].at /\ z[i].reset = batch[f[i]].obs[r].reset
  <2>1. f[i] \in kept /\ z[i] = s[f[i]]
    BY <1>7, <1>8
  <2> QED BY <1>2, <1>3, <2>1
<1>10. ASSUME NEW i \in 1 .. Len(z), NEW j \in 1 .. Len(z), i < j, f[i] = f[j] PROVE FALSE
  <2>1. f[i] \in kept
    BY <1>7, <1>8
  <2>2. s[f[i]].first \in Int /\ f[i] \in Int
    BY <1>3, <1>4, <2>1, ObservationTypes
  <2>3. \/ s[f[i]].first < s[f[i]].first
        \/ s[f[i]].first = s[f[i]].first /\ f[i] < f[i]
    BY <1>7, <1>8, <1>10
  <2> QED BY <2>2, <2>3
<1>11. ComesFrom(z, f, r)
  BY <1>9, <1>10 DEF ComesFrom
<1> QED BY <1>11 DEF z

\* So a time that was met already was observed twice.
LEMMA CandidatesArrive ==
    ASSUME OnceInv, batch \in Seq(Inputs), NEW r \in Roles, NEW codex
    PROVE  Arriving(Candidates(r, codex), Resets(r), Seen(r), Moments(r))
<1> DEFINE z == Candidates(r, codex)
<1>1. PICK f : ComesFrom(z, f, r)
  BY CandidatesCome
<1> HIDE DEF z
<1>2. ASSUME NEW i \in 1 .. Len(z)
      PROVE  /\ batch[f[i]] \in offered /\ In(batch[f[i]], batch) /\ r \in DOMAIN batch[f[i]].obs
             /\ z[i].last = batch[f[i]].at /\ z[i].reset = batch[f[i]].obs[r].reset
             /\ z[i].last \in Int
  <2>1. f[i] \in 1 .. Len(batch) /\ batch[f[i]] \in offered /\ batch[f[i]] \in Inputs
    BY <1>1 DEF ComesFrom, OnceInv, ThreeOnce
  <2>2. batch[f[i]].at \in Int
    BY <2>1, HistoryAssumption DEF HistoryAssumption
  <2> QED BY <1>1, <2>1, <2>2 DEF ComesFrom, In
<1>3. ASSUME NEW n \in 1 .. Len(z) PROVE z[n].reset \in Resets(r)
  BY <1>2 DEF Resets
<1>4. ASSUME NEW n \in 1 .. Len(z), z[n].last \in Met(Seen(r), z, n - 1) PROVE z[n].last \in Moments(r)
  <2> DEFINE x == batch[f[n]]
  <2>1. x \in offered /\ r \in DOMAIN x.obs /\ In(x, batch) /\ z[n].last = x.at /\ z[n].last \in Int
    BY <1>2
  <2> HIDE DEF x
  <2>2. CASE z[n].last \in Seen(r)
    <3>1. PICK y \in Gone : r \in DOMAIN y.obs /\ y.at = z[n].last
      BY <2>2 DEF Seen
    <3>2. y \in offered /\ ~In(y, batch)
      BY <3>1 DEF Gone
    <3> QED BY <2>1, <3>1, <3>2 DEF Moments, Twice
  <2>3. ASSUME NEW k \in 1 .. n - 1, z[n].last = z[k].last PROVE z[n].last \in Moments(r)
    <3>0. n \in Int /\ k \in 1 .. Len(z) /\ k < n
      OBVIOUS
    <3> DEFINE y == batch[f[k]]
    <3>1. y \in offered /\ r \in DOMAIN y.obs /\ y.at = z[n].last
      BY <1>2, <2>3, <3>0
    <3>2. f[k] # f[n] /\ f[k] \in 1 .. Len(batch) /\ f[n] \in 1 .. Len(batch)
      BY <1>1, <3>0 DEF ComesFrom
    <3>3. x # y
      BY <3>2 DEF OnceInv, ThreeOnce, Single, x
    <3> HIDE DEF y
    <3> QED BY <2>1, <3>1, <3>3 DEF Moments, Twice
  <2> QED BY <1>4, <2>2, <2>3 DEF Met
<1> QED BY <1>3, <1>4 DEF Arriving, z

\* An input that is put behind.
LEMMA AppendedOnce ==
    ASSUME NEW S, NEW s \in Seq(S), NEW x \in S
    PROVE  /\ \A y : In(y, Append(s, x)) <=> In(y, s) \/ y = x
           /\ Single(s) /\ ~In(x, s) => Single(Append(s, x))
<1> DEFINE z == Append(s, x)
<1>1. /\ Len(s) \in Nat /\ Len(z) = Len(s) + 1 /\ z[Len(z)] = x
      /\ \A k \in 1 .. Len(s) : z[k] = s[k]
      /\ \A k \in 1 .. Len(z) : k \in 1 .. Len(s) \/ k = Len(z)
  BY AppendedRows
<1> HIDE DEF z
<1>2. Len(z) \in 1 .. Len(z) /\ 1 .. Len(s) \subseteq 1 .. Len(z)
  BY <1>1
<1>3. \A y : In(y, z) <=> In(y, s) \/ y = x
  BY <1>1, <1>2 DEF In
<1>4. Single(s) /\ ~In(x, s) => Single(z)
  BY <1>1 DEF Single, In
<1> QED BY <1>3, <1>4 DEF z

\* An input that is taken from the front.
LEMMA TailOnce ==
    ASSUME NEW S, NEW s \in Seq(S), s # <<>>
    PROVE  /\ Head(s) \in S /\ Tail(s) \in Seq(S)
           /\ \A y : In(y, s) <=> y = Head(s) \/ In(y, Tail(s))
           /\ Single(s) => Single(Tail(s)) /\ ~In(Head(s), Tail(s))
<1> DEFINE z == Tail(s)
           n == Len(s)
<1>1. n \in Nat /\ 1 \in 1 .. n /\ z \in Seq(S) /\ Len(z) = n - 1
  OBVIOUS
<1>2. \A k \in 1 .. n - 1 : z[k] = s[k + 1] /\ k + 1 \in 1 .. n
  OBVIOUS
<1>3. \A k \in 1 .. n : k = 1 \/ (k - 1 \in 1 .. n - 1 /\ z[k - 1] = s[k])
  OBVIOUS
<1>4. Head(s) = s[1] /\ Head(s) \in S
  BY <1>1
<1> HIDE DEF z, n
<1>5. \A y : In(y, s) <=> y = Head(s) \/ In(y, z)
  <2> SUFFICES ASSUME NEW y PROVE In(y, s) <=> y = Head(s) \/ In(y, z)
    OBVIOUS
  <2>1. ASSUME In(y, s) PROVE y = Head(s) \/ In(y, z)
    <3>1. PICK k \in 1 .. n : s[k] = y
      BY <2>1 DEF In, n
    <3> QED BY <1>1, <1>3, <1>4, <3>1 DEF In
  <2>2. ASSUME In(y, z) PROVE In(y, s)
    <3>1. PICK k \in 1 .. n - 1 : z[k] = y
      BY <1>1, <2>2 DEF In
    <3> QED BY <1>2, <3>1 DEF In, n
  <2>3. y = Head(s) => In(y, s)
    BY <1>1, <1>4 DEF In, n
  <2> QED BY <2>1, <2>2, <2>3
<1>6. ASSUME Single(s) PROVE Single(z) /\ ~In(Head(s), z)
  <2>1. ASSUME NEW i \in 1 .. n - 1, NEW j \in 1 .. n - 1, z[i] = z[j] PROVE i = j
    <3>1. i + 1 = j + 1
      BY <1>2, <1>6, <2>1 DEF Single, n
    <3> QED BY <1>1, <3>1
  <2>2. ASSUME NEW i \in 1 .. n - 1, z[i] = Head(s) PROVE FALSE
    <3>1. i + 1 = 1
      BY <1>1, <1>2, <1>4, <1>6, <2>2 DEF Single, n
    <3> QED BY <1>1, <3>1
  <2> QED BY <1>1, <2>1, <2>2 DEF Single, In
<1> QED BY <1>1, <1>4, <1>5, <1>6 DEF z

\* A queue that is empty.
LEMMA EmptyOnce == Single(<<>>) /\ (\A y : ~In(y, <<>>)) /\ \A S : <<>> \in Seq(S)
BY DEF Single, In

\* Nothing comes back.
Onward(S, h, t, b, x, y, z) == \A e \in S : In(e, x) \/ In(e, y) \/ In(e, z) => In(e, h) \/ In(e, t) \/ In(e, b)

\* An input that was never offered enters a queue.
LEMMA PushedOnce ==
    ASSUME NEW S, NEW h, NEW t, NEW b, ThreeOnce(S, h, t, b), NEW x, x \notin S
    PROVE  /\ ThreeOnce(S \cup {x}, Append(h, x), t, b) /\ ThreeOnce(S \cup {x}, h, Append(t, x), b)
           /\ ThreeOnce(S \cup {x}, h, t, b)
           /\ Onward(S, h, t, b, Append(h, x), t, b) /\ Onward(S, h, t, b, h, Append(t, x), b)
<1> DEFINE U == S \cup {x}
<1>1. /\ h \in Seq(S) /\ t \in Seq(S) /\ b \in Seq(S)
      /\ Single(h) /\ Single(t) /\ Single(b)
      /\ Apart(h, t) /\ Apart(h, b) /\ Apart(t, b)
  BY DEF ThreeOnce
<1>2. \A s \in Seq(S) : s \in Seq(U) /\ ~In(x, s)
  BY DEF In
<1>5. ASSUME NEW s \in Seq(S), Single(s)
      PROVE  /\ Append(s, x) \in Seq(U) /\ Single(Append(s, x))
             /\ \A y : In(y, Append(s, x)) <=> In(y, s) \/ y = x
  <2>1. s \in Seq(U) /\ x \in U /\ ~In(x, s)
    BY <1>2
  <2> QED BY <1>5, <2>1, AppendedOnce
<1> DEFINE z == Append(h, x)
           u == Append(t, x)
<1>6. z \in Seq(U) /\ Single(z) /\ \A y : In(y, z) <=> In(y, h) \/ y = x
  BY <1>1, <1>5
<1>7. u \in Seq(U) /\ Single(u) /\ \A y : In(y, u) <=> In(y, t) \/ y = x
  BY <1>1, <1>5
<1>8. ThreeOnce(U, h, t, b)
  BY <1>1, <1>2 DEF ThreeOnce
<1> HIDE DEF z, u, U
<1>9. ThreeOnce(U, z, t, b)
  BY <1>1, <1>2, <1>6, <1>8 DEF ThreeOnce, Apart
<1>10. ThreeOnce(U, h, u, b)
  BY <1>1, <1>2, <1>7, <1>8 DEF ThreeOnce, Apart
<1>11. Onward(S, h, t, b, z, t, b) /\ Onward(S, h, t, b, h, u, b)
  BY <1>6, <1>7 DEF Onward
<1> QED BY <1>8, <1>9, <1>10, <1>11 DEF z, u, U

\* The oldest header is dropped.
LEMMA DroppedOnce ==
    ASSUME NEW S, NEW h, NEW t, NEW b, ThreeOnce(S, h, t, b), h # <<>>
    PROVE  ThreeOnce(S, Tail(h), t, b) /\ Onward(S, h, t, b, Tail(h), t, b)
<1> DEFINE w == Tail(h)
<1>1. /\ h \in Seq(S) /\ t \in Seq(S) /\ b \in Seq(S)
      /\ Single(h) /\ Single(t) /\ Single(b)
      /\ Apart(h, t) /\ Apart(h, b) /\ Apart(t, b)
  BY DEF ThreeOnce
<1>2. w \in Seq(S) /\ Single(w) /\ \A y : In(y, w) => In(y, h)
  BY <1>1, TailOnce
<1> HIDE DEF w
<1>3. ThreeOnce(S, w, t, b) /\ Onward(S, h, t, b, w, t, b)
  BY <1>1, <1>2 DEF ThreeOnce, Apart, Onward
<1> QED BY <1>3 DEF w

\* An input goes from a queue to the batch.
LEMMA ReceivedOnce ==
    ASSUME NEW S, NEW h, NEW t, NEW b, ThreeOnce(S, h, t, b)
    PROVE  /\ h # <<>> => /\ ThreeOnce(S, Tail(h), t, Append(b, Head(h)))
                          /\ Onward(S, h, t, b, Tail(h), t, Append(b, Head(h)))
           /\ t # <<>> => /\ ThreeOnce(S, h, Tail(t), Append(b, Head(t)))
                          /\ Onward(S, h, t, b, h, Tail(t), Append(b, Head(t)))
<1>1. /\ h \in Seq(S) /\ t \in Seq(S) /\ b \in Seq(S)
      /\ Single(h) /\ Single(t) /\ Single(b)
      /\ Apart(h, t) /\ Apart(h, b) /\ Apart(t, b)
  BY DEF ThreeOnce
<1>2. ASSUME NEW s \in Seq(S), s # <<>>, Single(s), Apart(s, b)
      PROVE  /\ Tail(s) \in Seq(S) /\ Append(b, Head(s)) \in Seq(S) /\ Single(Tail(s))
             /\ Single(Append(b, Head(s))) /\ Apart(Tail(s), Append(b, Head(s))) /\ In(Head(s), s)
             /\ \A y : In(y, Tail(s)) => In(y, s)
             /\ \A y : In(y, Append(b, Head(s))) <=> In(y, b) \/ y = Head(s)
  <2>1. /\ Head(s) \in S /\ Tail(s) \in Seq(S)
        /\ \A y : In(y, s) <=> y = Head(s) \/ In(y, Tail(s))
        /\ Single(Tail(s)) /\ ~In(Head(s), Tail(s))
    BY <1>2, TailOnce
  <2> DEFINE x == Head(s)
             w == Tail(s)
             z == Append(b, x)
  <2>2. ~In(x, b)
    BY <1>2, <2>1 DEF Apart
  <2>3. z \in Seq(S)
    BY <1>1, <2>1
  <2> HIDE DEF x, w
  <2>4. Single(z) /\ \A y : In(y, z) <=> In(y, b) \/ y = x
    BY <1>1, <2>1, <2>2, AppendedOnce DEF x
  <2> HIDE DEF z
  <2>5. Apart(w, z)
    BY <1>2, <2>1, <2>4 DEF Apart, x, w
  <2> QED BY <2>1, <2>3, <2>4, <2>5 DEF x, w, z
<1>3. ASSUME h # <<>>
      PROVE  /\ ThreeOnce(S, Tail(h), t, Append(b, Head(h)))
             /\ Onward(S, h, t, b, Tail(h), t, Append(b, Head(h)))
  <2> DEFINE x == Head(h)
             w == Tail(h)
             z == Append(b, Head(h))
  <2>1. /\ w \in Seq(S) /\ z \in Seq(S) /\ Single(w) /\ Single(z) /\ Apart(w, z) /\ In(x, h)
        /\ \A y : In(y, w) => In(y, h)
        /\ \A y : In(y, z) <=> In(y, b) \/ y = x
    BY <1>1, <1>2, <1>3
  <2> HIDE DEF x, w, z
  <2>2. ThreeOnce(S, w, t, z) /\ Onward(S, h, t, b, w, t, z)
    BY <1>1, <2>1 DEF ThreeOnce, Apart, Onward
  <2> QED BY <2>2 DEF w, z
<1>4. ASSUME t # <<>>
      PROVE  /\ ThreeOnce(S, h, Tail(t), Append(b, Head(t)))
             /\ Onward(S, h, t, b, h, Tail(t), Append(b, Head(t)))
  <2> DEFINE x == Head(t)
             w == Tail(t)
             z == Append(b, Head(t))
  <2>1. /\ w \in Seq(S) /\ z \in Seq(S) /\ Single(w) /\ Single(z) /\ Apart(w, z) /\ In(x, t)
        /\ \A y : In(y, w) => In(y, t)
        /\ \A y : In(y, z) <=> In(y, b) \/ y = x
    BY <1>1, <1>2, <1>4
  <2> HIDE DEF x, w, z
  <2>2. ThreeOnce(S, h, w, z) /\ Onward(S, h, t, b, h, w, z)
    BY <1>1, <2>1 DEF ThreeOnce, Apart, Onward
  <2> QED BY <2>2 DEF w, z
<1> QED BY <1>3, <1>4

\* Nothing was offered at first.
LEMMA OnceInit == Init => OnceInv
<1> SUFFICES ASSUME Init PROVE OnceInv
  OBVIOUS
<1>1. headerQ = <<>> /\ trustedQ = <<>> /\ batch = <<>> /\ offered = {} /\ pushing = "no"
  BY DEF Init
<1>2. ThreeOnce(offered, <<>>, <<>>, <<>>)
  BY EmptyOnce DEF ThreeOnce, Apart
<1> QED BY <1>1, <1>2 DEF OnceInv

\* What is gone stays gone.
Elapses == offered \subseteq offered' /\ Gone \subseteq Gone'

\* What leaves the queues and the batch does not come back.
LEMMA GoneStays ==
    ASSUME OnceInv, offered \subseteq offered',
           Onward(offered, headerQ, trustedQ, batch, headerQ', trustedQ', batch')
    PROVE  Elapses
BY DEF Elapses, Gone, Onward

\* No step brings an input to two places, or back.
LEMMA OnceNext ==
    ASSUME OnceInv, [Next]_vars
    PROVE  OnceInv' /\ Elapses
<1>1. /\ ThreeOnce(offered, headerQ, trustedQ, batch) /\ offered \subseteq Inputs
      /\ pushing # "no" => pushed \in Inputs /\ pushed \notin offered
  BY DEF OnceInv
<1>2. \A S, h, t, b : Onward(S, h, t, b, h, t, b)
  BY DEF Onward
<1>3. ASSUME UNCHANGED <<headerQ, trustedQ, batch, offered, pushing, pushed>> PROVE OnceInv' /\ Elapses
  <2>1. Onward(offered, headerQ, trustedQ, batch, headerQ', trustedQ', batch')
    BY <1>2, <1>3
  <2>2. OnceInv'
    BY <1>1, <1>3 DEF OnceInv
  <2> QED BY <1>3, <2>1, <2>2, GoneStays
<1>4. ASSUME NEW x \in Inputs, AppendInput(x) PROVE OnceInv' /\ Elapses
  <2>1. x \notin offered /\ offered' = offered \cup {x} /\ batch' = batch /\ pushing' = "no"
    BY <1>4 DEF AppendInput, takeVars, pushVars, Free
  <2>2. \/ headerQ' = headerQ /\ trustedQ' = trustedQ
        \/ headerQ' = headerQ /\ trustedQ' = Append(trustedQ, x)
        \/ headerQ' = Append(headerQ, x) /\ trustedQ' = trustedQ
    BY <1>4 DEF AppendInput, queueVars
  <2>3. /\ ThreeOnce(offered', headerQ', trustedQ', batch')
        /\ Onward(offered, headerQ, trustedQ, batch, headerQ', trustedQ', batch')
    <3>1. /\ ThreeOnce(offered \cup {x}, Append(headerQ, x), trustedQ, batch)
          /\ ThreeOnce(offered \cup {x}, headerQ, Append(trustedQ, x), batch)
          /\ ThreeOnce(offered \cup {x}, headerQ, trustedQ, batch)
          /\ Onward(offered, headerQ, trustedQ, batch, Append(headerQ, x), trustedQ, batch)
          /\ Onward(offered, headerQ, trustedQ, batch, headerQ, Append(trustedQ, x), batch)
      BY <1>1, <2>1, PushedOnce
    <3>2. Onward(offered, headerQ, trustedQ, batch, headerQ, trustedQ, batch)
      BY <1>2
    <3> QED BY <2>1, <2>2, <3>1, <3>2
  <2>4. OnceInv'
    BY <1>1, <2>1, <2>3 DEF OnceInv
  <2> QED BY <2>1, <2>3, <2>4, GoneStays
<1>5. ASSUME ReceiveHeader \/ ReceiveTrusted PROVE OnceInv' /\ Elapses
  <2>1. UNCHANGED <<offered, pushing, pushed>>
    BY <1>5 DEF ReceiveHeader, ReceiveTrusted, boundVars, pushVars
  <2>2. \/ /\ headerQ # <<>> /\ headerQ' = Tail(headerQ) /\ trustedQ' = trustedQ
           /\ batch' = Append(batch, Head(headerQ))
        \/ /\ trustedQ # <<>> /\ trustedQ' = Tail(trustedQ) /\ headerQ' = headerQ
           /\ batch' = Append(batch, Head(trustedQ))
    BY <1>5 DEF ReceiveHeader, ReceiveTrusted
  <2>3. /\ ThreeOnce(offered, headerQ', trustedQ', batch')
        /\ Onward(offered, headerQ, trustedQ, batch, headerQ', trustedQ', batch')
    BY <1>1, <2>2, ReceivedOnce
  <2>4. OnceInv'
    BY <1>1, <2>1, <2>3 DEF OnceInv
  <2> QED BY <2>1, <2>3, <2>4, GoneStays
<1>6. ASSUME batch' = <<>>, UNCHANGED <<headerQ, trustedQ, offered, pushing, pushed>> PROVE OnceInv' /\ Elapses
  <2>1. ThreeOnce(offered', headerQ', trustedQ', batch')
    BY <1>1, <1>6, EmptyOnce DEF ThreeOnce, Apart
  <2>2. Onward(offered, headerQ, trustedQ, batch, headerQ', trustedQ', batch')
    BY <1>6, EmptyOnce DEF Onward
  <2>3. OnceInv'
    BY <1>1, <1>6, <2>1 DEF OnceInv
  <2> QED BY <1>6, <2>2, <2>3, GoneStays
<1>7. ASSUME Crash PROVE OnceInv' /\ Elapses
  <2>1. headerQ' = <<>> /\ trustedQ' = <<>> /\ batch' = <<>> /\ offered' = offered /\ pushing' = "no"
    BY <1>7 DEF Crash
  <2>2. ThreeOnce(offered', headerQ', trustedQ', batch')
    BY <2>1, EmptyOnce DEF ThreeOnce, Apart
  <2>3. Onward(offered, headerQ, trustedQ, batch, headerQ', trustedQ', batch')
    BY <2>1, EmptyOnce DEF Onward
  <2>4. OnceInv'
    BY <1>1, <2>1, <2>2 DEF OnceInv
  <2> QED BY <2>1, <2>3, <2>4, GoneStays
<1>15. ASSUME NEW x \in Inputs, FindFull(x) PROVE OnceInv' /\ Elapses
  <2>1. /\ x \notin offered /\ UNCHANGED <<headerQ, trustedQ, batch, offered>> /\ pushed' = x
    BY <1>15 DEF FindFull, queueVars, takeVars, boundVars
  <2>2. Onward(offered, headerQ, trustedQ, batch, headerQ', trustedQ', batch')
    BY <1>2, <2>1
  <2>3. OnceInv'
    BY <1>1, <2>1 DEF OnceInv
  <2> QED BY <2>1, <2>2, <2>3, GoneStays
<1>16. ASSUME DropHead PROVE OnceInv' /\ Elapses
  <2>1. /\ UNCHANGED <<trustedQ, batch, offered, pushed>> /\ pushing = "full"
        /\ headerQ' = headerQ \/ (headerQ # <<>> /\ headerQ' = Tail(headerQ))
    BY <1>16 DEF DropHead, takeVars, boundVars
  <2>2. /\ ThreeOnce(offered, headerQ', trustedQ', batch')
        /\ Onward(offered, headerQ, trustedQ, batch, headerQ', trustedQ', batch')
    BY <1>1, <1>2, <2>1, DroppedOnce
  <2>3. OnceInv'
    BY <1>1, <2>1, <2>2 DEF OnceInv
  <2> QED BY <2>1, <2>2, <2>3, GoneStays
<1>17. ASSUME SendAgain PROVE OnceInv' /\ Elapses
  <2>1. /\ pushed \in Inputs /\ pushed \notin offered /\ pushing' = "no"
        /\ offered' = offered \cup {pushed} /\ UNCHANGED <<trustedQ, batch>>
        /\ headerQ' = headerQ \/ headerQ' = Append(headerQ, pushed)
    BY <1>1, <1>17 DEF SendAgain, takeVars
  <2>2. /\ ThreeOnce(offered', headerQ', trustedQ', batch')
        /\ Onward(offered, headerQ, trustedQ, batch, headerQ', trustedQ', batch')
    <3>1. /\ ThreeOnce(offered \cup {pushed}, Append(headerQ, pushed), trustedQ, batch)
          /\ ThreeOnce(offered \cup {pushed}, headerQ, trustedQ, batch)
          /\ Onward(offered, headerQ, trustedQ, batch, Append(headerQ, pushed), trustedQ, batch)
      BY <1>1, <2>1, PushedOnce
    <3>2. Onward(offered, headerQ, trustedQ, batch, headerQ, trustedQ, batch)
      BY <1>2
    <3> QED BY <2>1, <3>1, <3>2
  <2>3. OnceInv'
    BY <1>1, <2>1, <2>2 DEF OnceInv
  <2> QED BY <2>1, <2>2, <2>3, GoneStays
<1>8. CASE (\E x \in Inputs : AppendInput(x) \/ FindFull(x)) \/ FinishPush
  BY <1>4, <1>8, <1>15, <1>16, <1>17 DEF FinishPush
<1>9. CASE CloseHistory
  BY <1>3, <1>9 DEF CloseHistory, takeVars, boundVars, pushVars
<1>10. CASE WakeForHeaders
  BY <1>3, <1>10 DEF WakeForHeaders, takeVars, boundVars, pushVars
<1>11. CASE LookAtQueue
  BY <1>3, <1>11 DEF LookAtQueue, queueVars, takeVars, boundVars, pushVars
<1>12. CASE TakeCounts
  BY <1>6, <1>12 DEF TakeCounts, boundVars, pushVars
<1>13. CASE ProcessBatch
  BY <1>6, <1>13 DEF ProcessBatch, queueVars, boundVars, pushVars
<1>14. CASE UNCHANGED vars
  BY <1>3, <1>14 DEF vars, queueVars, takeVars, boundVars, pushVars
<1> QED BY <1>5, <1>7, <1>8, <1>9, <1>10, <1>11, <1>12, <1>13, <1>14 DEF Next, Runner

-----------------------------------------------------------------------------
(* What grows with the inputs offered, and what cannot come true then.         *)

\* The times of a window only become more.
LEMMA SetsGrow ==
    ASSUME Elapses, NEW r
    PROVE  /\ Resets(r) \subseteq Resets(r)' /\ Seen(r) \subseteq Seen(r)' /\ Moments(r) \subseteq Moments(r)'
<1>1. \A x, y : x # y => (x # y)'
  OBVIOUS
<1>2. Resets(r) \subseteq Resets(r)'
  BY DEF Elapses, Resets
<1>3. Seen(r) \subseteq Seen(r)'
  BY DEF Elapses, Seen
<1>4. Moments(r) \subseteq Moments(r)'
  BY DEF Elapses, Moments, Twice
<1> QED BY <1>2, <1>3, <1>4

\* Reset times that do not drift fall into classes of times near to each other.
LEMMA ResetsAreInts == ASSUME OnceInv, NEW r \in Roles PROVE Resets(r) \subseteq Int /\ (~Drift(r) <=> Classes(Resets(r)))
<1>1. ASSUME NEW x \in offered, r \in DOMAIN x.obs PROVE x.obs[r].reset \in Int
  <2>1. x \in Inputs
    BY DEF OnceInv
  <2>2. x.obs[r] \in [ws : Int, src : {"relative", "absolute"}, reset : Int, pct : Int]
    BY <1>1, <2>1, HistoryAssumption DEF HistoryAssumption
  <2> QED BY <2>2
<1>2. Resets(r) \subseteq Int
  BY <1>1 DEF Resets
<1> QED BY <1>2 DEF Drift, Classes

\* Once a batch is merged, all of it was seen.
LEMMA BatchSeen ==
    ASSUME OnceInv, ProcessBatch, NEW r \in Roles, NEW cands, NEW f, ComesFrom(cands, f, r)
    PROVE  Met(Seen(r), cands, Len(cands)) \subseteq Seen(r)'
<1>1. batch' = <<>> /\ UNCHANGED <<headerQ, trustedQ, offered>>
  BY DEF ProcessBatch, queueVars, boundVars
<1>2. Elapses
  <2>1. Onward(offered, headerQ, trustedQ, batch, headerQ', trustedQ', batch')
    BY <1>1, EmptyOnce DEF Onward
  <2> QED BY <1>1, <2>1, GoneStays
<1>3. ASSUME NEW k \in 1 .. Len(cands) PROVE cands[k].last \in Seen(r)'
  <2> DEFINE x == batch[f[k]]
  <2>1. r \in DOMAIN x.obs /\ cands[k].last = x.at /\ f[k] \in DOMAIN batch
    BY DEF ComesFrom
  <2>2. x \in offered /\ In(x, batch) /\ f[k] \in 1 .. Len(batch)
    <3>1. batch \in Seq(offered)
      BY DEF OnceInv, ThreeOnce
    <3> QED BY <2>1, <3>1 DEF In
  <2> HIDE DEF x
  <2>3. ~In(x, headerQ) /\ ~In(x, trustedQ)
    BY <2>2 DEF OnceInv, ThreeOnce, Apart
  <2>4. x \in Gone'
    BY <1>1, <2>2, <2>3, EmptyOnce DEF Gone
  <2> QED BY <2>1, <2>4 DEF Seen
<1>4. Seen(r) \subseteq Seen(r)'
  BY <1>2, SetsGrow
<1> QED BY <1>3, <1>4 DEF Met

\* More moments that were observed twice.
LEMMA FollowsMore ==
    ASSUME NEW cs, NEW m, NEW T, NEW U, T \subseteq U, Follows(cs, m, T)
    PROVE  Follows(cs, m, U)
<1>1. \A v, p : Fits(v, p, T) => Fits(v, p, U)
  BY DEF Fits
<1>2. \A v, c : Agrees(v, c, T) => Agrees(v, c, U)
  BY DEF Agrees
<1>3. Fitting(cs, AllOf(m), U)
  BY <1>1 DEF Follows, Fitting
<1> QED BY <1>2, <1>3 DEF Follows

\* What fits by fewer times fits by more.
LEMMA FitsOnward ==
    ASSUME NEW cs, NEW m, NEW G, NEW H, NEW T, NEW F, NEW K, NEW U, MachineFits(cs, m, G, H, T),
           G \subseteq F, H \subseteq K, T \subseteq U
    PROVE  MachineFits(cs, m, F, K, U)
<1>1. Classes(F) => Classes(G)
  BY DEF Classes
<1>2. Orderly(cs, F)
  <2>1. ResetsIn(cs, F)
    BY DEF MachineFits, Orderly, ResetsIn
  <2> QED BY <1>1, <2>1 DEF MachineFits, Orderly
<1>3. LastsIn(cs, K)
  BY DEF MachineFits, LastsIn
<1>4. Within(m, F, K)
  BY DEF MachineFits, Within, InSets
<1>5. Classes(F) /\ ~Mixed(cs) => Follows(cs, m, U)
  BY <1>1, FollowsMore DEF MachineFits
<1> QED BY <1>2, <1>3, <1>4, <1>5 DEF MachineFits

\* A window fits the database, by what was offered of it.
WindowFits(r) == MachineFits(cycles[r], From(current[r], stable[r]), Resets(r), Seen(r), Moments(r))
FitsInv == \A r \in Roles : WindowFits(r)

\* Nothing is known of a window.
LEMMA ForgottenFits ==
    ASSUME NEW cs, NEW G, NEW H, NEW T, Orderly(cs, G), LastsIn(cs, H)
    PROVE  MachineFits(cs, From(Unloaded, NoStable), G, H, T)
<1> DEFINE c == Unloaded
           s == NoStable
<1>1. c.found = FALSE /\ c.loaded = FALSE /\ s.exists = FALSE
  BY DEF Unloaded, NoStable
<1> HIDE DEF c, s
<1>2. Within(From(c, s), G, H) /\ Follows(cs, From(c, s), T) /\ From(c, s).cur = c
  BY <1>1, NothingFollows DEF From
<1> QED BY <1>1, <1>2 DEF MachineFits, c, s

\* Nothing is stored or remembered at first.
LEMMA FitsInit == Init => FitsInv
<1> SUFFICES ASSUME Init, NEW r \in Roles PROVE WindowFits(r)
  BY DEF FitsInv
<1>1. cycles[r] = <<>> /\ current[r] = Unloaded /\ stable[r] = NoStable
  BY DEF Init
<1>2. \A i \in 1 .. Len(<<>>) : FALSE
  OBVIOUS
<1>3. Orderly(<<>>, Resets(r)) /\ LastsIn(<<>>, Seen(r))
  BY <1>2 DEF Orderly, CyclesRight, ResetsIn, Lined, LastsIn
<1> QED BY <1>1, <1>3, ForgottenFits DEF WindowFits

\* The machine after the batch.
LEMMA MergedFollows ==
    ASSUME OnceInv, batch \in Seq(Inputs), NEW r \in Roles, WindowRight(r), WindowFits(r), ProcessBatch,
           NEW codex, NEW loadable
    PROVE  MachineFits(cycles[r], Merged(r, codex, loadable), Resets(r), Seen(r)', Moments(r))
<1> DEFINE cands == Candidates(r, codex)
           m == Merged(r, codex, loadable)
           N == Len(cands)
           G == Resets(r)
           H == Seen(r)
           T == Moments(r)
           cs == cycles[r]
           s == Start(r)
           trusted == TrustedIn(r)
<1>1. m = From(current[r], stable[r]) \/ m = Remembered(s, cands)[N]
  BY MergedIs
<1>2. Arrivals(cands, trusted) /\ Arriving(cands, G, H, T)
  BY CandidatesFit, CandidatesArrive DEF Arrivals
<1>3. PICK f : ComesFrom(cands, f, r)
  BY CandidatesCome
<1>4. CyclesRight(cs) /\ MachineRight(s, cs, trusted) /\ s.cur.loaded
  BY StartFits DEF WindowRight
<1>5. MachineFits(cs, From(current[r], stable[r]), G, H, T)
  BY DEF WindowFits
<1>6. MachineFits(cs, s, G, H, T)
  BY <1>5, StartsFit
<1> HIDE DEF m, cands, cs, s, trusted
<1>7. Met(H, cands, N) \subseteq Seen(r)' /\ H \subseteq Seen(r)'
  BY <1>3, BatchSeen DEF Met
<1> DEFINE K == Seen(r)'
<1>8. Met(H, cands, N) \subseteq K /\ H \subseteq K
  BY <1>7
<1> HIDE DEF G, H, T, K
<1>9. MachineFits(cs, Remembered(s, cands)[N], G, Met(H, cands, N), T)
  BY <1>2, <1>4, <1>6, RememberedFollows
<1>10. MachineFits(cs, Remembered(s, cands)[N], G, K, T)
  BY <1>8, <1>9, FitsMore
<1>11. MachineFits(cs, From(current[r], stable[r]), G, K, T)
  BY <1>5, <1>8, FitsMore DEF G, H, T, cs
<1>12. MachineFits(cs, m, G, K, T)
  BY <1>1, <1>10, <1>11
<1> QED BY <1>12 DEF m, G, T, K, cs

\* One batch, its write and its outcome.
LEMMA ProcessFits ==
    ASSUME OnceInv, batch \in Seq(Inputs), \A r \in Roles : WindowRight(r), FitsInv, ProcessBatch, Elapses
    PROVE  FitsInv'
<1>1. PICK codex, m, due : BatchFlushes(codex, m, due)
  BY ProcessFlushes
<1> SUFFICES ASSUME NEW r \in Roles PROVE WindowFits(r)'
  BY DEF FitsInv
<1> DEFINE mm == m[r]
           cs == cycles[r]
           trusted == TrustedIn(r)
           p == Pending(m[r], due)
           z == cycles'[r]
           c == current'[r]
           s == stable'[r]
           G == Resets(r)
           K == Seen(r)'
           T == Moments(r)
           F == Resets(r)'
           U == Moments(r)'
<1>2. mm = Merged(r, codex, TRUE) \/ mm = Merged(r, codex, FALSE)
  BY <1>1 DEF BatchFlushes
<1>3. MachineRight(Merged(r, codex, TRUE), cs, trusted) /\ MachineRight(Merged(r, codex, FALSE), cs, trusted)
  BY MergedFits
<1>4. MachineFits(cs, Merged(r, codex, TRUE), G, K, T) /\ MachineFits(cs, Merged(r, codex, FALSE), G, K, T)
  BY MergedFollows DEF FitsInv
<1>5. FlushedTo(mm, p, due, cs, z, c, s)
  BY <1>1 DEF BatchFlushes
<1>6. G \subseteq F /\ T \subseteq U
  BY SetsGrow
<1>10. WindowFits(r)' <=> MachineFits(z, From(c, s), F, K, U)
  BY DEF WindowFits
<1> HIDE DEF mm, cs, trusted, p, z, c, s, G, K, T, F, U
<1>7. MachineRight(mm, cs, trusted) /\ MachineFits(cs, mm, G, K, T)
  BY <1>2, <1>3, <1>4
<1>8. MachineFits(z, From(c, s), G, K, T)
  BY <1>5, <1>7, FlushedFits
<1>9. MachineFits(z, From(c, s), F, K, U)
  BY <1>6, <1>8, FitsOnward
<1> QED BY <1>9, <1>10

\* No step makes a memory that does not fit what is stored.
LEMMA FitsNext ==
    ASSUME OnceInv, HistoryInv, FitsInv, [Next]_vars
    PROVE  FitsInv'
<1>1. Elapses
  BY OnceNext
<1>2. ASSUME UNCHANGED <<current, stable, cycles>> PROVE FitsInv'
  <2> SUFFICES ASSUME NEW r \in Roles PROVE WindowFits(r)'
    BY DEF FitsInv
  <2> DEFINE cs == cycles[r]
             x == From(current[r], stable[r])
             G == Resets(r)
             H == Seen(r)
             T == Moments(r)
             F == Resets(r)'
             K == Seen(r)'
             U == Moments(r)'
  <2>1. MachineFits(cs, x, G, H, T)
    BY DEF FitsInv, WindowFits
  <2>2. G \subseteq F /\ H \subseteq K /\ T \subseteq U
    BY <1>1, SetsGrow
  <2>3. WindowFits(r)' <=> MachineFits(cs, x, F, K, U)
    BY <1>2 DEF WindowFits
  <2> HIDE DEF cs, x, G, H, T, F, K, U
  <2> QED BY <2>1, <2>2, <2>3, FitsOnward
<1>3. ASSUME Crash PROVE FitsInv'
  <2> SUFFICES ASSUME NEW r \in Roles PROVE WindowFits(r)'
    BY DEF FitsInv
  <2> DEFINE cs == cycles[r]
             F == Resets(r)'
             K == Seen(r)'
             U == Moments(r)'
  <2>1. current'[r] = Unloaded /\ stable'[r] = NoStable /\ cycles'[r] = cs
    BY <1>3 DEF Crash
  <2>2. Orderly(cs, Resets(r)) /\ LastsIn(cs, Seen(r))
    BY DEF FitsInv, WindowFits, MachineFits
  <2>3. Resets(r) \subseteq F /\ Seen(r) \subseteq K
    BY <1>1, SetsGrow
  <2>4. WindowFits(r)' <=> MachineFits(cs, From(Unloaded, NoStable), F, K, U)
    BY <2>1 DEF WindowFits
  <2> HIDE DEF cs, F, K, U
  <2>5. MachineFits(cs, From(Unloaded, NoStable), Resets(r), Seen(r), U)
    BY <2>2, ForgottenFits
  <2>6. MachineFits(cs, From(Unloaded, NoStable), F, K, U)
    BY <2>3, <2>5, FitsOnward
  <2> QED BY <2>4, <2>6
<1>4. CASE ProcessBatch
  BY <1>1, <1>4, ProcessFits DEF HistoryInv
<1> QED BY <1>2, <1>3, <1>4
  DEF Next, Runner, AppendInput, FindFull, FinishPush, DropHead, SendAgain,
     CloseHistory, WakeForHeaders, LookAtQueue, TakeCounts, ReceiveHeader,
      ReceiveTrusted, stateVars, vars

\* What is recovered from cycles in line is the last one.
LEMMA RecoveredTail ==
    ASSUME NEW cs, CyclesRight(cs), cs # <<>>, Lined(cs)
    PROVE  /\ Recovered(cs).ws = cs[Len(cs)].ws /\ Recovered(cs).pct = TailPct(cs[Len(cs)])
           /\ Recovered(cs).last = cs[Len(cs)].last
<1> DEFINE d == cs[Len(cs)]
<1>1. LatestOf(cs) = Len(cs) /\ CycleRight(d)
  BY LatestIsLast DEF CyclesRight
<1>2. Last(d.segs) = d.segs[Len(d.segs)] /\ d.segs[Len(d.segs)].last = d.last
  BY <1>1 DEF CycleRight, Last
<1>3. Recovered(cs).ws = d.ws /\ Recovered(cs).pct = Last(d.segs).pct /\ Recovered(cs).last = Last(d.segs).last
  BY <1>1 DEF Recovered
<1> QED BY <1>2, <1>3 DEF TailPct

\* What a window must be for its memory to be comparable.
LEMMA ComparableIs ==
    ASSUME OnceInv, NEW r \in Roles, CyclesRight(cycles[r]), Comparable(r)
    PROVE  current[r].found /\ Classes(Resets(r)) /\ ~Mixed(cycles[r])
<1> DEFINE cs == cycles[r]
           c == current[r]
<1>1. c.found /\ ~Detour(r) /\ ~Drift(r)
  BY DEF Comparable
<1>2. ~Mixed(cs)
  <2>1. \A i \in 1 .. Len(cs) : cs[i].ws = c.ws
    BY <1>1 DEF Detour, CyclesRight
  <2> QED BY <2>1 DEF Mixed
<1> QED BY <1>1, <1>2, ResetsAreInts

\* So what is remembered is what is stored, with what is deferred.
LEMMA MemoryMatches ==
    ASSUME OnceInv, HistoryInv, FitsInv
    PROVE  MemoryMatchesDatabase
<1> SUFFICES ASSUME NEW r \in Roles
             PROVE  /\ current[r].loaded => (current[r].found <=> cycles[r] # <<>>)
                    /\ Comparable(r) => LET stored == Recovered(cycles[r]) IN
                         /\ <<stored.ws, stored.pct>> = <<current[r].ws, current[r].pct>>
                         /\ IF stable[r].exists
                            THEN /\ stable[r].obs.last = current[r].last
                                 /\ stored.last < stable[r].obs.first
                            ELSE \/ stored.last = current[r].last
                                 \/ stored.last < current[r].last /\ Twice(r, stored.last)
  BY DEF MemoryMatchesDatabase
<1> DEFINE cs == cycles[r]
           c == current[r]
           s == stable[r]
           T == Moments(r)
           x == From(c, s)
<1>1. /\ Orderly(cs, Resets(r)) /\ (c.loaded => Loads(cs, x))
      /\ (Classes(Resets(r)) /\ ~Mixed(cs) => Follows(cs, x, T))
  BY DEF FitsInv, WindowFits, MachineFits, From
<1>2. x.cur = c /\ x.stab = s /\ x.pend = <<>>
  BY DEF From
<1>3. CyclesRight(cs) /\ (c.found => c.loaded) /\ s.exists \in BOOLEAN /\ MachineRight(x, cs, TRUE)
  BY StartFits DEF HistoryInv, WindowRight, Known
<1>4. c.loaded => (c.found <=> cs # <<>>)
  BY <1>1, <1>2 DEF Loads
<1>5. ASSUME Comparable(r)
      PROVE  LET stored == Recovered(cs) IN
               /\ <<stored.ws, stored.pct>> = <<c.ws, c.pct>>
               /\ IF s.exists
                  THEN s.obs.last = c.last /\ stored.last < s.obs.first
                  ELSE \/ stored.last = c.last
                       \/ stored.last < c.last /\ Twice(r, stored.last)
  <2>1. c.found /\ cs # <<>> /\ Classes(Resets(r)) /\ ~Mixed(cs)
    <3>1. current[r].found /\ Classes(Resets(r)) /\ ~Mixed(cycles[r])
      BY <1>3, <1>5, ComparableIs
    <3> QED BY <1>3, <1>4, <3>1
  <2>2. Lined(cs) /\ Follows(cs, x, T)
    BY <1>1, <2>1 DEF Orderly
  <2> DEFINE v == TailView(cs)
             stored == Recovered(cs)
  <2>3. stored.ws = v.ws /\ stored.pct = v.pct /\ stored.last = v.last
    BY <1>3, <2>1, <2>2, RecoveredTail DEF TailView
  <2> HIDE DEF v, stored, x, s, c, cs, T
  <2>4. CASE s.exists
    <3>1. AllOf(x) = <<s.obs>> /\ Len(AllOf(x)) = 1 /\ AllOf(x) # <<>> /\ AllOf(x)[1] = s.obs
      <4>1. AllOf(x) = <<x.stab.obs>>
        BY <1>2, <1>3, <2>4, AllOfCases
      <4> QED BY <1>2, <4>1
    <3>2. Agrees(s.obs, c, T) /\ Repeats(v, s.obs) /\ s.obs.last = c.last
      BY <1>2, <2>1, <2>2, <2>4, <3>1 DEF Follows, LastView, v
    <3> QED BY <2>3, <2>4, <3>2 DEF Agrees, Repeats, stored
  <2>5. CASE ~s.exists
    <3>1. AllOf(x) = <<>>
      <4>1. AllOf(x) = x.pend
        BY <1>2, <1>3, <2>5, AllOfCases
      <4> QED BY <1>2, <4>1
    <3>2. Agrees(v, c, T)
      BY <1>2, <2>1, <2>2, <3>1 DEF Follows, LastView, v
    <3>3. v.last \in T => Twice(r, v.last)
      BY DEF T, Moments
    <3> QED BY <2>3, <2>5, <3>2, <3>3 DEF Agrees, stored
  <2> QED BY <2>4, <2>5
<1> QED BY <1>4, <1>5

-----------------------------------------------------------------------------
(* What was observed at a time t is written together.                          *)

\* What the machine remembers of t is deferred, or is written in this batch.
Ready(m, t) == m.cur.found /\ m.cur.last = t => (m.stab.exists /\ m.pend = <<>>) \/ t \in m.due

\* What is ready at t stays so, whatever is merged.
LEMMA MergesReady == ASSUME NEW m, NEW z, NEW o, Merges(m, z, o), NEW t, Ready(m, t) PROVE Ready(z, t)
<1>1. CASE z = m
  BY <1>1
<1>2. CASE Led(m, z, o)
  BY <1>2 DEF Led, WrittenNow, StateOf, Ready
<1>3. CASE SameMoment(m, z, o)
  BY <1>3 DEF SameMoment, WrittenNow, StateRenewed, Ready
<1>4. CASE EntryRenewed(m, z, o)
  BY <1>4 DEF EntryRenewed, WrittenNow, StateRenewed, Ready
<1>5. CASE DeferredRenewed(m, z, o)
  BY <1>5 DEF DeferredRenewed, Ready
<1> QED BY <1>1, <1>2, <1>3, <1>4, <1>5 DEF Merges

\* What z defers was deferred by m until the same time, or lasts until one of D.
Defers(m, z, D) ==
    z.stab.exists => \/ m.stab.exists /\ m.stab.obs.last = z.stab.obs.last
                     \/ z.stab.obs.last \in D

\* What is deferred lasts until a time that was met.
LEMMA MergesDefer == ASSUME NEW m, NEW z, NEW o, m.stab.exists \in BOOLEAN, Merges(m, z, o) PROVE Defers(m, z, {o.last})
<1>1. CASE z = m
  BY <1>1 DEF Defers
<1>2. CASE Led(m, z, o) \/ SameMoment(m, z, o) \/ EntryRenewed(m, z, o)
  BY <1>2 DEF Led, SameMoment, EntryRenewed, WrittenNow, Defers
<1>3. CASE DeferredRenewed(m, z, o)
  <2>1. z.stab.obs.last = o.last
    BY <1>3 DEF DeferredRenewed
  <2> QED BY <2>1 DEF Defers
<1> QED BY <1>1, <1>2, <1>3 DEF Merges

\* The machine z of the candidates so far, which began as s.
Carries(s, z, D, t) == (Ready(s, t) => Ready(z, t)) /\ Defers(s, z, D)

\* All candidates of a batch leave the window ready.
LEMMA RememberedReady ==
    ASSUME NEW cs, CyclesRight(cs), NEW trusted, NEW s, MachineRight(s, cs, trusted), s.cur.loaded,
           NEW cands, Arrivals(cands, trusted), NEW t
    PROVE  Carries(s, Remembered(s, cands)[Len(cands)], Met({}, cands, Len(cands)), t)
<1> DEFINE W == Remembered(s, cands)
           N == Len(cands)
           Good(n) == Carries(s, W[n], Met({}, cands, n), t)
           Bad == {n \in 0 .. N : ~Good(n)}
<1>1. /\ N \in Nat
      /\ \A i \in 1 .. N : /\ cands[i] \in Observations /\ cands[i].first = cands[i].last
                           /\ cands[i].auth => trusted
  BY DEF Arrivals
<1>2. W[0] = s /\ \A n \in 1 .. N : W[n] = Merge(W[n - 1], cands[n])
  BY <1>1, MergingRuns
<1>3. \A n \in 0 .. N : MachineRight(W[n], cs, trusted) /\ W[n].cur.loaded
  BY RememberedFits
<1> HIDE DEF W, N
<1>4. SUFFICES Bad = {}
  <2>1. N \in 0 .. N
    BY <1>1
  <2> QED BY <1>4, <2>1 DEF W, N
<1> SUFFICES ASSUME Bad # {} PROVE FALSE
  OBVIOUS
<1>5. Bad \subseteq Nat
  BY <1>1
<1>6. PICK n \in Bad : \A k \in Bad : n <= k
  BY <1>5, NaturalsHaveLeast
<1>7. n \in 0 .. N /\ n \in Nat /\ ~Good(n)
  BY <1>5
<1>8. n # 0
  <2>1. Carries(s, s, Met({}, cands, 0), t)
    BY DEF Carries, Defers
  <2> QED BY <1>2, <1>7, <2>1
<1>9. n - 1 \in 0 .. N /\ n - 1 \notin Bad /\ n \in 1 .. N
  BY <1>1, <1>6, <1>7, <1>8
<1> DEFINE K == Met({}, cands, n)
           J == Met({}, cands, n - 1)
           o == cands[n]
           m == W[n - 1]
           z == W[n]
<1>10. J \subseteq K /\ o.last \in K
  BY <1>7, <1>9 DEF Met
<1>11. /\ Carries(s, m, J, t) /\ MachineRight(m, cs, trusted) /\ m.cur.loaded
       /\ o \in Observations /\ o.first = o.last /\ (o.auth => trusted)
       /\ z = Merge(m, o) /\ ~Carries(s, z, K, t)
  BY <1>1, <1>2, <1>3, <1>7, <1>9
<1> HIDE DEF K, J, o, m, z, Bad
<1>12. Merges(m, z, o) /\ m.stab.exists \in BOOLEAN
  BY <1>11, MergeIsOne DEF MachineRight, Known
<1>13. Defers(m, z, {o.last}) /\ (Ready(m, t) => Ready(z, t))
  BY <1>12, MergesDefer, MergesReady
<1>14. Defers(s, z, K)
  <2>1. Defers(s, m, J)
    BY <1>11 DEF Carries
  <2> QED BY <1>10, <1>13, <2>1 DEF Defers
<1> QED BY <1>11, <1>13, <1>14 DEF Carries

\* A write leaves no lengths unmixed that were mixed.
LEMMA FlushedMixed ==
    ASSUME NEW cs, NEW trusted, NEW m, MachineRight(m, cs, trusted), NEW due, NEW G, NEW H, NEW T,
           MachineFits(cs, m, G, H, T), NEW p, NEW z, NEW c, NEW s, FlushedTo(m, p, due, cs, z, c, s),
           ~Mixed(z)
    PROVE  ~Mixed(cs)
<1>1. p = Pending(m, due) /\ \E k \in 0 .. Len(p) : z = Written(cs, p)[k]
  BY DEF FlushedTo
<1>2. p = <<>> \/ p = AllOf(m)
  BY <1>1, PendingIs
<1>3. CASE p = <<>>
  <2>1. Written(cs, p)[0] = cs /\ Len(p) = 0
    BY <1>3, WrittenRuns
  <2>2. \A k \in 0 .. Len(p) : k = 0
    BY <2>1
  <2> QED BY <1>1, <2>1, <2>2
<1>4. CASE p # <<>>
  <2>1. Writes(cs, p, G, H) /\ Orderly(cs, G) /\ LastsIn(cs, H) /\ p \in Seq(Observations)
    BY <1>2, <1>4, AllOfWrites, AllOfCases DEF MachineFits
  <2>2. PICK k \in 0 .. Len(p) : z = Written(cs, p)[k]
    BY <1>1
  <2>3. Written(cs, p)[0] = cs
    BY <2>1, WrittenRuns
  <2>4. k = 0 \/ k \in 1 .. Len(p)
    BY <2>1
  <2>5. \A n \in 1 .. Len(p) : ~Mixed(Written(cs, p)[n]) => ~Mixed(cs)
    BY <2>1, MixedNever
  <2> QED BY <2>2, <2>3, <2>4, <2>5
<1> QED BY <1>3, <1>4

\* Nothing of a window is stored at t, nor remembered of t but what is deferred.
Unmet(cs, c, s, t) ==
    /\ cs # <<>> => cs[Len(cs)].last # t
    /\ c.found /\ c.last = t => s.exists

\* A write in which t is not due writes nothing of t, unless it stops at t.
LEMMA FlushedApart ==
    ASSUME NEW cs, NEW trusted, NEW m, MachineRight(m, cs, trusted), NEW due, NEW G, Classes(G), NEW H, NEW T,
           MachineFits(cs, m, G, H, T), NEW p, NEW z, NEW c, NEW s, FlushedTo(m, p, due, cs, z, c, s),
           ~Mixed(z), NEW t, t \notin due, t \notin m.due, t \notin T, Ready(m, t),
           cs # <<>> => cs[Len(cs)].last # t,
           z = cs \/ z = Written(cs, p)[Len(p)] \/ Recovered(z).last # t
    PROVE  Unmet(z, c, s, t)
<1>1. Follows(cs, m, T)
  BY FlushedMixed DEF MachineFits
<1>2. /\ p = Pending(m, due)
      /\ \/ c = Unloaded /\ s = NoStable
         \/ /\ c = m.cur
            /\ s = IF m.stab.exists /\ m.stab.obs.last \in due THEN NoStable ELSE m.stab
            /\ z = Written(cs, p)[Len(p)] \/ p = <<>>
  BY DEF FlushedTo
<1>3. ASSUME m.cur.found, m.cur.last = t PROVE m.stab.exists /\ m.stab.obs.last \notin due /\ p = <<>>
  <2>1. m.stab.exists /\ m.stab.obs.last = t
    BY <1>1, <1>3 DEF Ready, Follows
  <2> QED BY <1>2, <2>1, PendingIs
<1>4. c.found /\ c.last = t => s.exists
  <2>1. Unloaded.found = FALSE
    BY DEF Unloaded
  <2> QED BY <1>2, <1>3, <2>1
<1>5. CASE z = cs
  BY <1>4, <1>5 DEF Unmet
<1>6. CASE z = Written(cs, p)[Len(p)] /\ p = <<>>
  <2>1. Written(cs, p)[0] = cs /\ Len(p) = 0
    BY <1>6, WrittenRuns
  <2> QED BY <1>5, <1>6, <2>1
<1>7. CASE z = Written(cs, p)[Len(p)] /\ p # <<>>
  <2> DEFINE u == IF m.stab.exists /\ m.stab.obs.last \in due THEN NoStable ELSE m.stab
  <2>1. FlushedTo(m, p, due, cs, z, m.cur, u)
    BY <1>2, <1>7 DEF FlushedTo
  <2>2. m.cur.found /\ u.exists = FALSE
    <3>1. m.cur.found /\ ~(m.stab.exists /\ m.stab.obs.last \notin due)
      BY <1>2, <1>7, PendingIs, PendingFits
    <3>2. NoStable.exists = FALSE /\ m.stab.exists \in BOOLEAN
      BY DEF NoStable, MachineRight, Known
    <3> QED BY <3>1, <3>2
  <2> HIDE DEF u
  <2>3. MachineFits(z, From(m.cur, u), G, H, T)
    BY <2>1, FlushedFits
  <2>4. Tells(z, m.cur, T)
    BY <2>2, <2>3, NothingFollows DEF MachineFits
  <2>5. z[Len(z)].last = m.cur.last \/ z[Len(z)].last \in T
    BY <2>4 DEF Tells, Agrees, TailView
  <2>6. z[Len(z)].last # t
    BY <1>3, <1>7, <2>2, <2>5
  <2> QED BY <1>4, <2>6 DEF Unmet
<1>8. CASE Recovered(z).last # t
  <2>1. MachineFits(z, From(c, s), G, H, T)
    BY FlushedFits
  <2>2. CyclesRight(z) /\ Lined(z)
    BY <2>1 DEF MachineFits, Orderly
  <2> QED BY <1>4, <1>8, <2>2, RecoveredTail DEF Unmet
<1> QED BY <1>5, <1>6, <1>7, <1>8

\* One input only is of this time.
Alone(t) == \A x, y \in Inputs : x.at = t /\ y.at = t => x = y

\* While one window is deferred until t, no other is written at t, unless a write
\* of it had stopped there.
ApartInv ==
    \A q, r \in Roles : \A x \in Inputs :
        Alone(x.at) /\ stable[q].exists /\ stable[q].obs.last = x.at /\ x.at \notin split[r]
            /\ Classes(Resets(r)) /\ ~Mixed(cycles[r])
            => Unmet(cycles[r], current[r], stable[r], x.at)

\* Before the batch: if the window has not met t, nor has the machine.
LEMMA StartReady ==
    ASSUME NEW r \in Roles, WindowRight(r), NEW G, Classes(G), NEW H, NEW T,
           MachineFits(cycles[r], From(current[r], stable[r]), G, H, T), ~Mixed(cycles[r]),
           NEW t, Unmet(cycles[r], current[r], stable[r], t)
    PROVE  Ready(From(current[r], stable[r]), t) /\ Ready(Start(r), t)
<1> DEFINE cs == cycles[r]
           x == From(current[r], stable[r])
<1>1. x.cur = current[r] /\ x.stab = stable[r] /\ x.pend = <<>>
  BY DEF From
<1>2. Ready(x, t)
  BY <1>1 DEF Ready, Unmet
<1>3. CASE current[r].loaded
  <2>1. Start(r) = x
    BY <1>3 DEF Start
  <2> QED BY <1>2, <2>1
<1>4. CASE ~current[r].loaded
  <2> DEFINE c == Recovered(cs)
  <2>1. Start(r).cur = c
    BY <1>4 DEF Start, From
  <2>2. c.found => cs # <<>>
    BY DEF Recovered, Unloaded
  <2>3. CyclesRight(cs) /\ Lined(cs)
    BY DEF MachineFits, Orderly
  <2>4. cs # <<>> => c.last = cs[Len(cs)].last /\ cs[Len(cs)].last # t
    BY <2>3, RecoveredTail DEF Unmet
  <2> HIDE DEF c
  <2>5. Ready(Start(r), t)
    BY <2>1, <2>2, <2>4 DEF Ready
  <2> QED BY <1>2, <2>5
<1> QED BY <1>3, <1>4

\* A batch that met t alone.
LEMMA AloneUnmet ==
    ASSUME OnceInv, NEW r \in Roles, WindowRight(r), WindowFits(r), NEW x \in Inputs, Alone(x.at), In(x, batch)
    PROVE  Unmet(cycles[r], current[r], stable[r], x.at)
<1> DEFINE cs == cycles[r]
           c == current[r]
           t == x.at
<1>1. t \notin Seen(r)
  <2> SUFFICES ASSUME t \in Seen(r) PROVE FALSE
    OBVIOUS
  <2>1. PICK y \in Gone : y.at = t
    BY DEF Seen
  <2>2. y \in Inputs /\ ~In(y, batch)
    BY <2>1 DEF Gone, OnceInv
  <2>3. x = y
    BY <2>1, <2>2 DEF Alone
  <2> QED BY <2>2, <2>3
<1> HIDE DEF t
<1>2. cs # <<>> => cs[Len(cs)].last # t
  <2>1. LastsIn(cs, Seen(r)) /\ CyclesRight(cs)
    BY DEF WindowFits, MachineFits, Orderly
  <2>2. cs # <<>> => Len(cs) \in 1 .. Len(cs)
    BY <2>1 DEF CyclesRight
  <2> QED BY <1>1, <2>1, <2>2 DEF LastsIn
<1>3. c.found => c.last # t
  <2>1. Within(From(c, stable[r]), Resets(r), Seen(r)) /\ From(c, stable[r]).cur = c
    BY DEF WindowFits, MachineFits, From
  <2> QED BY <1>1, <2>1 DEF Within, InSets
<1> QED BY <1>2, <1>3 DEF Unmet, t

\* The machine of the whole batch.
LEMMA MergedReady ==
    ASSUME batch \in Seq(Inputs), NEW r \in Roles, WindowRight(r), NEW codex, NEW loadable, NEW t
    PROVE  LET m == Merged(r, codex, loadable) IN
             /\ Ready(From(current[r], stable[r]), t) /\ Ready(Start(r), t) => Ready(m, t)
             /\ m.stab.exists => \/ stable[r].exists /\ stable[r].obs.last = m.stab.obs.last
                                 \/ \E i \in 1 .. Len(batch) : batch[i].at = m.stab.obs.last
<1> DEFINE m == Merged(r, codex, loadable)
           cands == Candidates(r, codex)
           N == Len(cands)
           x == From(current[r], stable[r])
           s == Start(r)
           D == Met({}, cands, N)
<1>1. m = x \/ m = Remembered(s, cands)[N]
  BY MergedIs
<1>2. Arrivals(cands, TrustedIn(r))
  BY CandidatesFit DEF Arrivals
<1>3. CyclesRight(cycles[r]) /\ MachineRight(s, cycles[r], TrustedIn(r)) /\ s.cur.loaded
  BY StartFits DEF WindowRight
<1>4. x.stab = stable[r] /\ s.stab = stable[r]
  BY DEF From, Start
<1>5. PICK f : ComesFrom(cands, f, r)
  BY CandidatesCome
<1>6. ASSUME NEW d \in D PROVE \E i \in 1 .. Len(batch) : batch[i].at = d
  <2>1. PICK k \in 1 .. N : cands[k].last = d
    BY DEF Met
  <2>2. f[k] \in DOMAIN batch /\ batch[f[k]].at = d
    BY <1>5, <2>1 DEF ComesFrom
  <2>3. DOMAIN batch = 1 .. Len(batch)
    OBVIOUS
  <2> QED BY <2>2, <2>3
<1> HIDE DEF m, x, s, cands
<1>7. Carries(s, Remembered(s, cands)[N], D, t)
  BY <1>2, <1>3, RememberedReady
<1> HIDE DEF D
<1>8. CASE m = x
  BY <1>4, <1>8 DEF x, m
<1>9. CASE m = Remembered(s, cands)[N]
  <2>1. Carries(s, m, D, t)
    BY <1>7, <1>9
  <2>2. Ready(s, t) => Ready(m, t)
    BY <2>1 DEF Carries
  <2>3. m.stab.exists => \/ stable[r].exists /\ stable[r].obs.last = m.stab.obs.last
                         \/ m.stab.obs.last \in D
    BY <1>4, <2>1 DEF Carries, Defers
  <2>4. m.stab.exists => \/ stable[r].exists /\ stable[r].obs.last = m.stab.obs.last
                         \/ \E i \in 1 .. Len(batch) : batch[i].at = m.stab.obs.last
    BY <1>6, <2>3
  <2> QED BY <2>2, <2>4 DEF m, s
<1> QED BY <1>1, <1>8, <1>9

\* One batch writes what has the same time together (DueTimes).
LEMMA ProcessApart ==
    ASSUME OnceInv, HistoryInv, FitsInv, ApartInv, ProcessBatch, Elapses
    PROVE  ApartInv'
<1>1. PICK codex, m, due : BatchFlushes(codex, m, due)
  BY ProcessFlushes DEF HistoryInv
<1>2. \A r \in Roles : WindowRight(r) /\ WindowFits(r)
  BY DEF HistoryInv, FitsInv
<1> SUFFICES ASSUME NEW q \in Roles, NEW r \in Roles, NEW x \in Inputs, Alone(x.at),
                    stable'[q].exists, stable'[q].obs.last = x.at, x.at \notin split'[r],
                    Classes(Resets(r)'), ~Mixed(cycles'[r])
             PROVE  Unmet(cycles'[r], current'[r], stable'[r], x.at)
  BY DEF ApartInv
<1> DEFINE t == x.at
           G == Resets(r)
           K == Seen(r)'
           T == Moments(r)
           cs == cycles[r]
           z == cycles'[r]
           c == current'[r]
           s == stable'[r]
           p == Pending(m[r], due)
           mm == m[r]
           trusted == TrustedIn(r)
\* q is deferred until t: it is not due, nor is anything of t written
<1>3. m[q].stab.exists /\ m[q].stab.obs.last = t /\ t \notin due
  <2> DEFINE sq == stable'[q]
             mq == m[q]
             pq == Pending(m[q], due)
             cq == cycles[q]
             zq == cycles'[q]
             dq == current'[q]
  <2>1. FlushedTo(mq, pq, due, cq, zq, dq, sq)
    BY <1>1 DEF BatchFlushes
  <2>2. sq.exists /\ sq.obs.last = t /\ NoStable.exists = FALSE
    BY DEF NoStable
  <2> HIDE DEF mq, pq, cq, zq, dq, sq
  <2>3. sq = mq.stab /\ ~(mq.stab.exists /\ mq.stab.obs.last \in due)
    BY <2>1, <2>2 DEF FlushedTo
  <2> QED BY <2>2, <2>3 DEF mq
<1>4. t \notin mm.due
  BY <1>1, <1>3 DEF BatchFlushes, Together
<1>5. Classes(G)
  <2>1. G \subseteq Resets(r)'
    BY SetsGrow
  <2> QED BY <2>1 DEF Classes
<1>6. t \notin T
  BY DEF Alone, Moments, Twice, OnceInv
<1>7. MachineRight(mm, cs, trusted) /\ MachineFits(cs, mm, G, K, T)
  <2>1. mm = Merged(r, codex, TRUE) \/ mm = Merged(r, codex, FALSE)
    BY <1>1 DEF BatchFlushes
  <2>2. /\ MachineRight(Merged(r, codex, TRUE), cs, trusted) /\ MachineRight(Merged(r, codex, FALSE), cs, trusted)
        /\ MachineFits(cs, Merged(r, codex, TRUE), G, K, T) /\ MachineFits(cs, Merged(r, codex, FALSE), G, K, T)
    BY <1>2, MergedFits, MergedFollows DEF HistoryInv
  <2> HIDE DEF mm
  <2> QED BY <2>1, <2>2
<1>8. FlushedTo(mm, p, due, cs, z, c, s) /\ ~Mixed(z)
  BY <1>1 DEF BatchFlushes
<1>9. ~Mixed(cs)
  <2> HIDE DEF mm, p, cs, z, c, s, G, K, T, trusted
  <2> QED BY <1>7, <1>8, FlushedMixed
<1>10. Unmet(cs, current[r], stable[r], t)
  <2>0. t \notin split[r]
    BY <1>1 DEF BatchFlushes, Noticed
  <2>1. CASE stable[q].exists /\ stable[q].obs.last = t
    BY <1>5, <1>9, <2>0, <2>1 DEF ApartInv
  <2>2. CASE \E i \in 1 .. Len(batch) : batch[i].at = t
    <3>1. PICK i \in 1 .. Len(batch) : batch[i].at = t
      BY <2>2
    <3>2. batch[i] \in Inputs
      BY DEF HistoryInv
    <3>3. batch[i] = x
      BY <3>1, <3>2 DEF Alone
    <3>4. In(x, batch)
      BY <3>3 DEF In
    <3> QED BY <1>2, <3>4, AloneUnmet
  <2>3. \/ stable[q].exists /\ stable[q].obs.last = t
        \/ \E i \in 1 .. Len(batch) : batch[i].at = t
    <3> DEFINE mq == m[q]
    <3>1. mq = Merged(q, codex, TRUE) \/ mq = Merged(q, codex, FALSE)
      BY <1>1 DEF BatchFlushes
    <3>2. mq.stab.exists /\ mq.stab.obs.last = t
      BY <1>3
    <3> HIDE DEF mq, t
    <3>3. batch \in Seq(Inputs) /\ WindowRight(q)
      BY <1>2 DEF HistoryInv
    <3>4. \A l \in BOOLEAN : mq = Merged(q, codex, l) =>
             \/ stable[q].exists /\ stable[q].obs.last = t
             \/ \E i \in 1 .. Len(batch) : batch[i].at = t
      BY <3>2, <3>3, MergedReady
    <3> QED BY <3>1, <3>4
  <2> QED BY <2>1, <2>2, <2>3
<1>11. Ready(mm, t)
  <2>1. MachineFits(cs, From(current[r], stable[r]), G, Seen(r), T)
    BY <1>2 DEF WindowFits
  <2>2. Ready(From(current[r], stable[r]), t) /\ Ready(Start(r), t)
    <3> HIDE DEF t, G, T
    <3> QED BY <1>2, <1>5, <1>9, <1>10, <2>1, StartReady
  <2>3. mm = Merged(r, codex, TRUE) \/ mm = Merged(r, codex, FALSE)
    BY <1>1 DEF BatchFlushes
  <2>4. batch \in Seq(Inputs)
    BY DEF HistoryInv
  <2> HIDE DEF mm, t
  <2>5. Ready(Merged(r, codex, TRUE), t) /\ Ready(Merged(r, codex, FALSE), t)
    BY <1>2, <2>2, <2>4, MergedReady
  <2> QED BY <2>3, <2>5
<1>12. cs # <<>> => cs[Len(cs)].last # t
  BY <1>10 DEF Unmet
<1>14. z = cs \/ z = Written(cs, p)[Len(p)] \/ Recovered(z).last # t
  <2>1. Noticed(p, cs, z, split[r], split'[r])
    BY <1>1 DEF BatchFlushes
  <2> HIDE DEF p, cs, z
  <2> QED BY <2>1 DEF Noticed
<1> HIDE DEF mm, p, cs, z, c, s, G, K, T, trusted, t
<1>13. Unmet(z, c, s, t)
  BY <1>3, <1>4, <1>5, <1>6, <1>7, <1>8, <1>11, <1>12, <1>14, FlushedApart
<1> QED BY <1>13 DEF z, c, s, t

\* Nothing is deferred at first.
LEMMA ApartInit == Init => ApartInv
BY DEF Init, ApartInv, NoStable

\* No step writes one window of a moment and leaves the other deferred.
LEMMA ApartNext ==
    ASSUME OnceInv, HistoryInv, FitsInv, ApartInv, [Next]_vars
    PROVE  ApartInv'
<1>1. Elapses
  BY OnceNext
<1>2. ASSUME UNCHANGED <<current, stable, cycles, split>> PROVE ApartInv'
  <2> SUFFICES ASSUME NEW q \in Roles, NEW r \in Roles, NEW x \in Inputs, Alone(x.at),
                      stable[q].exists, stable[q].obs.last = x.at, x.at \notin split[r],
                      Classes(Resets(r)'), ~Mixed(cycles[r])
               PROVE  Unmet(cycles[r], current[r], stable[r], x.at)
    BY <1>2 DEF ApartInv
  <2>1. Classes(Resets(r))
    <3>1. Resets(r) \subseteq Resets(r)'
      BY <1>1, SetsGrow
    <3> QED BY <3>1 DEF Classes
  <2> QED BY <2>1 DEF ApartInv
<1>3. CASE Crash
  BY <1>3 DEF Crash, ApartInv, NoStable
<1>4. CASE ProcessBatch
  BY <1>1, <1>4, ProcessApart
<1> QED BY <1>2, <1>3, <1>4
  DEF Next, Runner, AppendInput, FindFull, FinishPush, DropHead, SendAgain,
     CloseHistory, WakeForHeaders, LookAtQueue, TakeCounts, ReceiveHeader,
      ReceiveTrusted, stateVars, vars

\* So what one response showed is written together.
LEMMA MomentsApart ==
    ASSUME OnceInv, HistoryInv, ApartInv
    PROVE  WrittenTogether
<1> SUFFICES ASSUME NEW x \in Inputs, \A y \in Inputs : y.at = x.at => y = x,
                    NEW q \in Roles, NEW r \in Roles, stable[q].exists, stable[q].obs.last = x.at,
                    Comparable(r), current[r].last = x.at, ~stable[r].exists, x.at \notin split[r]
             PROVE  FALSE
  BY DEF WrittenTogether
<1>1. Alone(x.at)
  BY DEF Alone
<1>2. CyclesRight(cycles[r])
  BY DEF HistoryInv, WindowRight
<1>3. current[r].found /\ Classes(Resets(r)) /\ ~Mixed(cycles[r])
  BY <1>2, ComparableIs
<1>4. Unmet(cycles[r], current[r], stable[r], x.at)
  BY <1>1, <1>3 DEF ApartInv
<1> QED BY <1>3, <1>4 DEF Unmet

\* All of this together is invariant.
LEMMA MemoryStays == Spec => [](HistoryInv /\ OnceInv /\ FitsInv /\ ApartInv)
<1> DEFINE MemoryInv == OnceInv /\ FitsInv /\ ApartInv
<1>1. Init => MemoryInv
  BY OnceInit, FitsInit, ApartInit
<1>2. MemoryInv /\ HistoryInv /\ [Next]_vars => MemoryInv'
  BY OnceNext, FitsNext, ApartNext
<1> HIDE DEF MemoryInv
<1>3. Spec => []MemoryInv
  BY <1>1, <1>2, HistoryStays, PTL DEF Spec
<1>4. MemoryInv /\ HistoryInv => HistoryInv /\ OnceInv /\ FitsInv /\ ApartInv
  BY DEF MemoryInv
<1> QED BY <1>3, <1>4, HistoryStays, PTL

\* The machine in memory (quota/codex_quota_history_scheduler.go) and the
\* transaction (repository/codex_quota_history.go) accept the same observations
\* wherever they can be compared, for any inputs, tolerance, capacity, crashes
\* and writes that fail or stop between two transactions of 32 observations.
\* What a response showed of both windows is given to one write: neither stays
\* deferred while the other is written, unless a write stopped at that moment.
THEOREM MemoryFitsDatabase == Spec => []HistoryFitsTogether
<1>1. HistoryInv /\ OnceInv /\ FitsInv /\ ApartInv => HistoryFitsTogether
  BY MemoryMatches, MomentsApart DEF HistoryFitsTogether
<1> QED BY <1>1, MemoryStays, PTL

-----------------------------------------------------------------------------
(* Sums: what the falls of a cycle make up.                                   *)

\* A finite set of integers has a least element.
LEMMA IntegersHaveLeast ==
    ASSUME NEW S \in SUBSET Int, IsFiniteSet(S), S # {}
    PROVE  Min(S) \in S /\ \A x \in S : Min(S) <= x
<1> DEFINE key == [i \in S |-> 0 - i]
<1>1. \A i \in S : key[i] = 0 - i
  OBVIOUS
<1> HIDE DEF key
<1>2. Numbers(S, key)
  BY <1>1 DEF Numbers
<1>3. PICK m \in S : \A j \in S : key[j] < key[m] \/ (key[j] = key[m] /\ j <= m)
  BY <1>2, GreatestIsThere
<1>4. \A j \in S : m <= j
  BY <1>1, <1>3
<1> QED BY <1>4 DEF Min

\* What a function makes of a finite set.
LEMMA ImageFinite == ASSUME NEW S, IsFiniteSet(S), NEW g PROVE IsFiniteSet({g[x] : x \in S})
<1> DEFINE T == {g[x] : x \in S}
           f == [x \in S |-> g[x]]
<1>1. f \in Surjection(S, T)
  BY DEF Surjection
<1> HIDE DEF T, f
<1>2. IsFiniteSet(T)
  BY <1>1, FS_Surjection
<1> QED BY <1>2 DEF T

\* f adds up g over the subsets of D, one element after the other.
One(s) == CHOOSE x \in s : TRUE
Adds(f, g, D) == f = [s \in D |-> IF s = {} THEN 0 ELSE g[One(s)] + f[s \ {One(s)}]]

\* What is added up, at one subset.
LEMMA AddsIs ==
    ASSUME NEW f, NEW g, NEW D, Adds(f, g, D), NEW s \in D
    PROVE  f[s] = IF s = {} THEN 0 ELSE g[One(s)] + f[s \ {One(s)}]
<1> DEFINE e(x) == IF x = {} THEN 0 ELSE g[One(x)] + f[x \ {One(x)}]
<1>1. f = [x \in D |-> e(x)]
  BY DEF Adds
<1> HIDE DEF e
<1>2. f[s] = e(s)
  BY <1>1
<1> QED BY <1>2 DEF e

\* A subset and one element less.
LEMMA OneLess ==
    ASSUME NEW S, IsFiniteSet(S), NEW s \in SUBSET S, s # {}
    PROVE  /\ One(s) \in s
           /\ \A x \in s : s \ {x} \in SUBSET S /\ Cardinality(s \ {x}) = Cardinality(s) - 1
           /\ Cardinality(s) \in Nat
<1>1. One(s) \in s
  BY DEF One
<1>2. IsFiniteSet(s)
  BY FS_Subset
<1>3. Cardinality(s) \in Nat
  BY <1>2, FS_CardinalityType
<1>4. ASSUME NEW x \in s PROVE Cardinality(s \ {x}) = Cardinality(s) - 1
  BY <1>2, FS_RemoveElement
<1> QED BY <1>1, <1>3, <1>4

\* The subsets with at most k elements.
Upto(S, k) == {s \in SUBSET S : Cardinality(s) <= k}

\* There is such a sum.
LEMMA SumIsThere ==
    ASSUME NEW S, IsFiniteSet(S), NEW g
    PROVE  \E f : Adds(f, g, SUBSET S)
<1> DEFINE Bad == {k \in Nat : ~\E f : Adds(f, g, Upto(S, k))}
<1>1. SUFFICES Bad = {}
  <2>1. Cardinality(S) \in Nat
    BY FS_CardinalityType
  <2>2. \A s \in SUBSET S : Cardinality(s) <= Cardinality(S)
    BY FS_Subset
  <2>3. Upto(S, Cardinality(S)) = SUBSET S
    BY <2>2 DEF Upto
  <2>4. \E f : Adds(f, g, Upto(S, Cardinality(S)))
    BY <1>1, <2>1
  <2> QED BY <2>3, <2>4
<1> SUFFICES ASSUME Bad # {} PROVE FALSE
  OBVIOUS
<1>2. PICK k \in Bad : \A j \in Bad : k <= j
  BY NaturalsHaveLeast
<1>3. k \in Nat /\ ~\E f : Adds(f, g, Upto(S, k))
  OBVIOUS
<1> DEFINE U == Upto(S, k)
<1>4. CASE k = 0
  <2> DEFINE f == [s \in U |-> 0]
  <2>1. ASSUME NEW s \in U PROVE s = {}
    <3>1. s \in SUBSET S /\ Cardinality(s) <= 0
      BY <1>4 DEF Upto
    <3>2. s # {} => Cardinality(s) \in Nat /\ One(s) \in s /\ Cardinality(s \ {One(s)}) = Cardinality(s) - 1
      BY <3>1, OneLess
    <3>3. IsFiniteSet(s \ {One(s)}) /\ IsFiniteSet(s)
      BY <3>1, FS_Subset
    <3>4. Cardinality(s \ {One(s)}) \in Nat
      BY <3>3, FS_CardinalityType
    <3> QED BY <3>1, <3>2, <3>4
  <2>2. f = [s \in U |-> IF s = {} THEN 0 ELSE g[One(s)] + f[s \ {One(s)}]]
    BY <2>1
  <2> HIDE DEF f
  <2>3. Adds(f, g, U)
    BY <2>2 DEF Adds
  <2> QED BY <1>3, <2>3
<1>5. CASE k # 0
  <2> DEFINE V == Upto(S, k - 1)
  <2>1. k - 1 \in Nat /\ k - 1 \notin Bad
    BY <1>2, <1>3, <1>5
  <2>2. PICK f : Adds(f, g, V)
    BY <2>1
  <2>3. V \subseteq U
    <3>1. ASSUME NEW s \in SUBSET S, Cardinality(s) <= k - 1 PROVE Cardinality(s) <= k
      <4>1. IsFiniteSet(s)
        BY FS_Subset
      <4>2. Cardinality(s) \in Nat
        BY <4>1, FS_CardinalityType
      <4> QED BY <1>3, <3>1, <4>2
    <3> QED BY <3>1 DEF Upto
  <2>4. ASSUME NEW s \in U, s # {} PROVE s \ {One(s)} \in V
    <3>1. s \in SUBSET S /\ Cardinality(s) <= k
      BY DEF Upto
    <3>2. s \ {One(s)} \in SUBSET S /\ Cardinality(s \ {One(s)}) = Cardinality(s) - 1 /\ Cardinality(s) \in Nat
      BY <2>4, <3>1, OneLess
    <3>3. Cardinality(s \ {One(s)}) <= k - 1
      BY <1>3, <3>1, <3>2
    <3> QED BY <3>2, <3>3 DEF Upto
  <2> HIDE DEF V, U
  <2> DEFINE h == [s \in U |-> IF s = {} THEN 0 ELSE g[One(s)] + f[s \ {One(s)}]]
             e(s) == IF s = {} THEN 0 ELSE g[One(s)] + h[s \ {One(s)}]
  <2>5. ASSUME NEW s \in V PROVE h[s] = f[s]
    BY <2>2, <2>3, <2>5, AddsIs
  <2>6. ASSUME NEW s \in U PROVE h[s] = e(s)
    BY <2>4, <2>5
  <2>7. DOMAIN h = U /\ h = [s \in DOMAIN h |-> h[s]]
    OBVIOUS
  <2> HIDE DEF h, e
  <2>8. h = [s \in U |-> e(s)]
    BY <2>6, <2>7
  <2>9. Adds(h, g, U)
    BY <2>8 DEF Adds, e
  <2> QED BY <1>3, <2>9 DEF U
<1> QED BY <1>4, <1>5

\* Whatever is taken away last.
SumRight(f, g, s) == f[s] \in Int /\ \A x \in s : f[s] = g[x] + f[s \ {x}]

\* The sum is there, and no order matters.
LEMMA SumAdds ==
    ASSUME NEW S, IsFiniteSet(S), NEW g, \A x \in S : g[x] \in Int, NEW f, Adds(f, g, SUBSET S)
    PROVE  f[{}] = 0 /\ \A s \in SUBSET S : SumRight(f, g, s)
<1> DEFINE Bad == {k \in Nat : \E s \in SUBSET S : Cardinality(s) = k /\ ~SumRight(f, g, s)}
<1>1. f[{}] = 0
  <2>1. {} \in SUBSET S
    OBVIOUS
  <2> QED BY <2>1, AddsIs
<1>2. ASSUME NEW s \in SUBSET S, Cardinality(s) \notin Bad PROVE SumRight(f, g, s)
  <2>1. IsFiniteSet(s)
    BY FS_Subset
  <2>2. Cardinality(s) \in Nat
    BY <2>1, FS_CardinalityType
  <2> QED BY <1>2, <2>2
<1>3. Bad \subseteq Nat /\ \A k \in Bad : \E s \in SUBSET S : Cardinality(s) = k /\ ~SumRight(f, g, s)
  OBVIOUS
<1> HIDE DEF Bad
<1>4. SUFFICES Bad = {}
  BY <1>1, <1>2
<1> SUFFICES ASSUME Bad # {} PROVE FALSE
  OBVIOUS
<1>5. PICK k \in Bad : \A j \in Bad : k <= j
  BY <1>3, NaturalsHaveLeast
<1>6. PICK s \in SUBSET S : Cardinality(s) = k /\ ~SumRight(f, g, s)
  BY <1>3
<1>7. ASSUME NEW z \in SUBSET S, NEW i \in Nat \ {0}, Cardinality(z) = k - i PROVE SumRight(f, g, z)
  <2>1. k \in Nat
    BY <1>3
  <2>2. ~(k <= k - i)
    BY <2>1
  <2> QED BY <1>2, <1>5, <1>7, <2>2
<1>8. s # {}
  <2>1. SumRight(f, g, {})
    BY <1>1 DEF SumRight
  <2> QED BY <1>6, <2>1
<1> DEFINE y == One(s)
<1>9. y \in s /\ \A x \in s : s \ {x} \in SUBSET S /\ Cardinality(s \ {x}) = k - 1
  BY <1>6, <1>8, OneLess
<1>10. f[s] = g[y] + f[s \ {y}]
  <2>1. f[s] = IF s = {} THEN 0 ELSE g[One(s)] + f[s \ {One(s)}]
    BY AddsIs
  <2> QED BY <1>8, <2>1
<1> HIDE DEF y
<1>11. ASSUME NEW x \in s PROVE SumRight(f, g, s \ {x})
  BY <1>7, <1>9
<1>12. \A x \in s : g[x] \in Int
  OBVIOUS
<1>13. ASSUME NEW x \in s, x # y PROVE f[s] = g[x] + f[s \ {x}]
  <2> DEFINE t == (s \ {y}) \ {x}
             u == s \ {x}
             v == s \ {y}
             a == f[t]
             gx == g[x]
             gy == g[y]
             fs == f[s]
  <2>1. t = u \ {y} /\ x \in v /\ y \in u /\ t = v \ {x} /\ v \in SUBSET S
    BY <1>9, <1>13
  <2>2. SumRight(f, g, u) /\ SumRight(f, g, v)
    BY <1>9, <1>11
  <2>3. Cardinality(v) = k - 1
    BY <1>9
  <2>4. fs = gy + f[v]
    BY <1>10
  <2>5. gx \in Int /\ gy \in Int
    BY <1>9, <1>12
  <2> HIDE DEF t, u, v, gx, gy, fs
  <2>6. t \in SUBSET S /\ Cardinality(t) = k - 2
    <3>1. IsFiniteSet(v)
      BY <2>1, FS_Subset
    <3>2. Cardinality(t) = Cardinality(v) - 1
      BY <2>1, <3>1, FS_RemoveElement
    <3>3. k \in Nat
      BY <1>3
    <3> QED BY <2>1, <2>3, <3>2, <3>3
  <2>7. SumRight(f, g, t)
    BY <1>7, <2>6
  <2>8. f[v] = gx + a /\ f[u] = gy + a /\ a \in Int
    <3>1. f[v] = g[x] + f[v \ {x}] /\ f[u] = g[y] + f[u \ {y}] /\ f[t] \in Int
      BY <2>1, <2>2, <2>7 DEF SumRight
    <3> QED BY <2>1, <3>1 DEF gx, gy
  <2> HIDE DEF a
  <2>9. fs = gx + f[u]
    BY <2>4, <2>5, <2>8
  <2> QED BY <2>9 DEF fs, gx, u
<1>14. \A x \in s : f[s] = g[x] + f[s \ {x}]
  BY <1>10, <1>13
<1>15. f[s] \in Int
  <2>1. g[y] \in Int /\ SumRight(f, g, s \ {y})
    BY <1>9, <1>11, <1>12
  <2>2. f[s \ {y}] \in Int
    BY <2>1 DEF SumRight
  <2> QED BY <1>10, <2>1, <2>2
<1> QED BY <1>6, <1>14, <1>15 DEF SumRight

\* Differences of neighbours add up to the difference of the ends.
LEMMA Telescopes ==
    ASSUME NEW N \in Nat \ {0}, NEW h, \A k \in 1 .. N : h[k] \in Int,
           NEW g, \A k \in 2 .. N : g[k] = h[k - 1] - h[k], NEW f, Adds(f, g, SUBSET (2 .. N))
    PROVE  f[2 .. N] = h[1] - h[N]
<1> DEFINE Bad == {k \in 1 .. N : f[2 .. k] # h[1] - h[k]}
<1>1. IsFiniteSet(2 .. N)
  BY FS_Interval
<1>2. \A k \in 2 .. N : g[k] \in Int
  <2> TAKE k \in 2 .. N
  <2>1. k - 1 \in 1 .. N /\ k \in 1 .. N
    OBVIOUS
  <2>2. h[k - 1] \in Int /\ h[k] \in Int
    BY <2>1
  <2> QED BY <2>2
<1> DEFINE S == 2 .. N
<1>3. IsFiniteSet(S) /\ (\A x \in S : g[x] \in Int) /\ Adds(f, g, SUBSET S)
  BY <1>1, <1>2
<1> HIDE DEF S
<1>4. f[{}] = 0 /\ \A s \in SUBSET S : SumRight(f, g, s)
  BY <1>3, SumAdds
<1>5. Bad \subseteq Nat /\ Bad \subseteq 1 .. N /\ \A k \in 1 .. N : k \in Bad <=> f[2 .. k] # h[1] - h[k]
  OBVIOUS
<1> HIDE DEF Bad
<1>6. SUFFICES Bad = {}
  <2>1. N \in 1 .. N
    OBVIOUS
  <2> QED BY <1>5, <1>6, <2>1
<1> SUFFICES ASSUME Bad # {} PROVE FALSE
  OBVIOUS
<1>7. PICK k \in Bad : \A j \in Bad : k <= j
  BY <1>5, NaturalsHaveLeast
<1>8. k \in 1 .. N /\ k \in Nat /\ f[2 .. k] # h[1] - h[k]
  BY <1>5
<1>9. k # 1
  <2>1. 2 .. 1 = {} /\ h[1] \in Int
    OBVIOUS
  <2>2. h[1] - h[1] = 0
    BY <2>1
  <2> QED BY <1>4, <1>8, <2>1, <2>2
<1>10. k - 1 \in 1 .. N /\ k \in 2 .. N /\ k - 1 \notin Bad
  BY <1>7, <1>8, <1>9
<1>11. f[2 .. k - 1] = h[1] - h[k - 1]
  BY <1>5, <1>10
<1>12. f[2 .. k] = g[k] + f[2 .. k - 1]
  <2>1. (2 .. k) \ {k} = 2 .. k - 1 /\ k \in 2 .. k /\ 2 .. k \in SUBSET S
    BY <1>10 DEF S
  <2>2. SumRight(f, g, 2 .. k)
    BY <1>4, <2>1
  <2> QED BY <2>1, <2>2 DEF SumRight
<1>13. h[1] \in Int /\ h[k] \in Int /\ h[k - 1] \in Int /\ g[k] = h[k - 1] - h[k]
  BY <1>8, <1>10
<1> QED BY <1>8, <1>11, <1>12, <1>13

\* In a cycle every segment but the first is a fall.
LEMMA AllAreFalls == ASSUME NEW c, CycleRight(c) PROVE Transitions(c) = 2 .. Len(c.segs)
<1> DEFINE segs == c.segs
<1>1. Falling(segs) /\ segs \in Seq(SegmentRows) /\ Len(segs) \in Nat
  BY DEF CycleRight, Falling
<1> HIDE DEF segs
<1>2. ASSUME NEW j \in 2 .. Len(segs) PROVE segs[j - 1].pct > segs[j].pct
  <2>1. j - 1 \in 1 .. Len(segs) /\ j \in 1 .. Len(segs) /\ j - 1 < j
    BY <1>1
  <2>2. segs[j].pct < segs[j - 1].pct
    BY <1>1, <2>1 DEF Falling
  <2>3. segs[j] \in SegmentRows /\ segs[j - 1] \in SegmentRows
    BY <1>1, <2>1
  <2>4. segs[j].pct \in Int /\ segs[j - 1].pct \in Int
    BY <2>3 DEF SegmentRows
  <2> QED BY <2>2, <2>4
<1>3. {j \in 2 .. Len(segs) : segs[j - 1].pct > segs[j].pct} = 2 .. Len(segs)
  BY <1>2
<1> QED BY <1>3 DEF Transitions, segs

\* The falls make up what the percentage lost.
LEMMA FallsMakeUp ==
    ASSUME NEW c, CycleRight(c)
    PROVE  MapThenSumSet(LAMBDA j : Points(c, j), Transitions(c)) = c.segs[1].pct - Last(c.segs).pct
<1> DEFINE segs == c.segs
           N == Len(segs)
           D == SUBSET (2 .. N)
           h == [k \in 1 .. N |-> segs[k].pct]
           g == [k \in 2 .. N |-> Points(c, k)]
           e(f, s) == IF s = {} THEN 0 ELSE Points(c, One(s)) + f[s \ {One(s)}]
           w == CHOOSE f : f = [s \in D |-> e(f, s)]
<1>1. N \in Nat \ {0} /\ \A k \in 1 .. N : segs[k] \in SegmentRows
  BY DEF CycleRight, Falling
<1>2. \A k \in 1 .. N : h[k] = segs[k].pct /\ h[k] \in Int
  BY <1>1 DEF SegmentRows
<1>3. \A k \in 2 .. N : g[k] = Points(c, k)
  OBVIOUS
<1>4. MapThenSumSet(LAMBDA j : Points(c, j), Transitions(c)) = w[2 .. N]
  BY AllAreFalls DEF MapThenSumSet, MapThenFoldSet, One
<1> HIDE DEF h, g, w
<1>5. ASSUME NEW s \in D, s # {} PROVE g[One(s)] = Points(c, One(s))
  BY <1>3, <1>5 DEF One
<1>6. ASSUME NEW f PROVE Adds(f, g, D) <=> f = [s \in D |-> e(f, s)]
  <2> DEFINE d(s) == IF s = {} THEN 0 ELSE g[One(s)] + f[s \ {One(s)}]
  <2>1. \A s \in D : d(s) = e(f, s)
    BY <1>5
  <2> HIDE DEF d, e, D
  <2>2. [s \in D |-> d(s)] = [s \in D |-> e(f, s)]
    BY <2>1
  <2> QED BY <2>2 DEF Adds, d
<1>7. \E f : Adds(f, g, D)
  <2>1. IsFiniteSet(2 .. N)
    BY <1>1, FS_Interval
  <2> QED BY <2>1, SumIsThere
<1>8. Adds(w, g, D)
  <2> HIDE DEF D, e
  <2>1. w = [s \in D |-> e(w, s)]
    BY <1>6, <1>7 DEF w
  <2> QED BY <1>6, <2>1
<1>9. \A k \in 2 .. N : g[k] = h[k - 1] - h[k]
  <2> TAKE k \in 2 .. N
  <2>1. k - 1 \in 1 .. N /\ k \in 1 .. N
    BY <1>1
  <2> QED BY <1>2, <1>3, <2>1 DEF Points
<1> HIDE DEF N
<1>10. w[2 .. N] = h[1] - h[N]
  BY <1>1, <1>2, <1>8, <1>9, Telescopes
<1>11. h[1] = segs[1].pct /\ h[N] = Last(segs).pct
  BY <1>1, <1>2 DEF Last, N
<1> QED BY <1>4, <1>10, <1>11

\* The fall an event is counted in is the one during which it was observed.
LEMMA FallOfEvent ==
    ASSUME NEW c, CycleRight(c), NEW t \in Int
    PROVE  TransitionOf(t, c) = {j \in Transitions(c) : c.segs[j - 1].first < t /\ t <= c.segs[j].first}
<1> DEFINE segs == c.segs
           N == Len(segs)
           S == 2 .. N
           ahead == {j \in S : t <= segs[j].first}
           in == {j \in S : segs[j - 1].first < t /\ t <= segs[j].first}
<1>1. /\ N \in Nat \ {0} /\ \A k \in 1 .. N : segs[k].first \in Int /\ segs[k].last \in Int
      /\ \A i \in 1 .. N : segs[i].first <= segs[i].last
      /\ \A i, j \in 1 .. N : i < j => segs[i].last < segs[j].first
  <2>1. N \in Nat \ {0} /\ \A k \in 1 .. N : segs[k] \in SegmentRows
    BY DEF CycleRight, Falling
  <2>2. \A k \in 1 .. N : segs[k].first \in Int /\ segs[k].last \in Int
    BY <2>1 DEF SegmentRows
  <2> QED BY <2>1, <2>2 DEF CycleRight, Falling
<1>2. \A i, j \in 1 .. N : i < j => segs[i].first < segs[j].first
  BY <1>1
<1>3. Transitions(c) = S
  BY AllAreFalls
<1>4. ahead \in SUBSET Int /\ IsFiniteSet(ahead)
  <2>1. IsFiniteSet(S) /\ ahead \in SUBSET S
    BY <1>1, FS_Interval
  <2> HIDE DEF S, ahead
  <2>2. IsFiniteSet(ahead)
    BY <2>1, FS_Subset
  <2> QED BY <2>1, <2>2 DEF S
<1>5. TransitionOf(t, c) = IF ahead = {} \/ t <= segs[Min(ahead) - 1].first THEN {} ELSE {Min(ahead)}
  BY <1>3 DEF TransitionOf
<1> DEFINE m == Min(ahead)
<1>6. ahead # {} => m \in ahead /\ \A x \in ahead : m <= x
  BY <1>4, IntegersHaveLeast
<1>7. \A j : j \in ahead <=> j \in S /\ t <= segs[j].first
  OBVIOUS
<1>8. \A j : j \in in <=> j \in S /\ segs[j - 1].first < t /\ t <= segs[j].first
  OBVIOUS
<1> HIDE DEF m, ahead, in
<1>9. ASSUME NEW j \in in PROVE ahead # {} /\ j = m
  <2>1. j \in S /\ segs[j - 1].first < t /\ t <= segs[j].first /\ j \in ahead
    BY <1>7, <1>8
  <2>2. m \in ahead /\ m <= j
    BY <1>6, <2>1
  <2>3. m \in S /\ t <= segs[m].first
    BY <1>7, <2>2
  <2>4. ~(m < j)
    <3> SUFFICES ASSUME m < j PROVE FALSE
      OBVIOUS
    <3>1. m \in 1 .. N /\ j - 1 \in 1 .. N /\ (m < j - 1 \/ m = j - 1)
      BY <2>1, <2>3
    <3>2. segs[m].first <= segs[j - 1].first
      BY <1>1, <1>2, <3>1
    <3>3. segs[m].first \in Int /\ segs[j - 1].first \in Int
      BY <1>1, <3>1
    <3> QED BY <2>1, <2>3, <3>2, <3>3
  <2>5. j \in Int /\ m \in Int
    BY <2>1, <2>3
  <2> QED BY <2>1, <2>2, <2>4, <2>5
<1>10. CASE ahead = {}
  <2>1. in = {}
    BY <1>9, <1>10
  <2> QED BY <1>3, <1>5, <1>10, <2>1 DEF in
<1>11. CASE ahead # {} /\ t <= segs[m - 1].first
  <2>1. \A j \in in : j = m /\ segs[m - 1].first < t
    BY <1>8, <1>9
  <2>2. m - 1 \in 1 .. N
    BY <1>6, <1>7, <1>11
  <2>3. in = {}
    BY <1>1, <1>11, <2>1, <2>2
  <2> QED BY <1>3, <1>5, <1>11, <2>3 DEF in, m
<1>12. CASE ahead # {} /\ ~(t <= segs[m - 1].first)
  <2>1. m \in S /\ t <= segs[m].first /\ m - 1 \in 1 .. N
    BY <1>6, <1>7, <1>12
  <2>2. m \in in
    <3>1. segs[m - 1].first \in Int
      BY <1>1, <2>1
    <3>2. segs[m - 1].first < t
      BY <1>12, <3>1
    <3> QED BY <1>8, <2>1, <3>2
  <2>3. in = {m}
    BY <1>9, <2>2
  <2> QED BY <1>3, <1>5, <1>12, <2>3 DEF in, m
<1> QED BY <1>10, <1>11, <1>12

-----------------------------------------------------------------------------
(* Periods: one ends where the next one that was seen later begins.           *)

\* Cycles of one window, told apart by their number.
Ranked(found) ==
    /\ IsFiniteSet(found)
    /\ \A a \in found : a.id \in Int /\ a.at.last \in Int /\ a.at.reset \in Int /\ StartOf(a.at) \in Int
    /\ \A a, b \in found : a.id = b.id => a = b

\* Of two cycles one was seen later.
LEMMA LaterOrders ==
    ASSUME NEW found, Ranked(found)
    PROVE  /\ \A a \in found : ~SeenLater(a, a)
           /\ \A a, b \in found : a # b => SeenLater(a, b) \/ SeenLater(b, a)
           /\ \A a, b, c \in found : SeenLater(a, b) /\ SeenLater(b, c) => SeenLater(a, c)
<1>1. \A a \in found : ~SeenLater(a, a)
  BY DEF Ranked, SeenLater
<1>2. \A a, b \in found : a # b => SeenLater(a, b) \/ SeenLater(b, a)
  BY DEF Ranked, SeenLater
<1>3. \A a, b, c \in found : SeenLater(a, b) /\ SeenLater(b, c) => SeenLater(a, c)
  BY DEF Ranked, SeenLater
<1> QED BY <1>1, <1>2, <1>3

\* One was seen last.
LEMMA LatestSeenIs ==
    ASSUME NEW found, Ranked(found), found # {}
    PROVE  LatestSeen(found) \in found /\ \A b \in found : ~SeenLater(b, LatestSeen(found))
<1> DEFINE R == {p \in found \X found : SeenLater(p[2], p[1])}
<1>1. \A a, b \in found : <<a, b>> \in R <=> SeenLater(b, a)
  OBVIOUS
<1> HIDE DEF R
<1>2. /\ \A a \in found : <<a, a>> \notin R
      /\ \A a, b \in found : a # b => <<a, b>> \in R \/ <<b, a>> \in R
      /\ \A a, b, c \in found : <<a, b>> \in R /\ <<b, c>> \in R => <<a, c>> \in R
  BY <1>1, LaterOrders
<1>3. IsFiniteSet(found)
  BY DEF Ranked
<1>4. PICK m \in found : \A a \in found : a = m \/ <<a, m>> \in R
  BY <1>2, <1>3, LastIsThere
<1>5. \A b \in found \ {m} : SeenLater(m, b)
  BY <1>1, <1>4
<1> DEFINE L == LatestSeen(found)
<1>6. L \in found /\ \A b \in found \ {L} : SeenLater(L, b)
  BY <1>5 DEF LatestSeen
<1> HIDE DEF L
<1>7. ASSUME NEW b \in found, SeenLater(b, L) PROVE FALSE
  <2>1. b # L
    BY <1>6, <1>7, LaterOrders
  <2>2. SeenLater(L, b)
    BY <1>6, <2>1
  <2> QED BY <1>6, <1>7, <2>2, LaterOrders
<1> QED BY <1>6, <1>7 DEF L

\* Where a period ends (buildCodexQuotaEfficiencyCyclePeriods).
LEMMA PeriodEnds ==
    ASSUME NEW found, Ranked(found), NEW a \in found
    PROVE  /\ PeriodEnd(found, a) \in Int /\ PeriodEnd(found, a) <= a.at.reset
           /\ \A b \in found : SeenLater(b, a) => PeriodEnd(found, a) <= StartOf(b.at)
           /\ \/ PeriodEnd(found, a) = a.at.reset
              \/ \E b \in found : SeenLater(b, a) /\ PeriodEnd(found, a) = StartOf(b.at)
<1> DEFINE X == {b \in found : SeenLater(b, a)}
           g == [b \in X |-> StartOf(b.at)]
           T == {g[b] : b \in X}
           S == {a.at.reset} \cup T
           e == PeriodEnd(found, a)
<1>1. X \in SUBSET found /\ IsFiniteSet(found)
  BY DEF Ranked
<1>2. \A b \in X : g[b] = StartOf(b.at) /\ g[b] \in Int
  BY DEF Ranked
<1>3. a.at.reset \in Int
  BY DEF Ranked
<1>4. {StartOf(b.at) : b \in X} = T
  OBVIOUS
<1>5. e = Min({a.at.reset} \cup {StartOf(b.at) : b \in X})
  BY DEF PeriodEnd
<1>6. e = Min(S)
  BY <1>4, <1>5
<1>7. \A b : b \in X <=> b \in found /\ SeenLater(b, a)
  OBVIOUS
<1> HIDE DEF X, g, e
<1>8. IsFiniteSet(X)
  BY <1>1, FS_Subset
<1>9. IsFiniteSet(T)
  BY <1>8, ImageFinite
<1>10. T \in SUBSET Int /\ (\A b \in X : g[b] \in T) /\ \A x \in T : \E b \in X : x = g[b]
  BY <1>2
<1> HIDE DEF T
<1>11. S = T \cup {a.at.reset}
  OBVIOUS
<1>12. IsFiniteSet(S)
  BY <1>9, <1>11, FS_AddElement
<1>13. S \in SUBSET Int /\ S # {}
  BY <1>3, <1>10
<1>14. e \in S /\ \A x \in S : e <= x
  <2> HIDE DEF S
  <2> QED BY <1>6, <1>12, <1>13, IntegersHaveLeast
<1>15. e \in Int /\ e <= a.at.reset
  BY <1>13, <1>14
<1>16. ASSUME NEW b \in found, SeenLater(b, a) PROVE e <= StartOf(b.at)
  BY <1>2, <1>7, <1>10, <1>14, <1>16
<1>17. e = a.at.reset \/ \E b \in found : SeenLater(b, a) /\ e = StartOf(b.at)
  <2>1. e = a.at.reset \/ e \in T
    BY <1>14
  <2>2. e \in T => \E b \in X : e = StartOf(b.at)
    BY <1>2, <1>10
  <2> QED BY <1>7, <2>1, <2>2
<1> QED BY <1>15, <1>16, <1>17 DEF e

\* Of two cycles the one that was seen first ends where the other one begins.
LEMMA PeriodsApart ==
    ASSUME NEW found, Ranked(found), NEW a \in found, NEW b \in found, a # b
    PROVE  PeriodEnd(found, a) <= StartOf(b.at) \/ PeriodEnd(found, b) <= StartOf(a.at)
BY LaterOrders, PeriodEnds

\* All begin before now.
Begun(found, now) == now \in Int /\ \A a \in found : StartOf(a.at) < now

\* What is counted for a cycle begins with it, and does not outlast its period.
WorkOf(found, w) ==
    /\ w.cycle \in found /\ w.start = StartOf(w.cycle.at) /\ w.start \in Int /\ w.end \in Int
    /\ w.start < w.end /\ w.end <= PeriodEnd(found, w.cycle)

\* What is counted is the periods of the cycles that are listed.
LEMMA WorksFit ==
    ASSUME NEW found, Ranked(found), NEW now, Begun(found, now)
    PROVE  /\ \A w \in Works(found, now) : WorkOf(found, w)
           /\ \A v, w \in Works(found, now) : v.cycle = w.cycle => v = w
           /\ IsFiniteSet(Works(found, now))
<1> DEFINE X == ListedCycles(found, now)
           h(a) == [cycle |-> a, start |-> StartOf(a.at), end |-> QueryEnd(found, a, now)]
           W == Works(found, now)
<1>1. X \in SUBSET found /\ \A a \in X : StartOf(a.at) < PeriodEnd(found, a)
  BY DEF ListedCycles
<1>2. W = {h(a) : a \in X}
  BY DEF Works
<1>3. ASSUME NEW a \in X PROVE WorkOf(found, h(a))
  <2>1. a \in found /\ StartOf(a.at) < PeriodEnd(found, a) /\ PeriodEnd(found, a) \in Int
    BY <1>1, PeriodEnds
  <2>2. StartOf(a.at) < now /\ now \in Int /\ StartOf(a.at) \in Int
    BY <2>1 DEF Begun, Ranked
  <2> DEFINE q == QueryEnd(found, a, now)
  <2>3. q \in Int /\ StartOf(a.at) < q /\ q <= PeriodEnd(found, a)
    <3>1. CASE IsCurrent(found, a, now)
      <4>1. q = now /\ now < PeriodEnd(found, a)
        BY <3>1 DEF QueryEnd, IsCurrent
      <4> QED BY <2>1, <2>2, <4>1
    <3>2. CASE ~IsCurrent(found, a, now)
      <4>1. q = PeriodEnd(found, a)
        BY <3>2 DEF QueryEnd
      <4> QED BY <2>1, <4>1
    <3> QED BY <3>1, <3>2
  <2> HIDE DEF q
  <2>4. h(a).cycle = a /\ h(a).start = StartOf(a.at) /\ h(a).end = q
    BY DEF q
  <2> HIDE DEF h
  <2> QED BY <2>1, <2>2, <2>3, <2>4 DEF WorkOf
<1>4. IsFiniteSet(X)
  BY <1>1, FS_Subset DEF Ranked
<1> DEFINE g == [a \in X |-> h(a)]
<1>5. {g[a] : a \in X} = W
  BY <1>2
<1>6. IsFiniteSet(W)
  <2> HIDE DEF g, X
  <2>1. IsFiniteSet({g[a] : a \in X})
    BY <1>4, ImageFinite
  <2> QED BY <1>5, <2>1
<1>7. \A a \in X : h(a).cycle = a
  OBVIOUS
<1> HIDE DEF X, h
<1>8. \A v, w \in W : v.cycle = w.cycle => v = w
  BY <1>2, <1>7
<1>9. \A w \in W : WorkOf(found, w)
  BY <1>2, <1>3
<1> QED BY <1>6, <1>8, <1>9 DEF W

\* Spans of time of which no two meet.
Spans(works) ==
    /\ IsFiniteSet(works)
    /\ \A w \in works : w.start \in Int /\ w.end \in Int /\ w.start < w.end
    /\ \A v, w \in works : v # w => v.end <= w.start \/ w.end <= v.start

\* So no two of them meet.
LEMMA WorksAreSpans ==
    ASSUME NEW found, Ranked(found), NEW now, Begun(found, now)
    PROVE  Spans(Works(found, now))
<1> DEFINE W == Works(found, now)
<1>1. /\ \A w \in W : WorkOf(found, w)
      /\ \A v, w \in W : v.cycle = w.cycle => v = w
      /\ IsFiniteSet(W)
  BY WorksFit
<1> HIDE DEF W
<1>2. ASSUME NEW v \in W, NEW w \in W, v # w PROVE v.end <= w.start \/ w.end <= v.start
  <2>1. WorkOf(found, v) /\ WorkOf(found, w) /\ v.cycle # w.cycle
    BY <1>1, <1>2
  <2>2. v.cycle \in found /\ w.cycle \in found
    BY <2>1 DEF WorkOf
  <2>3. \/ PeriodEnd(found, v.cycle) <= StartOf(w.cycle.at)
        \/ PeriodEnd(found, w.cycle) <= StartOf(v.cycle.at)
    BY <2>1, <2>2, PeriodsApart
  <2>4. PeriodEnd(found, v.cycle) \in Int /\ PeriodEnd(found, w.cycle) \in Int
    BY <2>2, PeriodEnds
  <2> QED BY <2>1, <2>3, <2>4 DEF WorkOf
<1>3. \A w \in W : w.start \in Int /\ w.end \in Int /\ w.start < w.end
  BY <1>1 DEF WorkOf
<1>4. Spans(W)
  BY <1>1, <1>2, <1>3 DEF Spans
<1> QED BY <1>4 DEF W

\* In spans that do not meet, the pass counts a time where it belongs.
LEMMA CountedOnce ==
    ASSUME NEW works, Spans(works), NEW t \in Int
    PROVE  /\ CountedIn(t, works) = {w \in works : w.start <= t /\ t < w.end}
           /\ Cardinality({w \in works : w.start <= t /\ t < w.end}) <= 1
<1> DEFINE in == {w \in works : w.start <= t /\ t < w.end}
           ahead == {w \in works : t < w.end}
           next == CHOOSE w \in ahead : \A v \in ahead \ {w} : WorkBefore(w, v)
           c == CountedIn(t, works)
<1>1. c = IF ahead = {} \/ t < next.start THEN {} ELSE {next}
  BY DEF CountedIn
<1>2. /\ \A w : w \in ahead <=> w \in works /\ t < w.end
      /\ \A w : w \in in <=> w \in works /\ w.start <= t /\ t < w.end
  OBVIOUS
<1>3. \A w \in works : w.start \in Int /\ w.end \in Int /\ w.start < w.end
  BY DEF Spans
<1>4. \A v, w \in works : v # w => v.start < w.start \/ w.start < v.start
  BY DEF Spans
<1>5. \A v, w \in works : v # w => (WorkBefore(v, w) <=> v.start < w.start)
  BY <1>3, <1>4 DEF WorkBefore
<1>6. ahead # {} => next \in ahead /\ \A v \in ahead \ {next} : next.start < v.start
  <2> SUFFICES ASSUME ahead # {} PROVE next \in ahead /\ \A v \in ahead \ {next} : next.start < v.start
    OBVIOUS
  <2> DEFINE R == {p \in ahead \X ahead : p[2].start < p[1].start}
  <2>1. IsFiniteSet(ahead)
    <3>1. IsFiniteSet(works) /\ ahead \in SUBSET works
      BY DEF Spans
    <3> HIDE DEF ahead
    <3> QED BY <3>1, FS_Subset
  <2>2. \A a, b \in ahead : <<a, b>> \in R <=> b.start < a.start
    OBVIOUS
  <2> HIDE DEF R, ahead
  <2>3. /\ \A a \in ahead : <<a, a>> \notin R
        /\ \A a, b \in ahead : a # b => <<a, b>> \in R \/ <<b, a>> \in R
        /\ \A a, b, d \in ahead : <<a, b>> \in R /\ <<b, d>> \in R => <<a, d>> \in R
    <3>1. \A a \in ahead : <<a, a>> \notin R
      BY <1>2, <1>3, <2>2
    <3>2. \A a, b \in ahead : a # b => <<a, b>> \in R \/ <<b, a>> \in R
      BY <1>2, <1>4, <2>2
    <3>3. \A a, b, d \in ahead : <<a, b>> \in R /\ <<b, d>> \in R => <<a, d>> \in R
      BY <1>2, <1>3, <2>2
    <3> QED BY <3>1, <3>2, <3>3
  <2>4. PICK m \in ahead : \A a \in ahead : a = m \/ <<a, m>> \in R
    BY <2>1, <2>3, LastIsThere
  <2>5. \A v \in ahead \ {m} : WorkBefore(m, v)
    BY <1>2, <1>5, <2>2, <2>4
  <2>6. next \in ahead /\ \A v \in ahead \ {next} : WorkBefore(next, v)
    BY <2>5
  <2> HIDE DEF next
  <2> QED BY <1>2, <1>5, <2>6
<1> HIDE DEF ahead, next, in
<1>7. ASSUME NEW w \in in PROVE ahead # {} /\ w = next
  <2>1. w \in works /\ w.start <= t /\ t < w.end /\ w \in ahead
    BY <1>2
  <2>2. next \in works /\ t < next.end /\ (w # next => next.start < w.start)
    BY <1>2, <1>6, <2>1
  <2>3. w # next => next.end <= w.start \/ w.end <= next.start
    BY <2>1, <2>2 DEF Spans
  <2>4. /\ w.start \in Int /\ w.end \in Int /\ next.start \in Int /\ next.end \in Int
        /\ w.start < w.end /\ next.start < next.end
    BY <1>3, <2>1, <2>2
  <2>5. w = next
    BY <2>1, <2>2, <2>3, <2>4
  <2> QED BY <2>1, <2>5
<1>8. c = in /\ (in = {} \/ in = {next})
  <2>1. CASE ahead = {} \/ t < next.start
    <3>1. in = {}
      <4> SUFFICES ASSUME NEW w \in in PROVE FALSE
        OBVIOUS
      <4>1. w = next /\ w.start <= t /\ w \in works
        BY <1>2, <1>7
      <4>2. t < w.start /\ w.start \in Int
        BY <1>3, <1>7, <2>1, <4>1
      <4> QED BY <4>1, <4>2
    <3> QED BY <1>1, <2>1, <3>1
  <2>2. CASE ~(ahead = {} \/ t < next.start)
    <3>1. next \in works /\ t < next.end /\ next.start \in Int
      BY <1>2, <1>3, <1>6, <2>2
    <3>2. next.start <= t
      BY <2>2, <3>1
    <3>3. in = {next}
      BY <1>2, <1>7, <3>1, <3>2
    <3> QED BY <1>1, <2>2, <3>3
  <2> QED BY <2>1, <2>2
<1>9. Cardinality(in) <= 1
  <2>1. Cardinality({}) = 0 /\ Cardinality({next}) = 1
    BY FS_EmptySet, FS_Singleton
  <2> QED BY <1>8, <2>1
<1> QED BY <1>8, <1>9 DEF in, c

\* A cycle that was seen later is not reset earlier.
Advancing(found) == \A a, b \in found : SeenLater(b, a) => a.at.reset <= b.at.reset

\* Then no time of the range that is in a stored cycle is in none that is shown.
LEMMA NothingBetween ==
    ASSUME NEW found, Ranked(found), NEW now, Begun(found, now), Advancing(found),
           NEW a \in found, NEW t \in Int, StartOf(a.at) <= t, t < a.at.reset,
           now - HistoryRange <= t, t < now
    PROVE  \E w \in Works(found, now) : w.start <= t /\ t < w.end
<1> DEFINE X == {x \in found : StartOf(x.at) <= t}
           b == LatestSeen(X)
           e == PeriodEnd(found, b)
           q == QueryEnd(found, b, now)
           s == StartOf(b.at)
<1>1. a \in X /\ X \in SUBSET found /\ \A x : x \in X <=> x \in found /\ StartOf(x.at) <= t
  OBVIOUS
<1> HIDE DEF X
<1>2. Ranked(X)
  <2>1. IsFiniteSet(X)
    BY <1>1, FS_Subset DEF Ranked
  <2> QED BY <1>1, <2>1 DEF Ranked
<1>3. b \in X /\ \A x \in X : ~SeenLater(x, b)
  BY <1>1, <1>2, LatestSeenIs
<1> HIDE DEF b
<1>4. b \in found /\ s <= t /\ s \in Int /\ s < now /\ now \in Int /\ HistoryRange \in Int
  BY <1>1, <1>3, EfficiencyAssumption DEF Ranked, Begun, EfficiencyAssumption
<1>5. t < b.at.reset
  <2>1. a.at.reset \in Int /\ b.at.reset \in Int
    BY <1>4 DEF Ranked
  <2>2. a = b \/ SeenLater(b, a)
    BY <1>1, <1>3, <1>4, LaterOrders
  <2>3. a.at.reset <= b.at.reset
    BY <1>4, <2>1, <2>2 DEF Advancing
  <2> QED BY <2>1, <2>3
<1>6. e \in Int /\ t < e
  <2>1. /\ e \in Int
        /\ e = b.at.reset \/ \E x \in found : SeenLater(x, b) /\ e = StartOf(x.at)
    BY <1>4, PeriodEnds
  <2> HIDE DEF e
  <2>2. ASSUME NEW x \in found, SeenLater(x, b), e = StartOf(x.at) PROVE t < e
    <3>1. ~(StartOf(x.at) <= t)
      BY <1>1, <1>3, <2>2
    <3> QED BY <2>1, <2>2, <3>1
  <2> QED BY <1>5, <2>1, <2>2
<1>7. IsCurrent(found, b, now) \/ e <= now
  <2> SUFFICES ASSUME ~(e <= now) PROVE IsCurrent(found, b, now)
    OBVIOUS
  <2> DEFINE L == LatestSeen(found)
  <2>1. L \in found /\ ~SeenLater(b, L)
    BY <1>4, LatestSeenIs
  <2> HIDE DEF L
  <2>2. b = L
    <3> SUFFICES ASSUME b # L PROVE FALSE
      OBVIOUS
    <3>1. SeenLater(L, b)
      BY <1>4, <2>1, LaterOrders
    <3>2. e <= StartOf(L.at) /\ StartOf(L.at) < now /\ StartOf(L.at) \in Int
      BY <1>4, <2>1, <3>1, PeriodEnds DEF Begun, Ranked
    <3> HIDE DEF e
    <3> QED BY <1>4, <1>6, <3>2
  <2>3. s <= now /\ now < e
    <3> HIDE DEF s, e
    <3> QED BY <1>4, <1>6
  <2> QED BY <2>2, <2>3 DEF IsCurrent, L
<1>8. b \in ListedCycles(found, now)
  <2>1. s < e /\ e >= now - HistoryRange
    <3> HIDE DEF s, e
    <3>1. now - HistoryRange \in Int
      BY <1>4
    <3> QED BY <1>4, <1>6, <3>1
  <2> QED BY <1>4, <1>7, <2>1 DEF ListedCycles
<1>9. t < q
  <2>1. q = now \/ q = e
    BY DEF QueryEnd
  <2> HIDE DEF q, e
  <2> QED BY <1>6, <2>1
<1> DEFINE w == [cycle |-> b, start |-> s, end |-> q]
<1>10. w \in Works(found, now)
  BY <1>8 DEF Works
<1>11. w.start = s /\ w.end = q
  OBVIOUS
<1> QED BY <1>4, <1>9, <1>10, <1>11

\* One window is shown, or none.
OneWindow(window) == window = {} \/ \E r \in Roles : window = {r}

\* The one that is asked for, or the first one (selectCodexQuotaEfficiencyWindow).
LEMMA WindowIsOne == ASSUME NEW all, NEW asked, NEW now PROVE OneWindow(SelectedWindow(all, asked, now))
<1> DEFINE shown == EfficiencyWindows(all)
           window == SelectedWindow(all, asked, now)
           running == {r \in shown : HasCurrentCycle(all, r, now)}
<1>1. shown \in SUBSET Roles /\ running \in SUBSET Roles
  BY DEF EfficiencyWindows
<1>2. ASSUME NEW S \in SUBSET Roles, S # {} PROVE PrimaryFirst(S) \in Roles
  <2>1. PrimaryFirst(S) \in S
    BY <1>2 DEF PrimaryFirst
  <2> QED BY <2>1
<1>3. \/ window = shown \cap {asked}
      \/ running # {} /\ window = {PrimaryFirst(running)}
      \/ shown # {} /\ window = {PrimaryFirst(shown)}
      \/ window = {}
  BY DEF SelectedWindow
<1> HIDE DEF shown, running, window
<1>4. OneWindow(window)
  BY <1>1, <1>2, <1>3 DEF OneWindow
<1> QED BY <1>4 DEF window

\* A cycle that is found is stored.
LEMMA FoundIsStored ==
    ASSUME NEW now, NEW a \in EfficiencyCycles(now)
    PROVE  /\ a.role \in Roles /\ a.id \in DOMAIN cycles[a.role] /\ a.at = cycles[a.role][a.id]
           /\ StartOf(a.at) < now /\ a = [role |-> a.role, id |-> a.id, at |-> a.at]
BY DEF EfficiencyCycles

\* The cycles of the window that is shown.
LEMMA FoundRanked ==
    ASSUME HistoryInv, NEW now \in Int, NEW window, OneWindow(window),
           NEW found, found = {a \in EfficiencyCycles(now) : a.role \in window}
    PROVE  Ranked(found) /\ Begun(found, now) /\ \A a \in found : CycleRight(a.at)
<1>1. \A r \in Roles : CyclesRight(cycles[r])
  BY DEF HistoryInv, WindowRight
<1>2. ASSUME NEW a \in found
      PROVE  /\ a.role \in Roles /\ a.role \in window /\ a.id \in 1 .. Len(cycles[a.role])
             /\ a.at = cycles[a.role][a.id] /\ StartOf(a.at) < now
             /\ a = [role |-> a.role, id |-> a.id, at |-> a.at]
             /\ CycleRight(a.at)
  <2>1. a \in EfficiencyCycles(now) /\ a.role \in window
    OBVIOUS
  <2>2. /\ a.role \in Roles /\ a.id \in DOMAIN cycles[a.role] /\ a.at = cycles[a.role][a.id]
        /\ StartOf(a.at) < now /\ a = [role |-> a.role, id |-> a.id, at |-> a.at]
    BY <2>1, FoundIsStored
  <2>3. CyclesRight(cycles[a.role])
    BY <1>1, <2>2
  <2>4. DOMAIN cycles[a.role] = 1 .. Len(cycles[a.role])
    BY <2>3 DEF CyclesRight
  <2> QED BY <2>1, <2>2, <2>3, <2>4 DEF CyclesRight
<1>3. ASSUME NEW a \in found
      PROVE  a.id \in Int /\ a.at.last \in Int /\ a.at.reset \in Int /\ StartOf(a.at) \in Int
  <2>1. a.id \in 1 .. Len(cycles[a.role]) /\ CyclesRight(cycles[a.role]) /\ CycleRight(a.at)
    BY <1>1, <1>2
  <2>2. Len(cycles[a.role]) \in Nat
    BY <2>1 DEF CyclesRight
  <2>3. a.at.last \in Int /\ a.at.reset \in Int /\ a.at.ws \in Int
    BY <2>1 DEF CycleRight, CycleRows
  <2> QED BY <2>1, <2>2, <2>3 DEF StartOf
<1>4. ASSUME NEW a \in found, NEW b \in found PROVE a.role = b.role
  BY <1>2 DEF OneWindow
<1>5. ASSUME NEW a \in found, NEW b \in found, a.id = b.id PROVE a = b
  <2>1. a.role = b.role /\ a.at = b.at
    BY <1>2, <1>4, <1>5
  <2>2. a = [role |-> a.role, id |-> a.id, at |-> a.at] /\ b = [role |-> b.role, id |-> b.id, at |-> b.at]
    BY <1>2
  <2> QED BY <1>5, <2>1, <2>2
<1>6. IsFiniteSet(found)
  <2>1. CASE found = {}
    BY <2>1, FS_EmptySet
  <2>2. CASE found # {}
    <3>1. PICK d \in found : TRUE
      BY <2>2
    <3> DEFINE r == d.role
               cs == cycles[r]
               N == Len(cs)
               g == [i \in 1 .. N |-> [role |-> r, id |-> i, at |-> cs[i]]]
               T == {g[i] : i \in 1 .. N}
    <3>2. CyclesRight(cs)
      BY <1>1, <1>2, <3>1
    <3>3. N \in Nat
      BY <3>2 DEF CyclesRight
    <3>4. ASSUME NEW a \in found PROVE a \in T
      <4>1. a.role = r
        BY <1>4, <3>1
      <4>2. a.id \in 1 .. N /\ a = g[a.id]
        BY <1>2, <4>1
      <4> HIDE DEF g
      <4> QED BY <4>2
    <3>5. found \in SUBSET T
      BY <3>4
    <3> HIDE DEF g, N
    <3>6. IsFiniteSet(1 .. N)
      BY <3>3, FS_Interval
    <3>7. IsFiniteSet(T)
      BY <3>6, ImageFinite
    <3> HIDE DEF T
    <3> QED BY <3>5, <3>7, FS_Subset
  <2> QED BY <2>1, <2>2
<1>7. Ranked(found)
  BY <1>3, <1>5, <1>6 DEF Ranked
<1>8. Begun(found, now)
  BY <1>2 DEF Begun
<1> QED BY <1>2, <1>7, <1>8

\* Cycles in line are not reset earlier the later they were seen.
LEMMA LinedAdvance ==
    ASSUME HistoryInv, FitsInv, OnceInv, NEW r \in Roles, ~Drift(r),
           \A i, j \in DOMAIN cycles[r] : cycles[r][i].ws = cycles[r][j].ws,
           NEW found, Ranked(found), \A a \in found : a.id \in DOMAIN cycles[r] /\ a.at = cycles[r][a.id]
    PROVE  Advancing(found)
<1> DEFINE cs == cycles[r]
<1>1. CyclesRight(cs)
  BY DEF HistoryInv, WindowRight
<1>2. DOMAIN cs = 1 .. Len(cs)
  BY <1>1 DEF CyclesRight
<1>3. Classes(Resets(r)) /\ ~Mixed(cs)
  <2>1. ~Mixed(cs)
    BY <1>2 DEF Mixed
  <2> QED BY <2>1, ResetsAreInts
<1>4. Lined(cs)
  <2>1. Orderly(cs, Resets(r))
    BY DEF FitsInv, WindowFits, MachineFits
  <2> QED BY <1>3, <2>1 DEF Orderly
<1> SUFFICES ASSUME NEW a \in found, NEW b \in found, SeenLater(b, a) PROVE a.at.reset <= b.at.reset
  BY DEF Advancing
<1>5. /\ a.id \in 1 .. Len(cs) /\ b.id \in 1 .. Len(cs) /\ a.at = cs[a.id] /\ b.at = cs[b.id]
      /\ a.id \in Int /\ b.id \in Int /\ a.at.last \in Int /\ b.at.last \in Int
      /\ a.at.reset \in Int /\ b.at.reset \in Int
  BY <1>2 DEF Ranked
<1>6. b.at.last > a.at.last \/ (b.at.last = a.at.last /\ b.id > a.id)
  BY DEF SeenLater
<1>7. b.id < a.id => b.at.last <= a.at.last
  BY <1>4, <1>5 DEF Lined
<1>8. a.id = b.id => a.at = b.at
  BY <1>5
<1> HIDE DEF cs
<1>9. a.id < b.id
  BY <1>5, <1>6, <1>7, <1>8
<1>10. a.at.reset < b.at.reset
  BY <1>4, <1>5, <1>9 DEF Lined
<1> QED BY <1>5, <1>10

\* What the page counts, of cycles that are in order.
LEMMA PageCounts ==
    ASSUME HistoryInv, OnceInv, FitsInv
    PROVE  EfficiencyCountsOnce
<1> SUFFICES ASSUME NEW now \in QueryTimes, NEW asked \in Roles \cup {""}
             PROVE  LET all == EfficiencyCycles(now)
                        window == SelectedWindow(all, asked, now)
                        found == {a \in all : a.role \in window}
                        works == Works(found, now)
                        in(t) == {w \in works : w.start <= t /\ t < w.end}
                        inLine == \A r \in window : /\ ~Drift(r)
                                     /\ \A i, j \in DOMAIN cycles[r] : cycles[r][i].ws = cycles[r][j].ws
                    IN /\ \A t \in UsageTimes : CountedIn(t, works) = in(t) /\ Cardinality(in(t)) <= 1
                       /\ inLine => \A t \in UsageTimes, a \in found :
                             StartOf(a.at) <= t /\ t < a.at.reset
                                 /\ now - HistoryRange <= t /\ t < now => in(t) # {}
                       /\ \A w \in works : LET c == w.cycle.at IN
                            /\ MapThenSumSet(LAMBDA j : Points(c, j), Transitions(c))
                                   = c.segs[1].pct - Last(c.segs).pct
                            /\ \A t \in UsageTimes : TransitionOf(t, c) =
                                   {j \in Transitions(c) : c.segs[j - 1].first < t /\ t <= c.segs[j].first}
  BY DEF EfficiencyCountsOnce
<1> DEFINE all == EfficiencyCycles(now)
           window == SelectedWindow(all, asked, now)
           found == {a \in all : a.role \in window}
           works == Works(found, now)
           in(t) == {w \in works : w.start <= t /\ t < w.end}
           inLine == \A r \in window : /\ ~Drift(r)
                        /\ \A i, j \in DOMAIN cycles[r] : cycles[r][i].ws = cycles[r][j].ws
<1>1. now \in Int /\ \A t \in UsageTimes : t \in Int
  BY EfficiencyAssumption DEF EfficiencyAssumption
<1>2. OneWindow(window)
  BY WindowIsOne
<1> HIDE DEF window
<1>3. Ranked(found) /\ Begun(found, now) /\ \A a \in found : CycleRight(a.at)
  BY <1>1, <1>2, FoundRanked
<1>4. ASSUME NEW a \in found
      PROVE  a.role \in window /\ a.id \in DOMAIN cycles[a.role] /\ a.at = cycles[a.role][a.id]
  BY FoundIsStored
<1> HIDE DEF found, all
<1>5. Spans(works) /\ \A w \in works : WorkOf(found, w)
  BY <1>3, WorksAreSpans, WorksFit
<1>6. ASSUME NEW t \in UsageTimes PROVE CountedIn(t, works) = in(t) /\ Cardinality(in(t)) <= 1
  <2>1. t \in Int
    BY <1>1
  <2> HIDE DEF works
  <2> QED BY <1>5, <2>1, CountedOnce
<1>7. ASSUME inLine, NEW t \in UsageTimes, NEW a \in found, StartOf(a.at) <= t, t < a.at.reset,
             now - HistoryRange <= t, t < now
      PROVE  in(t) # {}
  <2>1. PICK r \in Roles : window = {r}
    BY <1>2, <1>4, <1>7 DEF OneWindow
  <2>2. ~Drift(r) /\ \A i, j \in DOMAIN cycles[r] : cycles[r][i].ws = cycles[r][j].ws
    BY <1>7, <2>1
  <2>3. \A b \in found : b.id \in DOMAIN cycles[r] /\ b.at = cycles[r][b.id]
    <3> TAKE b \in found
    <3>1. b.role = r
      BY <1>4, <2>1
    <3> QED BY <1>4, <3>1
  <2>4. Advancing(found)
    BY <1>3, <2>2, <2>3, LinedAdvance
  <2>5. t \in Int
    BY <1>1
  <2>6. \E w \in works : w.start <= t /\ t < w.end
    BY <1>3, <1>7, <2>4, <2>5, NothingBetween
  <2> HIDE DEF works
  <2> QED BY <2>6
<1>8. ASSUME NEW w \in works
      PROVE  LET c == w.cycle.at IN
               /\ MapThenSumSet(LAMBDA j : Points(c, j), Transitions(c)) = c.segs[1].pct - Last(c.segs).pct
               /\ \A t \in UsageTimes : TransitionOf(t, c) =
                      {j \in Transitions(c) : c.segs[j - 1].first < t /\ t <= c.segs[j].first}
  <2> DEFINE c == w.cycle.at
  <2>1. CycleRight(c)
    BY <1>3, <1>5 DEF WorkOf
  <2> HIDE DEF c, works
  <2>2. MapThenSumSet(LAMBDA j : Points(c, j), Transitions(c)) = c.segs[1].pct - Last(c.segs).pct
    BY <2>1, FallsMakeUp
  <2>3. \A t \in UsageTimes : TransitionOf(t, c) =
            {j \in Transitions(c) : c.segs[j - 1].first < t /\ t <= c.segs[j].first}
    BY <1>1, <2>1, FallOfEvent
  <2> QED BY <2>2, <2>3 DEF c
<1> HIDE DEF works
<1> QED BY <1>6, <1>7, <1>8 DEF works, found, window, all

\* The page of the quota history counts each event of its range once, in a cycle
\* and in at most one fall, leaves none out that a stored cycle covers while the
\* window keeps its length and its reset times do not drift, and its falls make
\* up what the percentage lost: for any history, range and time it is asked for.
THEOREM EachIsCountedOnce == Spec => []EfficiencyCountsOnce
<1>1. HistoryInv /\ OnceInv /\ FitsInv /\ ApartInv => EfficiencyCountsOnce
  BY PageCounts
<1> QED BY <1>1, MemoryStays, PTL
=============================================================================
