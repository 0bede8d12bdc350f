---------------------------- MODULE QuotaHistory ----------------------------
(* The history of Codex quotas: two bounded queues filled by request headers  *)
(* and by quota queries, the single runner that takes them in batches, the    *)
(* state machine it keeps in memory for each quota window of an account, and  *)
(* the transaction that writes cycles and percent segments, which decides     *)
(* anew what it accepts.  One account; the runner's windows are its Roles.    *)
EXTENDS Integers, FiniteSets, SequencesExt

CONSTANTS Roles,      \* quota windows of the account ("primary", "secondary")
          Inputs,     \* what may be observed: [source, at, obs], obs a function
                      \* from some of the Roles to [ws, src, reset, pct]
          Rank,       \* the place of a role in the list of a write
          QueueSize,  \* capacity of each queue
          Tolerance,  \* distance at which two reset times are still the same
          MaxInputs,  \* bound: inputs offered in a behaviour, each once
          MaxCrashes  \* bound: crashes of the process

ASSUME HistoryAssumption ==
    /\ QueueSize \in Nat \ {0} /\ Tolerance \in Nat
    /\ \A r \in Roles : Rank[r] \in Int
    /\ MaxInputs \in Nat /\ MaxCrashes \in Nat
    /\ \A x \in Inputs : /\ x.source \in {"header", "direct", "trusted"} /\ x.at \in Int
                         /\ DOMAIN x.obs \subseteq Roles
                         /\ \A r \in DOMAIN x.obs : x.obs[r] \in
                               [ws : Int, src : {"relative", "absolute"}, reset : Int, pct : Int]

VARIABLES
    headerQ, trustedQ,        \* the two queues
    headerWake, trustedWake,  \* their one-slot notifications
    closing,                  \* nothing is accepted any more, stopCh is closed
    pushing, pushed,          \* the producer that found the header queue full and
                              \* holds the mutex: "no" "full" "dropped", its input
    pc,                       \* the runner: "idle" "woken" "armed" "taking" "done"
    last,                     \* the batch being taken is the one of the shutdown
    hLeft, tLeft,             \* inputs still to be received for the batch
    batch,                    \* inputs received
    current,                  \* role -> what the runner believes is stored
    stable,                   \* role -> repeated percentages not yet written
    cycles,                   \* database: role -> sequence of cycles, by id
    split,                    \* history: role -> times up to which a write that
                              \* stopped part of the way has stored it
    offered, crashes          \* inputs used up, crashes so far

queueVars == <<headerQ, trustedQ, headerWake, trustedWake, closing>>
pushVars == <<pushing, pushed>>
takeVars == <<last, hLeft, tLeft, batch>>
stateVars == <<current, stable, cycles, split>>
boundVars == <<offered, crashes>>
vars == <<queueVars, pushVars, pc, takeVars, stateVars, boundVars>>

Near(a, b) == a - b <= Tolerance /\ b - a <= Tolerance
Distance(a, b) == IF a < b THEN b - a ELSE a - b

Authoritative(source) == source = "trusted"

Unloaded == [loaded |-> FALSE, found |-> FALSE, ws |-> 0, src |-> "relative",
             reset |-> 0, pct |-> 0, last |-> 0]
NoStable == [exists |-> FALSE]
NoInput == [source |-> "none"]

Init ==
    /\ headerQ = <<>> /\ trustedQ = <<>>
    /\ headerWake = FALSE /\ trustedWake = FALSE /\ closing = FALSE
    /\ pushing = "no" /\ pushed = NoInput
    /\ pc = "idle" /\ last = FALSE /\ hLeft = 0 /\ tLeft = 0 /\ batch = <<>>
    /\ current = [r \in Roles |-> Unloaded]
    /\ stable = [r \in Roles |-> NoStable]
    /\ cycles = [r \in Roles |-> <<>>]
    /\ split = [r \in Roles |-> {}]
    /\ offered = {} /\ crashes = 0

-----------------------------------------------------------------------------
(* Producers: a short critical section each.  The runner receives without the *)
(* mutex, so it may take inputs between the three steps in which a header      *)
(* enters a full queue; what needs the mutex (Free) waits for them.            *)

Free == pushing = "no"

FullForHeader(x) == ~closing /\ ~Authoritative(x.source) /\ Len(headerQ) = QueueSize

AppendInput(x) ==
    /\ Free /\ x \notin offered /\ Cardinality(offered) < MaxInputs
    /\ ~FullForHeader(x)
    /\ offered' = offered \cup {x}
    /\ IF closing \/ (Authoritative(x.source) /\ Len(trustedQ) = QueueSize)
       THEN UNCHANGED queueVars
       ELSE IF Authoritative(x.source)
       THEN /\ trustedQ' = Append(trustedQ, x) /\ trustedWake' = TRUE
            /\ UNCHANGED <<headerQ, headerWake, closing>>
       ELSE /\ headerQ' = Append(headerQ, x) /\ headerWake' = TRUE
            /\ UNCHANGED <<trustedQ, trustedWake, closing>>
    /\ UNCHANGED <<pushVars, pc, takeVars, stateVars, crashes>>

(* the first send of a header fails *)
FindFull(x) ==
    /\ Free /\ x \notin offered /\ Cardinality(offered) < MaxInputs
    /\ FullForHeader(x)
    /\ pushing' = "full" /\ pushed' = x
    /\ UNCHANGED <<queueVars, pc, takeVars, stateVars, boundVars>>

(* the oldest input is dropped, unless the runner has taken all of them *)
DropHead ==
    /\ pushing = "full" /\ pushing' = "dropped"
    /\ headerQ' = IF headerQ = <<>> THEN headerQ ELSE Tail(headerQ)
    /\ UNCHANGED <<trustedQ, headerWake, trustedWake, closing, pushed, pc, takeVars,
                   stateVars, boundVars>>

(* Mutant: the input is not sent again. *)
SendAgainNever ==
    /\ pushing = "dropped" /\ pushing' = "no" /\ pushed' = NoInput
    /\ offered' = offered \cup {pushed}
    /\ UNCHANGED <<queueVars, pc, takeVars, stateVars, crashes>>

(* the second send; its input would be lost if the queue were full again *)
SendAgain ==
    /\ pushing = "dropped" /\ pushing' = "no" /\ pushed' = NoInput
    /\ offered' = offered \cup {pushed}
    /\ IF Len(headerQ) < QueueSize
       THEN headerQ' = Append(headerQ, pushed) /\ headerWake' = TRUE
       ELSE UNCHANGED <<headerQ, headerWake>>
    /\ UNCHANGED <<trustedQ, trustedWake, closing, pc, takeVars, stateVars, crashes>>

FinishPush == DropHead \/ SendAgain

CloseHistory ==
    /\ Free /\ ~closing
    /\ closing' = TRUE
    /\ UNCHANGED <<headerQ, trustedQ, headerWake, trustedWake, pushVars, pc, takeVars,
                   stateVars, boundVars>>

-----------------------------------------------------------------------------
(* The transaction: what the database makes of one observation               *)

NewSegment(o) == [pct |-> o.pct, first |-> o.first, last |-> o.last]

NewCycle(o) == [ws |-> o.ws, src |-> o.src, reset |-> o.reset, first |-> o.first,
                last |-> o.last, segs |-> <<NewSegment(o)>>]

LatestOf(cs) == CHOOSE i \in DOMAIN cs : \A j \in DOMAIN cs :
                    cs[j].last < cs[i].last \/ (cs[j].last = cs[i].last /\ j <= i)

SameCycle(c, o) == c.ws = o.ws /\ Near(c.reset, o.reset)

(* the matching cycle whose reset is nearest, the more recent one on a tie *)
Nearest(cs, o) ==
    LET found == {i \in DOMAIN cs : SameCycle(cs[i], o)}
        closest == {i \in found : \A j \in found :
                      Distance(cs[i].reset, o.reset) <= Distance(cs[j].reset, o.reset)}
    IN CHOOSE i \in closest : \A j \in closest :
           cs[j].last < cs[i].last \/ (cs[j].last = cs[i].last /\ j <= i)

(* the position of the cycle the observation belongs to, 0 for a new one *)
CycleOf(cs, o) ==
    IF cs # <<>> /\ SameCycle(cs[LatestOf(cs)], o) THEN LatestOf(cs)
    ELSE IF \E i \in DOMAIN cs : SameCycle(cs[i], o) THEN Nearest(cs, o) ELSE 0

Ignored(cs, o) ==
    /\ cs # <<>>
    /\ LET latest == cs[LatestOf(cs)]
           i == CycleOf(cs, o)
       IN \/ o.last < latest.last
          \/ i \notin {0, LatestOf(cs)} /\ cs[i].ws = latest.ws
          \/ i = 0 /\ latest.ws = o.ws /\ o.reset < latest.reset

MovesBoundary(c, o) ==
    \/ o.auth /\ (c.src # o.src \/ c.reset # o.reset)
    \/ c.src = "relative" /\ o.src = "absolute"

Calibrated(c, o) == IF MovesBoundary(c, o)
                    THEN [c EXCEPT !.src = o.src, !.reset = o.reset] ELSE c

(* the members of S one after the other, by the pairs of R *)
Listed(S, R) == CHOOSE f \in [1 .. Cardinality(S) -> S] :
                    \A i, j \in DOMAIN f : i < j => <<f[i], f[j]>> \in R

(* the entries at some places of a sequence, in their order *)
EntriesAt(s, places) ==
    LET order == Listed(places, {p \in places \X places : p[1] < p[2]})
    IN [i \in 1 .. Cardinality(places) |-> s[order[i]]]

(* Mutant: only the last segment is taken back. *)
CorrectedOnce(segs, o) == Append(Front(segs), NewSegment(o))

(* a trusted higher percentage deletes the lower segments *)
Corrected(segs, o) ==
    LET kept == EntriesAt(segs, {i \in DOMAIN segs : segs[i].pct >= o.pct})
    IN IF kept # <<>> /\ Last(kept).pct = o.pct
       THEN [kept EXCEPT ![Len(kept)].last = o.last]
       ELSE Append(kept, NewSegment(o))

(* Mutant: a higher percentage of a header is a correction. *)
SegmentsRising(segs, o) ==
    IF o.first <= Last(segs).last THEN segs
    ELSE IF o.pct > Last(segs).pct THEN Corrected(segs, o)
    ELSE IF o.pct = Last(segs).pct THEN [segs EXCEPT ![Len(segs)].last = o.last]
    ELSE Append(segs, NewSegment(o))

Segments(segs, o) ==
    LET tail == Last(segs)
    IN IF o.last < tail.last THEN segs
       ELSE IF o.auth /\ o.pct > tail.pct THEN Corrected(segs, o)
       ELSE IF o.first <= tail.last \/ o.pct > tail.pct THEN segs
       ELSE IF o.pct = tail.pct THEN [segs EXCEPT ![Len(segs)].last = o.last]
       ELSE Append(segs, NewSegment(o))

Observed(c, o) ==
    LET segs == Segments(c.segs, o)
    IN IF segs = c.segs THEN c
       ELSE [c EXCEPT !.segs = segs, !.last = o.last,
                      !.first = IF o.first < @ THEN o.first ELSE @]

Apply(cs, o) ==
    LET i == CycleOf(cs, o)
    IN IF Ignored(cs, o) THEN cs
       ELSE IF i = 0 THEN Append(cs, NewCycle(o))
       ELSE [cs EXCEPT ![i] = Observed(Calibrated(@, o), o)]

(* the unique index over window length and reset time *)
Duplicate(cs) == \E i, j \in DOMAIN cs :
                     i # j /\ cs[i].ws = cs[j].ws /\ cs[i].reset = cs[j].reset

(* what a sequence leads to, one element after the other, from its start on; *)
(* the state before is bound to a name, so that it is evaluated once          *)
Through(op(_, _), start, seq) ==
    LET after[n \in 0 .. Len(seq)] ==
            IF n = 0 THEN start
            ELSE CHOOSE y \in {op(x, seq[n]) : x \in {after[n - 1]}} : TRUE
    IN after

(* the states the transaction passes through, the last one is its result *)
Written(cs, pending) == Through(Apply, cs, pending)

-----------------------------------------------------------------------------
(* The machine in memory: one observation of one role.  m has the fields      *)
(* cur, stab, pend (what this batch writes), idx (the entry of pend that is   *)
(* the current tail, or 0) and due (times at which something was written).    *)

Recovered(cs) ==
    IF cs = <<>> THEN [Unloaded EXCEPT !.loaded = TRUE]
    ELSE LET c == cs[LatestOf(cs)]
         IN [loaded |-> TRUE, found |-> TRUE, ws |-> c.ws, src |-> c.src,
             reset |-> c.reset, pct |-> Last(c.segs).pct, last |-> Last(c.segs).last]

StateOf(o) == [loaded |-> TRUE, found |-> TRUE, ws |-> o.ws, src |-> o.src,
               reset |-> o.reset, pct |-> o.pct, last |-> o.last]

Deferred(m) == IF m.stab.exists THEN <<m.stab.obs>> ELSE <<>>

(* a new cycle, a fall or a trusted correction is written in this batch *)
Change(m, o) ==
    LET pend == m.pend \o Deferred(m) \o <<o>>
    IN [cur |-> StateOf(o), stab |-> NoStable, pend |-> pend,
        idx |-> Len(pend), due |-> m.due \cup {o.last}]

Moved(o, p) == [p EXCEPT !.src = o.src, !.reset = o.reset]

(* an observation that stands for o as well, and the same that lasts until o *)
With(p, o) == [p EXCEPT !.auth = @ \/ o.auth]
Until(p, o, moved) == [With(IF moved THEN Moved(o, p) ELSE p, o) EXCEPT !.last = o.last]

(* same time, another boundary *)
Calibrate(m, o) ==
    LET pend == m.pend \o Deferred(m)
        here == IF m.idx > 0
                THEN [pend EXCEPT ![m.idx] = With(Moved(o, @), o)]
                ELSE Append(pend, [o EXCEPT !.pct = m.cur.pct])
    IN [m EXCEPT !.cur = Moved(o, @), !.stab = NoStable, !.pend = here,
                 !.idx = IF @ > 0 THEN @ ELSE Len(here), !.due = @ \cup {o.last}]

DeferStable(stab, o, immediate) ==
    IF ~stab.exists THEN [exists |-> TRUE, obs |-> o, immediate |-> immediate]
    ELSE LET p == stab.obs
         IN [exists |-> TRUE, immediate |-> stab.immediate \/ immediate,
             obs |-> Until(p, o, o.auth \/ (p.src = "relative" /\ o.src = "absolute"))]

(* the same percentage again *)
Repeat(m, o, moved) ==
    LET cur == [(IF moved THEN Moved(o, m.cur) ELSE m.cur) EXCEPT !.last = o.last]
    IN IF m.idx > 0
       THEN [m EXCEPT !.cur = cur, !.due = @ \cup {o.last},
                      !.pend[m.idx] = Until(@, o, moved)]
       ELSE [m EXCEPT !.cur = cur, !.stab = DeferStable(@, o, moved \/ o.auth)]

(* an observation that cannot follow the current state *)
Late(cur, o) ==
    \/ o.last < cur.last
    \/ cur.ws = o.ws /\ ~SameCycle(cur, o) /\ o.reset < cur.reset

Merge(m, o) ==
    LET moved == MovesBoundary(m.cur, o)
    IN CASE ~m.cur.found -> Change(m, o)
         [] m.cur.found /\ Late(m.cur, o) -> m
         [] m.cur.found /\ ~Late(m.cur, o) /\ ~SameCycle(m.cur, o) -> Change(m, o)
         [] OTHER ->
              IF o.pct > m.cur.pct /\ o.auth THEN Change(m, o)
              ELSE IF o.last = m.cur.last THEN (IF moved THEN Calibrate(m, o) ELSE m)
              ELSE IF o.pct > m.cur.pct THEN m
              ELSE IF o.pct = m.cur.pct THEN Repeat(m, o, moved)
              ELSE Change(m, o)

-----------------------------------------------------------------------------
(* The runner                                                                *)

WakeForHeaders ==
    /\ pc = "idle" /\ headerWake
    /\ headerWake' = FALSE /\ pc' = "woken"
    /\ UNCHANGED <<headerQ, trustedQ, trustedWake, closing, pushVars, takeVars,
                   stateVars, boundVars>>

LookAtQueue ==
    /\ Free /\ pc = "woken"
    /\ pc' = IF headerQ = <<>> THEN "idle" ELSE "armed"
    /\ UNCHANGED <<queueVars, pushVars, takeVars, stateVars, boundVars>>

(* the minute is over, a trusted query arrived, or the service stops: the     *)
(* lengths of both queues are noted and both notifications cleared            *)
BeginBatch ==
    \/ /\ pc = "armed" /\ last' = FALSE
    \/ /\ pc \in {"idle", "armed"} /\ trustedWake /\ last' = FALSE
    \/ /\ pc \in {"idle", "armed"} /\ closing /\ last' = TRUE

(* Mutant: a batch on the timer leaves the trusted queue. *)
TakeCountsOfHeaders ==
    /\ Free /\ BeginBatch
    /\ pc' = "taking" /\ batch' = <<>>
    /\ hLeft' = Len(headerQ) /\ tLeft' = (IF pc = "armed" THEN 0 ELSE Len(trustedQ))
    /\ headerWake' = FALSE /\ trustedWake' = FALSE
    /\ UNCHANGED <<headerQ, trustedQ, closing, pushVars, stateVars, boundVars>>

TakeCounts ==
    /\ Free /\ BeginBatch
    /\ pc' = "taking" /\ batch' = <<>>
    /\ hLeft' = Len(headerQ) /\ tLeft' = Len(trustedQ)
    /\ headerWake' = FALSE /\ trustedWake' = FALSE
    /\ UNCHANGED <<headerQ, trustedQ, closing, pushVars, stateVars, boundVars>>

ReceiveHeader ==
    /\ pc = "taking" /\ hLeft > 0 /\ headerQ # <<>>
    /\ batch' = Append(batch, Head(headerQ)) /\ headerQ' = Tail(headerQ)
    /\ hLeft' = hLeft - 1
    /\ UNCHANGED <<trustedQ, headerWake, trustedWake, closing, pushVars, pc, last, tLeft,
                   stateVars, boundVars>>

ReceiveTrusted ==
    /\ pc = "taking" /\ hLeft = 0 /\ tLeft > 0 /\ trustedQ # <<>>
    /\ batch' = Append(batch, Head(trustedQ)) /\ trustedQ' = Tail(trustedQ)
    /\ tLeft' = tLeft - 1
    /\ UNCHANGED <<headerQ, headerWake, trustedWake, closing, pushVars, pc, last, hLeft,
                   stateVars, boundVars>>

(* stable sort of numbered observations by their time *)
ByTime(s) ==
    LET places == DOMAIN s
        before(i, j) == s[i].first < s[j].first \/ (s[i].first = s[j].first /\ i < j)
        order == Listed(places, {p \in places \X places : before(p[1], p[2])})
    IN [i \in 1 .. Cardinality(places) |-> s[order[i]]]

(* a trusted query replaces the headers of the roles it returned; headers of  *)
(* an account that is not (or cannot be) verified are dropped                 *)
Kept(x, r, codex) ==
    /\ r \in DOMAIN x.obs
    /\ \/ Authoritative(x.source)
       \/ /\ ~\E i \in DOMAIN batch : Authoritative(batch[i].source)
                                       /\ r \in DOMAIN batch[i].obs
          /\ x.source = "direct" \/ codex

Candidates(r, codex) ==
    LET kept == {i \in DOMAIN batch : Kept(batch[i], r, codex)}
        o(x) == [ws |-> x.obs[r].ws, src |-> x.obs[r].src, reset |-> x.obs[r].reset,
                 pct |-> x.obs[r].pct, first |-> x.at, last |-> x.at,
                 auth |-> Authoritative(x.source)]
    IN ByTime([i \in kept |-> o(batch[i])])

(* the machine before, and after each of the candidates *)
Remembered(m, cands) == Through(Merge, m, cands)

Merged(r, codex, loadable) ==
    LET from(cur) == [cur |-> cur, stab |-> stable[r], pend |-> <<>>, idx |-> 0, due |-> {}]
        known == IF current[r].loaded THEN current[r] ELSE Recovered(cycles[r])
        cands == Candidates(r, codex)
    IN IF cands = <<>> \/ (~current[r].loaded /\ ~loadable) THEN from(current[r])
       ELSE Remembered(from(known), cands)[Len(cands)]

(* repeated percentages are written when they must, with what was seen at the *)
(* same time, after five minutes (beat), or because the service stops          *)
DueTimes(m, beat) ==
    LET changed == UNION {m[r].due : r \in Roles}
    IN {m[r].stab.obs.last : r \in {q \in Roles :
           /\ m[q].stab.exists
           /\ \/ last \/ q \in beat \/ m[q].stab.immediate
              \/ m[q].stab.obs.last \in changed}}

Pending(m, due) ==
    ByTime(m.pend \o IF m.stab.exists /\ m.stab.obs.last \in due
                     THEN Deferred(m) ELSE <<>>)

(* A write is a list of observations, role by role, in transactions of 32 one *)
(* after the other; those of other accounts come before, so that a transaction *)
(* may end anywhere in the list.  What is stored when it stops: all of the     *)
(* roles before q and n observations of q.                                     *)
Stopped(pend, q, n) ==
    [r \in Roles |-> IF r = q THEN n ELSE IF Rank[r] < Rank[q] THEN Len(pend[r]) ELSE 0]

Cuts(pend) == UNION {{Stopped(pend, q, n) : n \in 0 .. Len(pend[q])} : q \in Roles}

(* An observation that breaks a unique index fails its transaction; a write is *)
(* successful as a whole, and one that times out may be complete all the same. *)
Possible(pend, steps, cut, failed) ==
    /\ \A r \in Roles : \A i \in 0 .. cut[r] : ~Duplicate(steps[r][i])
    /\ failed => \E r \in Roles : pend[r] # <<>>
    /\ ~failed => \A r \in Roles : cut[r] = Len(pend[r])

Store(pend, steps, cut) ==
    /\ cycles' = [r \in Roles |-> steps[r][cut[r]]]
    /\ split' = [r \in Roles |->
          IF cut[r] \in {0, Len(pend[r])} THEN split[r]
          ELSE split[r] \cup {Recovered(steps[r][cut[r]]).last}]

(* Mutant: what could not be written is remembered as written. *)
FlushRemembering(m, due) ==
    \E pend \in {[r \in Roles |-> Pending(m[r], due)]} :
    \E steps \in {[r \in Roles |-> Written(cycles[r], pend[r])]} :
    \E cut \in Cuts(pend), failed \in BOOLEAN :
        /\ Possible(pend, steps, cut, failed)
        /\ Store(pend, steps, cut)
        /\ current' = [r \in Roles |-> m[r].cur]
        /\ stable' = [r \in Roles |->
              IF m[r].stab.exists /\ m[r].stab.obs.last \in due
              THEN NoStable ELSE m[r].stab]

(* a write that fails, or whose result is not known, makes the runner forget  *)
(* all it knew of the roles it wrote                                          *)
Flush(m, due) ==
    \E pend \in {[r \in Roles |-> Pending(m[r], due)]} :
    \E steps \in {[r \in Roles |-> Written(cycles[r], pend[r])]} :
    \E cut \in Cuts(pend), failed \in BOOLEAN :
        LET forgets(r) == pend[r] # <<>> /\ failed
        IN /\ Possible(pend, steps, cut, failed)
           /\ Store(pend, steps, cut)
           /\ current' = [r \in Roles |-> IF forgets(r) THEN Unloaded ELSE m[r].cur]
           /\ stable' = [r \in Roles |->
                 IF forgets(r) \/ (m[r].stab.exists /\ m[r].stab.obs.last \in due)
                 THEN NoStable ELSE m[r].stab]

(* One batch: headers verified or not, roles that cannot be recovered left    *)
(* out, candidates merged, and one write.                                     *)
ProcessBatch ==
    /\ pc = "taking" /\ hLeft = 0 /\ tLeft = 0
    /\ \E codex \in BOOLEAN,
          unloadable \in SUBSET {r \in Roles : ~current[r].loaded} :
        \E m \in {[r \in Roles |-> Merged(r, codex, r \notin unloadable)]} :
        \E beat \in SUBSET {r \in Roles : m[r].stab.exists} :
        \E due \in {DueTimes(m, beat)} : Flush(m, due)
    /\ pc' = IF last THEN "done" ELSE "idle"
    /\ batch' = <<>> /\ last' = FALSE
    /\ UNCHANGED <<queueVars, pushVars, hLeft, tLeft, boundVars>>

(* the process dies anywhere and starts again *)
Crash ==
    /\ crashes < MaxCrashes /\ crashes' = crashes + 1
    /\ headerQ' = <<>> /\ trustedQ' = <<>>
    /\ headerWake' = FALSE /\ trustedWake' = FALSE /\ closing' = FALSE
    /\ pushing' = "no" /\ pushed' = NoInput
    /\ pc' = "idle" /\ last' = FALSE /\ hLeft' = 0 /\ tLeft' = 0 /\ batch' = <<>>
    /\ current' = [r \in Roles |-> Unloaded]
    /\ stable' = [r \in Roles |-> NoStable]
    /\ UNCHANGED <<cycles, split, offered>>

Runner == \/ WakeForHeaders \/ LookAtQueue \/ TakeCounts \/ ReceiveHeader
          \/ ReceiveTrusted \/ ProcessBatch

Next ==
    \/ \E x \in Inputs : AppendInput(x) \/ FindFull(x)
    \/ FinishPush
    \/ CloseHistory
    \/ Runner
    \/ Crash

Spec == Init /\ [][Next]_vars
(* the runner is a goroutine that always gets its turn, and so is a producer *)
FairSpec == Spec /\ WF_vars(Runner) /\ WF_vars(FinishPush)

-----------------------------------------------------------------------------
(* Properties                                                                *)

(* States: the queues stay within their capacity, the runner is at one of its
   places with as many inputs still to receive as it noted, the memory holds
   states or nothing, and the database rows respect the constraints of the
   tables: one percentage once in a cycle, one cycle per window and reset. *)
TypeOK ==
    /\ headerQ \in Seq(Inputs) /\ Len(headerQ) <= QueueSize
    /\ trustedQ \in Seq(Inputs) /\ Len(trustedQ) <= QueueSize
    /\ pc \in {"idle", "woken", "armed", "taking", "done"}
    /\ pc # "taking" => batch = <<>>
    /\ \A r \in Roles :
         /\ ~Duplicate(cycles[r])
         /\ \A i \in DOMAIN cycles[r] : LET segs == cycles[r][i].segs IN
              \A j, k \in DOMAIN segs : segs[j].pct = segs[k].pct => j = k

(* Within a cycle the remaining percentage only falls from one segment to the
   next, and the segments do not overlap in time: so it stays whatever headers,
   trusted corrections, deferred repetitions and failures come in between. *)
SegmentsFall ==
    \A r \in Roles : \A i \in DOMAIN cycles[r] : LET c == cycles[r][i] IN
        /\ c.last = Last(c.segs).last
        /\ \A j \in DOMAIN c.segs : c.segs[j].first <= c.segs[j].last
        /\ \A j \in 1 .. Len(c.segs) - 1 :
             /\ c.segs[j + 1].pct < c.segs[j].pct
             /\ c.segs[j].last < c.segs[j + 1].first

(* Two state machines, the one in memory and the one of the transaction, decide
   what is accepted.  Between batches they agree: what the runner believes to
   be the window, its last percentage and its time is what is stored, plus what
   is deferred, which begins after all that is stored.  The time alone may be
   ahead: a second input of the moment that is stored last (Twice), which moves
   the reset time, makes a row of that moment, and what is merged into it later
   in the batch the transaction ignores as overlapping.  (The reset time is not
   compared: a fall seen by a header moves it in memory only.  After a detour
   through a window of another length the transaction finds the old cycle again
   and may ignore a header's higher percentage, which the memory has taken for
   the start of a new cycle.  And reset times that drift step by step leave the
   tolerance of the stored time before that of the remembered one.) *)
Detour(r) == \E i \in DOMAIN cycles[r] : cycles[r][i].ws # current[r].ws
Resets(r) == {x.obs[r].reset : x \in {y \in offered : r \in DOMAIN y.obs}}
Drift(r) == \E a, b, c \in Resets(r) : Near(a, b) /\ Near(b, c) /\ ~Near(a, c)
Comparable(r) == current[r].found /\ ~Detour(r) /\ ~Drift(r)
Twice(r, t) == \E x, y \in offered : /\ x # y /\ x.at = t /\ y.at = t
                                   /\ r \in DOMAIN x.obs /\ r \in DOMAIN y.obs
MemoryMatchesDatabase ==
    \A r \in Roles :
      /\ current[r].loaded => (current[r].found <=> cycles[r] # <<>>)
      /\ Comparable(r) => LET stored == Recovered(cycles[r]) IN
           /\ <<stored.ws, stored.pct>> = <<current[r].ws, current[r].pct>>
           /\ IF stable[r].exists
              THEN /\ stable[r].obs.last = current[r].last
                   /\ stored.last < stable[r].obs.first
              ELSE \/ stored.last = current[r].last
                   \/ stored.last < current[r].last /\ Twice(r, stored.last)

(* What one response showed of the two windows is given to one write: no window
   is still deferred at a time (one that a single response has) at which the
   other one is already written.  A write may stop between two transactions, and
   then nothing that it wrote is remembered; but a window that it stored up to a
   time before its last one (split) is recovered from there, and may be at that
   time with the other one still deferred.  (This is about what is deferred and
   what is current: after a detour through another length or with reset times
   that drift, a window may be at that time without a write.) *)
WrittenTogether ==
    \A x \in Inputs : (\A y \in Inputs : y.at = x.at => y = x) =>
        ~\E q, r \in Roles : /\ stable[q].exists /\ stable[q].obs.last = x.at
                            /\ Comparable(r) /\ current[r].last = x.at
                            /\ ~stable[r].exists /\ x.at \notin split[r]

(* A repetition that follows a second input of the same moment is kept: the time
   the runner remembers, with nothing deferred, is the time that is stored. *)
FollowUpIsKept ==
    \A r \in Roles : Comparable(r) /\ ~stable[r].exists
                       => Recovered(cycles[r]).last = current[r].last

(* What is remembered, deferred and stored fits together. *)
HistoryFitsTogether == MemoryMatchesDatabase /\ WrittenTogether

(* The lengths are noted under the mutex and the inputs received without it,
   while a full queue drops its oldest input: what the runner still has to
   receive is there, but for one input that a producer is about to send in place
   of the one it has dropped.  So the runner never waits for an input that is
   gone. *)
ReceivesWhatItCounted ==
    pc = "taking" => /\ hLeft <= Len(headerQ) + (IF pushing = "dropped" THEN 1 ELSE 0)
                     /\ tLeft <= Len(trustedQ)

(* The second send always finds room: whatever the runner has taken meanwhile,
   the input for which another one was dropped is not lost. *)
RoomForSecondSend == pushing = "dropped" => Len(headerQ) < QueueSize

(* An input that was accepted reaches the runner or makes room for a newer one,
   also when the service stops: nothing is left in the queues of a runner that
   has ended, and of a waiting runner only with a notification. *)
NothingLeftBehind ==
    /\ pc = "done" => headerQ = <<>> /\ trustedQ = <<>>
    /\ pc = "idle" => (headerQ # <<>> => headerWake) /\ (trustedQ # <<>> => trustedWake)

(* Only a trusted query raises the percentage of a cycle: no mixture of
   headers, of repetitions merged with others, and of boundary changes does. *)
OnlyTrustedRaises ==
    [][\A r \in Roles : \A i \in DOMAIN cycles[r] :
         Last(cycles'[r][i].segs).pct > Last(cycles[r][i].segs).pct
            => \E b \in DOMAIN batch : /\ Authoritative(batch[b].source)
                                       /\ r \in DOMAIN batch[b].obs]_vars

(* The two queues are handed over whole. *)
HandOver == ReceivesWhatItCounted /\ RoomForSecondSend /\ NothingLeftBehind

(* A runner that is told to stop ends, after a last batch (or the process dies). *)
StopReturns == closing ~> (pc = "done" \/ ~closing)

(* Every input is taken out of its queue in the end, however the wakes, the
   timer and the trusted queries fall. *)
QueuesDrain == []<>(headerQ = <<>> /\ trustedQ = <<>>)

(* Every input arrives, and the runner ends when it is told to. *)
InputsArrive == QueuesDrain /\ StopReturns
=============================================================================
