--------------------------- MODULE ServicesProofs ---------------------------
(* What holds of sessions, of the logs of requests, of the tokens of          *)
(* downloads, of the list of events, of the cache of recent ones and of the   *)
(* prices, for any number of requests, tokens, readers, fetches, pages,       *)
(* batches, prices and rules; and that each of the services does beside the   *)
(* others what it does alone.                                                 *)
EXTENDS Services, BackgroundProofs, FiniteSetTheorems, SequenceTheorems, TLAPS

-----------------------------------------------------------------------------
(* The sessions. A request only ever names tokens that were handed out, so    *)
(* what deletes, loads or touches a session finds one that was.               *)

SessionAddresses == {l.ip : l \in Logins} \cup {a.ip : a \in Arrivals}

SessionKeys == {l.key : l \in Logins}

SessionStates == [role : {"admin", "viewer"}, source : {l.via : l \in Logins}, key : SessionKeys,
                  alias : {"", "named"}, ip : SessionAddresses, seen : Int, expires : Int]

LookupSteps == {"read", "load", "expired", "drop", "touch", "key", "delete"}

\* A request with the candidates that are left, all handed out before.
LookupStates(used) ==
    [pc : LookupSteps \cup {"served", "refused"}, todo : Seq(used), via : {a.via : a \in Arrivals},
     op : {a.op : a \in Arrivals}, ip : SessionAddresses, first : BOOLEAN, key : SessionKeys \cup {"none"}]

WaitingStates(used) == {q \in LookupStates(used) : q.pc \in LookupSteps /\ Len(q.todo) > 0}

\* What a step may make of a request: Go keeps no more of an answer than that.
NextStates(used) == {q \in LookupStates(used) : q.pc \in LookupSteps => Len(q.todo) > 0}

IdleStates == {Free, [pc |-> "served"], [pc |-> "refused"]}

SessionsTyped ==
    /\ sessions \in [Tokens -> SessionStates \cup {None}]
    /\ authRows \in [Tokens -> SessionStates \cup {None}]
    /\ sessionClock \in Int
    /\ usedTokens \subseteq Tokens /\ revoked \subseteq usedTokens

RequestsTyped == requests \in [Requests -> IdleStates \cup WaitingStates(usedTokens)]

\* The updates that are carried outside the lock, and who carries them.
WritersTyped ==
    /\ activityWriters \in {0, 1}
    /\ DOMAIN pendingActivity = Tokens
    /\ IsFiniteSet(activityInFlight)
    /\ \A u \in activityInFlight : u.token \in Tokens /\ u.seen \in Int /\ u.ip \in SessionAddresses
    /\ \A t \in Tokens : pendingActivity[t] = NoUpdate
                            \/ (pendingActivity[t].seen \in Int /\ pendingActivity[t].ip \in SessionAddresses)

SessionsInv == SessionsTyped /\ RequestsTyped /\ WritersTyped
                  /\ RevokedStaysRevoked /\ CachedIsStored /\ OneWriterWhileActivityWaits

\* The list follows from what memory and table share.
LEMMA ListFollows == SessionsTyped /\ CachedIsStored => ListIsWhatLookupAccepts
<1> SUFFICES ASSUME SessionsTyped, CachedIsStored PROVE ListIsWhatLookupAccepts
    OBVIOUS
<1> DEFINE lookup(t) == IF sessions[t] # None THEN sessions[t] ELSE authRows[t]
<1>1. ASSUME NEW t \in Tokens
      PROVE  /\ Live(lookup(t)) <=> Live(authRows[t])
             /\ sessions[t] # None => /\ sessions[t] \in SessionStates /\ authRows[t] \in SessionStates
                                      /\ authRows[t] # None
                                      /\ authRows[t].expires = sessions[t].expires
                                      /\ [authRows[t] EXCEPT !.alias = sessions[t].alias, !.ip = sessions[t].ip,
                                              !.seen = sessions[t].seen] = sessions[t]
  <2>1. CASE sessions[t] = None
    BY <2>1
  <2>2. CASE sessions[t] # None
    <3> DEFINE s == sessions[t]
               a == authRows[t]
    <3>1. s \in SessionStates /\ a \in SessionStates /\ a # None /\ a = [s EXCEPT !.ip = a.ip, !.seen = a.seen]
      BY <2>2 DEF SessionsTyped, CachedIsStored
    <3> HIDE DEF s, a
    <3>2. a.expires = s.expires
      BY <3>1 DEF SessionStates
    <3>3. [a EXCEPT !.alias = s.alias, !.ip = s.ip, !.seen = s.seen] = s
      BY <3>1 DEF SessionStates
    <3> QED BY <2>2, <3>1, <3>2, <3>3 DEF Live, s, a
  <2> QED BY <2>1, <2>2
<1>2. \A t \in Tokens : CleanedUp(authRows)[t] = (IF Live(authRows[t]) THEN authRows[t] ELSE None)
                        /\ CleanedUp(sessions)[t] = (IF Live(sessions[t]) THEN sessions[t] ELSE None)
  BY DEF CleanedUp
<1>3. \A t \in Tokens : CleanedUp(authRows)[t] # None <=> Live(lookup(t))
  BY <1>1, <1>2 DEF Live
<1>4. ASSUME NEW t \in Tokens, Live(lookup(t))
      PROVE  (IF CleanedUp(sessions)[t] = None THEN CleanedUp(authRows)[t]
              ELSE [CleanedUp(authRows)[t] EXCEPT !.alias = CleanedUp(sessions)[t].alias,
                       !.ip = CleanedUp(sessions)[t].ip, !.seen = CleanedUp(sessions)[t].seen]) = lookup(t)
  <2>1. CleanedUp(authRows)[t] = authRows[t]
    BY <1>1, <1>2, <1>4
  <2>2. CASE sessions[t] = None
    BY <1>2, <2>1, <2>2 DEF Live
  <2>3. CASE sessions[t] # None
    <3>1. CleanedUp(sessions)[t] = sessions[t]
      BY <1>2, <1>4, <2>3
    <3> QED BY <1>1, <2>1, <2>3, <3>1, Zenon
  <2> QED BY <2>2, <2>3
<1> QED BY <1>3, <1>4 DEF ListIsWhatLookupAccepts, Listed

-----------------------------------------------------------------------------
(* What a lookup makes of a request                                          *)

LEMMA LookupFields ==
    ASSUME NEW U, NEW q \in WaitingStates(U)
    PROVE  q \in LookupStates(U) /\ q.todo \in Seq(U) /\ Len(q.todo) > 0 /\ Head(q.todo) \in U
           /\ q.ip \in SessionAddresses
  BY DEF WaitingStates, LookupStates

LEMMA NextCandidateKeeps ==
    ASSUME NEW U, NEW q \in WaitingStates(U) PROVE NextCandidate(q) \in NextStates(U)
<1>1. /\ q \in LookupStates(U) /\ q.todo \in Seq(U) /\ Len(q.todo) > 0
  BY LookupFields
<1> DEFINE rest == Tail(q.todo)
           pc == IF Len(q.todo) = 1 THEN "refused" ELSE "read"
           n == [q EXCEPT !.todo = rest, !.pc = pc]
<1>2. rest \in Seq(U) /\ Len(rest) = Len(q.todo) - 1
  BY <1>1
<1>a. Len(rest) \in Nat /\ Len(q.todo) \in Nat
  BY <1>1, <1>2
<1>3. pc \in LookupSteps \cup {"served", "refused"} /\ (pc \in LookupSteps => Len(rest) > 0)
  <2> HIDE DEF rest
  <2>1. CASE Len(q.todo) = 1
    BY <2>1 DEF LookupSteps
  <2>2. CASE Len(q.todo) > 1
    <3>1. Len(rest) > 0
      BY <1>2, <1>a, <2>2
    <3> QED BY <2>2, <3>1 DEF LookupSteps
  <2>3. \A k \in Nat : k > 0 => k = 1 \/ k > 1
    OBVIOUS
  <2>4. Len(q.todo) = 1 \/ Len(q.todo) > 1
    BY <1>1, <1>a, <2>3
  <2> QED BY <2>1, <2>2, <2>4
<1> HIDE DEF rest, pc
<1>4. n \in LookupStates(U) /\ n.todo = rest /\ n.pc = pc
  BY <1>1, <1>2, <1>3 DEF LookupStates
<1>5. NextCandidate(q) = n
  BY DEF NextCandidate, rest, pc
<1> HIDE DEF n
<1> QED BY <1>3, <1>4, <1>5 DEF NextStates

\* A request that goes on as it is, except for its place.
LEMMA PlaceKeeps ==
    ASSUME NEW U, NEW q \in WaitingStates(U), NEW p \in LookupSteps \cup {"served", "refused"}
    PROVE  [q EXCEPT !.pc = p] \in NextStates(U)
<1>1. q \in LookupStates(U) /\ Len(q.todo) > 0
  BY LookupFields
<1> DEFINE n == [q EXCEPT !.pc = p]
<1>2. n \in LookupStates(U) /\ n.todo = q.todo
  BY <1>1 DEF LookupStates
<1> HIDE DEF n
<1>3. n \in NextStates(U)
  BY <1>1, <1>2 DEF NextStates
<1> QED BY <1>3 DEF n

LEMMA FoundKeeps ==
    ASSUME NEW U, NEW q \in WaitingStates(U), NEW s \in SessionStates
    PROVE  Found(q, s) \in NextStates(U)
<1>1. \A p \in LookupSteps \cup {"served", "refused"} : [q EXCEPT !.pc = p] \in NextStates(U)
  BY PlaceKeeps
<1>2. CASE ~q.first
  <2>1. Found(q, s) = [q EXCEPT !.pc = "touch"]
    BY <1>2 DEF Found
  <2>2. "touch" \in LookupSteps
    BY DEF LookupSteps
  <2> QED BY <1>1, <2>1, <2>2
<1>3. CASE q.first /\ s.source # q.via
  BY <1>3, NextCandidateKeeps DEF Found
<1>4. CASE q.first /\ s.source = q.via /\ ~Permitted(q, s)
  <2>1. Found(q, s) = [q EXCEPT !.pc = "refused"]
    BY <1>4 DEF Found
  <2> QED BY <1>1, <2>1
<1>5. CASE q.first /\ s.source = q.via /\ Permitted(q, s)
  <2> DEFINE p == CASE q.op = "logout" -> "delete"
                    [] q.op = "session" -> IF s.role = "viewer" THEN "key" ELSE "served"
                    [] OTHER -> "read"
             n == [q EXCEPT !.key = s.key, !.first = FALSE, !.pc = p]
  <2>1. Found(q, s) = n
    BY <1>5 DEF Found
  <2>2. p \in LookupSteps \cup {"served", "refused"}
    BY DEF LookupSteps
  <2>3. s.key \in SessionKeys \cup {"none"}
    BY DEF SessionStates
  <2>4. q \in LookupStates(U) /\ Len(q.todo) > 0
    BY LookupFields
  <2> HIDE DEF p
  <2>5. n \in LookupStates(U) /\ n.todo = q.todo
    BY <2>2, <2>3, <2>4 DEF LookupStates
  <2> HIDE DEF n
  <2> QED BY <2>1, <2>4, <2>5 DEF NextStates
<1> QED BY <1>2, <1>3, <1>4, <1>5

LEMMA MissingKeeps ==
    ASSUME NEW U, NEW q \in WaitingStates(U)
    PROVE  Missing(q) \in NextStates(U) /\ AfterTouch(q) \in NextStates(U)
<1>1. \A p \in LookupSteps \cup {"served", "refused"} : [q EXCEPT !.pc = p] \in NextStates(U)
  BY PlaceKeeps
<1>2. AfterTouch(q) \in NextStates(U)
  <2> DEFINE p == IF q.op = "viewer" THEN "key" ELSE "served"
  <2>1. p \in LookupSteps \cup {"served", "refused"}
    BY DEF LookupSteps
  <2>2. AfterTouch(q) = [q EXCEPT !.pc = p]
    BY DEF AfterTouch
  <2> HIDE DEF p
  <2> QED BY <1>1, <2>1, <2>2
<1>3. [q EXCEPT !.pc = "drop"] \in NextStates(U)
  BY <1>1 DEF LookupSteps
<1> QED BY <1>2, <1>3 DEF Missing

\* Go keeps the requests what they are.
LEMMA GoKeeps ==
    ASSUME NEW U, requests \in [Requests -> IdleStates \cup WaitingStates(U)],
           NEW r \in Requests, NEW state \in {Free} \cup NextStates(U), Go(r, state)
    PROVE  requests' \in [Requests -> IdleStates \cup WaitingStates(U)]
<1> DEFINE kept == IF state.pc \in {"served", "refused"} THEN [pc |-> state.pc] ELSE state
<1>1. kept \in IdleStates \cup WaitingStates(U)
  <2>1. CASE state = Free
    BY <2>1 DEF Free, IdleStates
  <2>2. CASE state \in NextStates(U)
    <3>1. CASE state.pc \in {"served", "refused"}
      BY <3>1 DEF IdleStates
    <3>2. CASE state.pc \notin {"served", "refused"}
      <4>1. state \in LookupStates(U) /\ (state.pc \in LookupSteps => Len(state.todo) > 0)
        BY <2>2 DEF NextStates
      <4>2. state.pc \in LookupSteps
        BY <3>2, <4>1 DEF LookupStates
      <4>3. state \in WaitingStates(U)
        BY <4>1, <4>2 DEF WaitingStates
      <4> QED BY <3>2, <4>3
    <3> QED BY <3>1, <3>2
  <2> QED BY <2>1, <2>2
<1>2. requests' = [requests EXCEPT ![r] = kept]
  BY DEF Go
<1> HIDE DEF kept
<1> QED BY <1>1, <1>2

\* Who looks up waits, with a token that was handed out.
LEMMA WaitingToken ==
    ASSUME RequestsTyped, NEW r \in Requests, requests[r].pc \in LookupSteps
    PROVE  requests[r] \in WaitingStates(usedTokens) /\ Token(r) \in usedTokens
<1>1. requests[r] \in IdleStates \cup WaitingStates(usedTokens)
  BY DEF RequestsTyped
<1>2. requests[r] \notin IdleStates
  BY DEF IdleStates, Free, LookupSteps
<1>3. requests[r] \in WaitingStates(usedTokens)
  BY <1>1, <1>2
<1> QED BY <1>3, LookupFields DEF Token

LEMMA TokensGrow ==
    ASSUME NEW U, NEW V, U \subseteq V
    PROVE  WaitingStates(U) \subseteq WaitingStates(V)
<1> SUFFICES ASSUME NEW q \in WaitingStates(U) PROVE q \in WaitingStates(V)
    OBVIOUS
<1>1. q \in LookupStates(U) /\ q.pc \in LookupSteps /\ Len(q.todo) > 0
  BY DEF WaitingStates
<1>2. q.todo \in Seq(V)
  <2>1. q.todo \in Seq(U)
    BY <1>1 DEF LookupStates
  <2> QED BY <2>1
<1>3. q \in LookupStates(V)
  BY <1>1, <1>2 DEF LookupStates
<1> QED BY <1>1, <1>3 DEF WaitingStates

-----------------------------------------------------------------------------
(* What the critical sections make of a session and its row                  *)

RowFits(s, a) == s # None => a # None /\ a = [s EXCEPT !.ip = a.ip, !.seen = a.seen]

SessionRows == SessionStates \cup {None}

LEMMA CachedFits == CachedIsStored <=> \A t \in Tokens : RowFits(sessions[t], authRows[t])
  BY DEF CachedIsStored, RowFits

LEMMA NoneIsNoSession == None \notin SessionStates
  BY DEF None, SessionStates

LEMMA FittingSessions ==
    ASSUME NEW s \in SessionRows, NEW a \in SessionRows, RowFits(s, a), s # None
    PROVE  /\ a \in SessionStates /\ s \in SessionStates
           /\ a.role = s.role /\ a.source = s.source /\ a.key = s.key /\ a.alias = s.alias
           /\ a.expires = s.expires
           /\ Live(s) <=> Live(a)
<1>1. s \in SessionStates /\ a \in SessionStates /\ a # None /\ a = [s EXCEPT !.ip = a.ip, !.seen = a.seen]
  BY DEF RowFits, SessionRows
<1>2. /\ a.role = s.role /\ a.source = s.source /\ a.key = s.key /\ a.alias = s.alias
      /\ a.expires = s.expires
  BY <1>1 DEF SessionStates
<1> QED BY <1>1, <1>2 DEF Live

LEMMA FitsIfSame ==
    ASSUME NEW s \in SessionStates, NEW a \in SessionStates, a # None,
           a.role = s.role, a.source = s.source, a.key = s.key, a.alias = s.alias,
           a.expires = s.expires
    PROVE  RowFits(s, a)
  BY DEF RowFits, SessionStates

\* A login is stored as it is; so is what is loaded from the table.
LEMMA SameFits == ASSUME NEW s \in SessionRows PROVE RowFits(s, s) /\ RowFits(None, s)
  BY FitsIfSame DEF SessionRows, RowFits

\* What is expired leaves both.
LEMMA CleanedFits ==
    ASSUME NEW s \in SessionRows, NEW a \in SessionRows, RowFits(s, a)
    PROVE  RowFits(IF Live(s) THEN s ELSE None, IF Live(a) THEN a ELSE None)
<1>1. CASE s = None
  BY <1>1 DEF RowFits, Live
<1>2. CASE s # None
  BY <1>2, FittingSessions DEF RowFits
<1> QED BY <1>1, <1>2

\* Activity is noted in memory before it is written to the table.
LEMMA NotedFits ==
    ASSUME NEW s \in SessionStates, NEW a \in SessionRows, RowFits(s, a), NEW ip \in SessionAddresses,
           NEW seen \in Int
    PROVE  /\ [s EXCEPT !.ip = ip, !.seen = seen] \in SessionStates
           /\ RowFits([s EXCEPT !.ip = ip, !.seen = seen], a)
<1>1. s \in SessionRows /\ s # None
  BY NoneIsNoSession DEF SessionRows
<1>2. /\ a \in SessionStates /\ a # None
      /\ a.role = s.role /\ a.source = s.source /\ a.key = s.key /\ a.alias = s.alias
      /\ a.expires = s.expires
  BY <1>1, FittingSessions, NoneIsNoSession
<1> DEFINE n == [s EXCEPT !.ip = ip, !.seen = seen]
<1>3. /\ n \in SessionStates /\ n.role = s.role /\ n.source = s.source /\ n.key = s.key
      /\ n.alias = s.alias /\ n.expires = s.expires
  BY DEF SessionStates
<1> HIDE DEF n
<1>4. RowFits(n, a)
  BY <1>2, <1>3, FitsIfSame
<1> QED BY <1>3, <1>4 DEF n

LEMMA WrittenFits ==
    ASSUME NEW s \in SessionRows, NEW a \in SessionStates, RowFits(s, a), NEW ip \in SessionAddresses,
           NEW seen \in Int
    PROVE  /\ [a EXCEPT !.seen = seen, !.ip = ip] \in SessionStates
           /\ RowFits(s, [a EXCEPT !.seen = seen, !.ip = ip])
<1> DEFINE n == [a EXCEPT !.seen = seen, !.ip = ip]
<1>1. a \in SessionRows
  BY DEF SessionRows
<1>3. /\ n \in SessionStates /\ n.role = a.role /\ n.source = a.source /\ n.key = a.key
      /\ n.alias = a.alias /\ n.expires = a.expires
  BY DEF SessionStates
<1> HIDE DEF n
<1>4. RowFits(s, n)
  <2>1. CASE s = None
    BY <2>1 DEF RowFits
  <2>2. CASE s # None
    <3>1. /\ s \in SessionStates
          /\ n.role = s.role /\ n.source = s.source /\ n.key = s.key /\ n.alias = s.alias
          /\ n.expires = s.expires
      BY <1>1, <1>3, <2>2, FittingSessions
    <3>2. n # None
      BY <1>3, NoneIsNoSession
    <3> QED BY <1>3, <3>1, <3>2, FitsIfSame
  <2> QED BY <2>1, <2>2
<1> QED BY <1>3, <1>4 DEF n

\* A name is given in both, or in the table alone when memory has nothing.
LEMMA NamedFits ==
    ASSUME NEW s \in SessionRows, NEW a \in SessionRows, RowFits(s, a), NEW row \in BOOLEAN, a # None => row
    PROVE  LET named(x) == IF x # None /\ row /\ x.role = "admin" THEN [x EXCEPT !.alias = "named"] ELSE x
           IN named(s) \in SessionRows /\ named(a) \in SessionRows /\ RowFits(named(s), named(a))
<1> DEFINE named(x) == IF x # None /\ row /\ x.role = "admin" THEN [x EXCEPT !.alias = "named"] ELSE x
<1>1. ASSUME NEW x \in SessionStates
      PROVE  LET n == [x EXCEPT !.alias = "named"] IN
             /\ n \in SessionStates /\ n.role = x.role /\ n.source = x.source /\ n.key = x.key
             /\ n.alias = "named" /\ n.expires = x.expires
  BY DEF SessionStates
<1>2. named(s) \in SessionRows /\ named(a) \in SessionRows
  BY <1>1 DEF SessionRows
<1>3. RowFits(named(s), named(a))
  <2>1. CASE s = None
    BY <2>1 DEF RowFits
  <2>2. CASE s # None
    <3>1. /\ a \in SessionStates /\ s \in SessionStates /\ a # None
          /\ a.role = s.role /\ a.source = s.source /\ a.key = s.key /\ a.alias = s.alias
          /\ a.expires = s.expires
      BY <2>2, FittingSessions, NoneIsNoSession
    <3> DEFINE n == [s EXCEPT !.alias = "named"]
               m == [a EXCEPT !.alias = "named"]
    <3>2. /\ n \in SessionStates /\ m \in SessionStates /\ m # None
          /\ m.role = n.role /\ m.source = n.source /\ m.key = n.key /\ m.alias = n.alias
          /\ m.expires = n.expires
      BY <1>1, <3>1, NoneIsNoSession
    <3> HIDE DEF n, m
    <3>3. RowFits(n, m)
      BY <3>2, FitsIfSame
    <3>4. CASE s.role = "admin"
      <4>1. named(s) = n /\ named(a) = m
        BY <2>2, <3>1, <3>4 DEF n, m
      <4> QED BY <3>3, <4>1
    <3>5. CASE s.role # "admin"
      BY <3>1, <3>5
    <3> QED BY <3>4, <3>5
  <2> QED BY <2>1, <2>2
<1> QED BY <1>2, <1>3

-----------------------------------------------------------------------------
(* The steps                                                                 *)

\* Deletions leave the cache first and are said to be done when the table agrees.
LEMMA DeletionKeeps ==
    ASSUME SessionsTyped, CachedIsStored, RevokedStaysRevoked, sessionClock' = sessionClock,
           NEW used, usedTokens' = used, usedTokens \subseteq used, used \subseteq Tokens,
           NEW t \in used, NEW stored \in BOOLEAN, Deletion({t}, stored)
    PROVE  SessionsTyped' /\ CachedIsStored' /\ RevokedStaysRevoked'
<1>1. /\ sessions' = [u \in Tokens |-> IF u = t THEN None ELSE sessions[u]]
      /\ authRows' = [u \in Tokens |-> IF u = t /\ stored THEN None ELSE authRows[u]]
      /\ revoked' = IF stored THEN revoked \cup {t} ELSE revoked
  BY DEF Deletion
<1>2. /\ sessions \in [Tokens -> SessionStates \cup {None}]
      /\ authRows \in [Tokens -> SessionStates \cup {None}]
      /\ sessionClock \in Int /\ revoked \subseteq usedTokens
  BY DEF SessionsTyped
<1>3. SessionsTyped'
  BY <1>1, <1>2 DEF SessionsTyped
<1>4. \A u \in Tokens : RowFits(sessions[u], authRows[u])
  BY CachedFits
<1>5. \A u \in Tokens : RowFits(sessions'[u], authRows'[u])
  <2> SUFFICES ASSUME NEW u \in Tokens PROVE RowFits(sessions'[u], authRows'[u])
      OBVIOUS
  <2>1. CASE u = t
    BY <1>1, <2>1 DEF RowFits
  <2>2. CASE u # t
    BY <1>1, <1>4, <2>2
  <2> QED BY <2>1, <2>2
<1>6. CachedIsStored'
  BY <1>5 DEF CachedIsStored, RowFits
<1>7. RevokedStaysRevoked'
  BY <1>1, <1>2 DEF RevokedStaysRevoked
<1> QED BY <1>3, <1>6, <1>7

LEMMA CleanedTables ==
    ASSUME SessionsTyped, CachedIsStored, RevokedStaysRevoked
    PROVE  /\ CleanedUp(sessions) \in [Tokens -> SessionRows] /\ CleanedUp(authRows) \in [Tokens -> SessionRows]
           /\ \A u \in Tokens : RowFits(CleanedUp(sessions)[u], CleanedUp(authRows)[u])
           /\ \A u \in revoked : CleanedUp(sessions)[u] = None /\ CleanedUp(authRows)[u] = None
<1>1. /\ sessions \in [Tokens -> SessionRows] /\ authRows \in [Tokens -> SessionRows] /\ revoked \subseteq Tokens
      /\ \A u \in revoked : sessions[u] = None /\ authRows[u] = None
  BY DEF SessionsTyped, SessionRows, RevokedStaysRevoked
<1>2. \A u \in Tokens : /\ CleanedUp(sessions)[u] = IF Live(sessions[u]) THEN sessions[u] ELSE None
                       /\ CleanedUp(authRows)[u] = IF Live(authRows[u]) THEN authRows[u] ELSE None
  BY DEF CleanedUp
<1>3. \A u \in Tokens : RowFits(sessions[u], authRows[u])
  BY CachedFits
<1>4. None \in SessionRows
  BY DEF SessionRows
<1>5. CleanedUp(sessions) \in [Tokens -> SessionRows] /\ CleanedUp(authRows) \in [Tokens -> SessionRows]
  BY <1>1, <1>4 DEF CleanedUp
<1>6. \A u \in Tokens : RowFits(CleanedUp(sessions)[u], CleanedUp(authRows)[u])
  <2> SUFFICES ASSUME NEW u \in Tokens PROVE RowFits(CleanedUp(sessions)[u], CleanedUp(authRows)[u])
      OBVIOUS
  <2>1. RowFits(IF Live(sessions[u]) THEN sessions[u] ELSE None, IF Live(authRows[u]) THEN authRows[u] ELSE None)
    BY <1>1, <1>3, CleanedFits
  <2> QED BY <1>2, <2>1
<1> QED BY <1>1, <1>2, <1>5, <1>6

\* What becomes of the tables when a token is set in both.
LEMMA SettingKeeps ==
    ASSUME SessionsTyped, NEW x \in [Tokens -> SessionRows], NEW y \in [Tokens -> SessionRows],
           \A u \in Tokens : RowFits(x[u], y[u]), \A u \in revoked' : x[u] = None /\ y[u] = None,
           sessions' = x, authRows' = y, sessionClock' \in Int,
           usedTokens' \subseteq Tokens, revoked' \subseteq usedTokens'
    PROVE  SessionsTyped' /\ CachedIsStored' /\ RevokedStaysRevoked'
<1>1. SessionsTyped'
  BY DEF SessionsTyped, SessionRows
<1>2. CachedIsStored'
  BY DEF CachedIsStored, RowFits
<1>3. RevokedStaysRevoked'
  BY DEF RevokedStaysRevoked
<1> QED BY <1>1, <1>2, <1>3

LEMMA LoginKeeps == SessionsInv /\ Login => SessionsInv'
<1> SUFFICES ASSUME SessionsInv, Login PROVE SessionsInv'
    OBVIOUS
<1>1. PICK t \in Tokens \ usedTokens : \E l \in Logins :
        /\ Create(t, [role |-> IF l.key = "admin" THEN "admin" ELSE "viewer",
                      source |-> l.via, key |-> l.key, alias |-> "", ip |-> l.ip,
                      seen |-> sessionClock, expires |-> sessionClock + SessionTTL])
        /\ usedTokens' = usedTokens \cup {t}
        /\ UNCHANGED <<pendingActivity, writerVars, requests, activeKeys, sessionClock, revoked>>
  BY DEF Login
<1>2. PICK l \in Logins :
        /\ Create(t, [role |-> IF l.key = "admin" THEN "admin" ELSE "viewer",
                      source |-> l.via, key |-> l.key, alias |-> "", ip |-> l.ip,
                      seen |-> sessionClock, expires |-> sessionClock + SessionTTL])
        /\ usedTokens' = usedTokens \cup {t}
        /\ UNCHANGED <<pendingActivity, writerVars, requests, activeKeys, sessionClock, revoked>>
  BY <1>1
<1> DEFINE s == [role |-> IF l.key = "admin" THEN "admin" ELSE "viewer",
                 source |-> l.via, key |-> l.key, alias |-> "", ip |-> l.ip,
                 seen |-> sessionClock, expires |-> sessionClock + SessionTTL]
<1>3. /\ SessionsTyped /\ CachedIsStored /\ RevokedStaysRevoked /\ sessionClock \in Int
      /\ usedTokens \subseteq Tokens /\ revoked \subseteq usedTokens
  BY DEF SessionsInv, SessionsTyped
<1>4. s \in SessionStates
  BY <1>3, SessionsAssumption DEF SessionStates, SessionKeys, SessionAddresses
<1> HIDE DEF s
<1>5. PICK saved \in BOOLEAN :
        /\ authRows' = [CleanedUp(authRows) EXCEPT ![t] = IF saved THEN s ELSE None]
        /\ sessions' = [CleanedUp(sessions) EXCEPT ![t] = IF saved THEN s ELSE None]
  BY <1>2 DEF Create, s
<1> DEFINE new == IF saved THEN s ELSE None
<1>6. new \in SessionRows /\ RowFits(new, new)
  BY <1>4, SameFits DEF SessionRows
<1> HIDE DEF new
<1>7. SessionsTyped' /\ CachedIsStored' /\ RevokedStaysRevoked'
  <2>1. /\ CleanedUp(sessions) \in [Tokens -> SessionRows] /\ CleanedUp(authRows) \in [Tokens -> SessionRows]
        /\ \A u \in Tokens : RowFits(CleanedUp(sessions)[u], CleanedUp(authRows)[u])
        /\ \A u \in revoked : CleanedUp(sessions)[u] = None /\ CleanedUp(authRows)[u] = None
    BY <1>3, CleanedTables
  <2>2. /\ authRows' = [CleanedUp(authRows) EXCEPT ![t] = new]
        /\ sessions' = [CleanedUp(sessions) EXCEPT ![t] = new]
    BY <1>5 DEF new
  <2> HIDE DEF CleanedUp
  <2>3. sessions' \in [Tokens -> SessionRows] /\ authRows' \in [Tokens -> SessionRows]
    BY <1>6, <2>1, <2>2
  <2>4. \A u \in Tokens : RowFits(sessions'[u], authRows'[u])
    BY <1>6, <2>1, <2>2
  <2>5. t \notin revoked /\ revoked' = revoked /\ sessionClock' \in Int
    BY <1>2, <1>3
  <2>6. \A u \in revoked' : sessions'[u] = None /\ authRows'[u] = None
    BY <1>3, <2>1, <2>2, <2>5
  <2>7. usedTokens' \subseteq Tokens /\ revoked' \subseteq usedTokens'
    BY <1>2, <1>3, <2>5
  <2> QED BY <1>3, <2>3, <2>4, <2>5, <2>6, <2>7, SettingKeeps
<1>8. RequestsTyped'
  <2>1. WaitingStates(usedTokens) \subseteq WaitingStates(usedTokens')
    BY <1>2, TokensGrow
  <2> QED BY <1>2, <2>1 DEF SessionsInv, RequestsTyped
<1>9. WritersTyped' /\ OneWriterWhileActivityWaits'
  BY <1>2 DEF SessionsInv, WritersTyped, OneWriterWhileActivityWaits, writerVars
<1> QED BY <1>7, <1>8, <1>9 DEF SessionsInv

LEMMA ListSessionsKeeps == SessionsInv /\ ListSessions => SessionsInv'
<1> SUFFICES ASSUME SessionsInv, ListSessions PROVE SessionsInv'
    OBVIOUS
<1>1. /\ sessions' = CleanedUp(sessions) /\ authRows' = CleanedUp(authRows)
      /\ UNCHANGED <<pendingActivity, writerVars, requests, sessionClock, historyVars>>
  BY DEF ListSessions, Cleanup
<1>2. SessionsTyped' /\ CachedIsStored' /\ RevokedStaysRevoked'
  <2>1. /\ SessionsTyped /\ CachedIsStored /\ RevokedStaysRevoked
        /\ sessionClock' \in Int /\ revoked' = revoked
        /\ usedTokens' \subseteq Tokens /\ revoked' \subseteq usedTokens'
    BY <1>1 DEF SessionsInv, SessionsTyped, historyVars
  <2> QED BY <1>1, <2>1, CleanedTables, SettingKeeps
<1>3. RequestsTyped' /\ WritersTyped' /\ OneWriterWhileActivityWaits'
  BY <1>1 DEF SessionsInv, RequestsTyped, WritersTyped, OneWriterWhileActivityWaits, writerVars, historyVars
<1> QED BY <1>2, <1>3 DEF SessionsInv

LEMMA UpdateAliasKeeps == SessionsInv /\ UpdateAdminAlias => SessionsInv'
<1> SUFFICES ASSUME SessionsInv, UpdateAdminAlias PROVE SessionsInv'
    OBVIOUS
<1> DEFINE x == CleanedUp(sessions)
           y == CleanedUp(authRows)
           Named(row, z) == IF z # None /\ row /\ z.role = "admin" THEN [z EXCEPT !.alias = "named"] ELSE z
<1>1. PICK t \in Tokens :
        /\ authRows' = [y EXCEPT ![t] = Named(y[t] # None, y[t])]
        /\ sessions' = [x EXCEPT ![t] = Named(y[t] # None, x[t])]
        /\ UNCHANGED <<pendingActivity, writerVars, requests, sessionClock, historyVars>>
  BY DEF UpdateAdminAlias
<1>2. /\ SessionsTyped /\ CachedIsStored /\ RevokedStaysRevoked
      /\ sessionClock' \in Int /\ revoked' = revoked /\ revoked \subseteq Tokens
      /\ usedTokens' \subseteq Tokens /\ revoked' \subseteq usedTokens'
  BY <1>1 DEF SessionsInv, SessionsTyped, historyVars
<1>3. /\ x \in [Tokens -> SessionRows] /\ y \in [Tokens -> SessionRows]
      /\ \A u \in Tokens : RowFits(x[u], y[u])
      /\ \A u \in revoked : x[u] = None /\ y[u] = None
  BY <1>2, CleanedTables
<1> HIDE DEF x, y
<1> DEFINE row == y[t] # None
           a == Named(row, y[t])
           s == Named(row, x[t])
<1>4. s \in SessionRows /\ a \in SessionRows /\ RowFits(s, a)
  <2>1. x[t] \in SessionRows /\ y[t] \in SessionRows /\ RowFits(x[t], y[t]) /\ row \in BOOLEAN /\ (y[t] # None => row)
    BY <1>3
  <2> HIDE DEF row
  <2> QED BY <2>1, NamedFits
<1>5. (x[t] = None => s = None) /\ (y[t] = None => a = None)
  BY Zenon
<1>6. authRows' = [y EXCEPT ![t] = a] /\ sessions' = [x EXCEPT ![t] = s]
  BY <1>1, Zenon
<1> HIDE DEF s, a
<1>7. sessions' \in [Tokens -> SessionRows] /\ authRows' \in [Tokens -> SessionRows]
  BY <1>3, <1>4, <1>6
<1>8. \A u \in Tokens : RowFits(sessions'[u], authRows'[u])
  BY <1>3, <1>4, <1>6
<1>9. \A u \in revoked' : sessions'[u] = None /\ authRows'[u] = None
  BY <1>2, <1>3, <1>5, <1>6
<1>10. SessionsTyped' /\ CachedIsStored' /\ RevokedStaysRevoked'
  BY <1>2, <1>7, <1>8, <1>9, SettingKeeps
<1>11. RequestsTyped' /\ WritersTyped' /\ OneWriterWhileActivityWaits'
  BY <1>1 DEF SessionsInv, RequestsTyped, WritersTyped, OneWriterWhileActivityWaits, writerVars, historyVars
<1> QED BY <1>10, <1>11 DEF SessionsInv

LEMMA RevokeKeeps == SessionsInv /\ Revoke => SessionsInv'
<1> SUFFICES ASSUME SessionsInv, Revoke PROVE SessionsInv'
    OBVIOUS
<1> DEFINE x == CleanedUp(sessions)
           y == CleanedUp(authRows)
<1>1. PICK t \in usedTokens : \E stored \in BOOLEAN :
        /\ sessions' = [x EXCEPT ![t] = None]
        /\ authRows' = [y EXCEPT ![t] = IF stored THEN None ELSE @]
        /\ revoked' = IF stored THEN revoked \cup {t} ELSE revoked
        /\ UNCHANGED <<pendingActivity, writerVars, requests, sessionClock, usedTokens>>
  BY DEF Revoke
<1>2. PICK stored \in BOOLEAN :
        /\ sessions' = [x EXCEPT ![t] = None]
        /\ authRows' = [y EXCEPT ![t] = IF stored THEN None ELSE @]
        /\ revoked' = IF stored THEN revoked \cup {t} ELSE revoked
        /\ UNCHANGED <<pendingActivity, writerVars, requests, sessionClock, usedTokens>>
  BY <1>1
<1>3. /\ SessionsTyped /\ CachedIsStored /\ RevokedStaysRevoked
      /\ sessionClock' \in Int /\ revoked \subseteq usedTokens
      /\ usedTokens' \subseteq Tokens /\ usedTokens' = usedTokens
  BY <1>2 DEF SessionsInv, SessionsTyped
<1>4. /\ x \in [Tokens -> SessionRows] /\ y \in [Tokens -> SessionRows]
      /\ \A u \in Tokens : RowFits(x[u], y[u])
      /\ \A u \in revoked : x[u] = None /\ y[u] = None
  BY <1>3, CleanedTables
<1> HIDE DEF x, y
<1> DEFINE a == IF stored THEN None ELSE y[t]
<1>5. t \in Tokens /\ a \in SessionRows /\ RowFits(None, a) /\ None \in SessionRows
  BY <1>3, <1>4 DEF SessionRows, RowFits
<1>6. authRows' = [y EXCEPT ![t] = a] /\ sessions' = [x EXCEPT ![t] = None]
  BY <1>2
<1>7. (stored \/ y[t] = None) => a = None
  BY Zenon
<1> HIDE DEF a
<1>8. sessions' \in [Tokens -> SessionRows] /\ authRows' \in [Tokens -> SessionRows]
  BY <1>4, <1>5, <1>6
<1>9. \A u \in Tokens : RowFits(sessions'[u], authRows'[u])
  BY <1>4, <1>5, <1>6
<1>10. /\ \A u \in revoked' : sessions'[u] = None /\ authRows'[u] = None
       /\ revoked' \subseteq usedTokens'
  BY <1>2, <1>3, <1>4, <1>5, <1>6, <1>7
<1>11. SessionsTyped' /\ CachedIsStored' /\ RevokedStaysRevoked'
  BY <1>3, <1>8, <1>9, <1>10, SettingKeeps
<1>12. RequestsTyped' /\ WritersTyped' /\ OneWriterWhileActivityWaits'
  BY <1>2 DEF SessionsInv, RequestsTyped, WritersTyped, OneWriterWhileActivityWaits, writerVars
<1> QED BY <1>11, <1>12 DEF SessionsInv

\* A step of a request that only goes on.
LEMMA GoingKeeps ==
    ASSUME SessionsInv, NEW r \in Requests, NEW state \in {Free} \cup NextStates(usedTokens),
           Go(r, state), UNCHANGED <<lockedVars, writerVars, sessionClock, historyVars>>
    PROVE  SessionsInv'
<1>1. RequestsTyped'
  BY GoKeeps DEF SessionsInv, RequestsTyped, historyVars
<1>2. SessionsTyped' /\ CachedIsStored' /\ RevokedStaysRevoked'
  BY DEF SessionsInv, SessionsTyped, CachedIsStored, RevokedStaysRevoked, lockedVars, historyVars
<1>3. WritersTyped' /\ OneWriterWhileActivityWaits'
  BY DEF SessionsInv, WritersTyped, OneWriterWhileActivityWaits, writerVars, lockedVars
<1> QED BY <1>1, <1>2, <1>3 DEF SessionsInv

\* One that deletes the session it found.
LEMMA DeletingKeeps ==
    ASSUME SessionsInv, NEW r \in Requests, NEW t \in usedTokens, NEW stored \in BOOLEAN,
           Deletion({t}, stored), NEW state \in {Free} \cup NextStates(usedTokens), Go(r, state),
           UNCHANGED <<pendingActivity, writerVars, sessionClock, usedTokens>>
    PROVE  SessionsInv'
<1>1. RequestsTyped'
  BY GoKeeps DEF SessionsInv, RequestsTyped
<1>2. SessionsTyped' /\ CachedIsStored' /\ RevokedStaysRevoked'
  BY DeletionKeeps DEF SessionsInv, SessionsTyped
<1>3. WritersTyped' /\ OneWriterWhileActivityWaits'
  BY DEF SessionsInv, WritersTyped, OneWriterWhileActivityWaits, writerVars
<1> QED BY <1>1, <1>2, <1>3 DEF SessionsInv

LEMMA ArriveKeeps == ASSUME SessionsInv, NEW r \in Requests, Arrive(r) PROVE SessionsInv'
<1>1. PICK a \in Arrivals :
        /\ \A i \in DOMAIN a.tokens : a.tokens[i] \in usedTokens
        /\ Go(r, [pc |-> IF a.tokens = <<>> THEN "refused" ELSE "read", todo |-> a.tokens,
               via |-> a.via, op |-> a.op, ip |-> a.ip, first |-> TRUE, key |-> "none"])
  BY DEF Arrive
<1> DEFINE p == IF a.tokens = <<>> THEN "refused" ELSE "read"
           q == [pc |-> p, todo |-> a.tokens,
                 via |-> a.via, op |-> a.op, ip |-> a.ip, first |-> TRUE, key |-> "none"]
<1>2. a.tokens \in Seq(usedTokens)
  BY <1>1, SessionsAssumption
<1>3. p \in LookupSteps \cup {"served", "refused"} /\ (p \in LookupSteps => Len(a.tokens) > 0)
  <2>1. CASE a.tokens = <<>>
    BY <2>1 DEF LookupSteps
  <2>2. CASE a.tokens # <<>>
    <3>1. Len(a.tokens) > 0
      BY <1>2, <2>2
    <3> QED BY <2>2, <3>1 DEF LookupSteps
  <2> QED BY <2>1, <2>2
<1> HIDE DEF p
<1>4. q \in LookupStates(usedTokens) /\ q.todo = a.tokens /\ q.pc = p
  BY <1>2, <1>3 DEF LookupStates, SessionAddresses
<1>5. q \in NextStates(usedTokens)
  <2> HIDE DEF q
  <2> QED BY <1>3, <1>4 DEF NextStates
<1>6. Go(r, q)
  BY <1>1 DEF p
<1>7. UNCHANGED <<lockedVars, writerVars, sessionClock, historyVars>>
  BY DEF Arrive
<1> HIDE DEF q
<1> QED BY <1>5, <1>6, <1>7, GoingKeeps

LEMMA ReadCacheKeeps == ASSUME SessionsInv, NEW r \in Requests, ReadCache(r) PROVE SessionsInv'
<1> DEFINE q == requests[r]
           s == sessions[Token(r)]
           state == IF s = None THEN [q EXCEPT !.pc = "load"]
                    ELSE IF ~Live(s) THEN [q EXCEPT !.pc = "expired"] ELSE Found(q, s)
<1>1. requests[r].pc \in LookupSteps
  BY DEF ReadCache, At, LookupSteps
<1>2. q \in WaitingStates(usedTokens) /\ Token(r) \in usedTokens
  BY <1>1, WaitingToken DEF SessionsInv
<1>3. s = None \/ s \in SessionStates
  BY <1>2 DEF SessionsInv, SessionsTyped
<1>4. /\ Go(r, state) /\ UNCHANGED <<lockedVars, writerVars, sessionClock, historyVars>>
  BY DEF ReadCache
<1> HIDE DEF q, s
<1>5. /\ [q EXCEPT !.pc = "load"] \in NextStates(usedTokens)
      /\ [q EXCEPT !.pc = "expired"] \in NextStates(usedTokens)
  <2>1. \A p \in LookupSteps \cup {"served", "refused"} : [q EXCEPT !.pc = p] \in NextStates(usedTokens)
    BY <1>2, PlaceKeeps
  <2> QED BY <2>1 DEF LookupSteps
<1>6. s \in SessionStates => Found(q, s) \in NextStates(usedTokens)
  BY <1>2, FoundKeeps
<1>7. state \in NextStates(usedTokens)
  BY <1>3, <1>5, <1>6, Zenon
<1> HIDE DEF state
<1> QED BY <1>4, <1>7, GoingKeeps

LEMMA DeleteExpiredKeeps == ASSUME SessionsInv, NEW r \in Requests, DeleteExpired(r) PROVE SessionsInv'
<1>1. requests[r].pc \in LookupSteps
  BY DEF DeleteExpired, At, LookupSteps
<1>2. requests[r] \in WaitingStates(usedTokens) /\ Token(r) \in usedTokens
  BY <1>1, WaitingToken DEF SessionsInv
<1>3. PICK stored \in BOOLEAN :
        Deletion({Token(r)}, stored) /\ Go(r, IF stored THEN Missing(requests[r]) ELSE Free)
  BY DEF DeleteExpired
<1> DEFINE state == IF stored THEN Missing(requests[r]) ELSE Free
<1>4. state \in {Free} \cup NextStates(usedTokens)
  BY <1>2, MissingKeeps
<1>5. UNCHANGED <<pendingActivity, writerVars, sessionClock, usedTokens>>
  BY DEF DeleteExpired
<1>6. Go(r, state) /\ Deletion({Token(r)}, stored)
  BY <1>3
<1> HIDE DEF state
<1> QED BY <1>2, <1>4, <1>5, <1>6, DeletingKeeps

\* What is loaded is what memory or the table has, so nothing that is revoked.
LEMMA LoadKeeps == ASSUME SessionsInv, NEW r \in Requests, Load(r) PROVE SessionsInv'
<1> DEFINE q == requests[r]
           t == Token(r)
           s == IF sessions[t] # None THEN sessions[t] ELSE authRows[t]
<1>1. requests[r].pc \in LookupSteps
  BY DEF Load, At, LookupSteps
<1>2. q \in WaitingStates(usedTokens) /\ t \in usedTokens
  BY <1>1, WaitingToken DEF SessionsInv
<1>3. /\ SessionsTyped /\ CachedIsStored /\ RevokedStaysRevoked
      /\ sessions \in [Tokens -> SessionRows] /\ authRows \in [Tokens -> SessionRows] /\ t \in Tokens
      /\ sessionClock \in Int /\ usedTokens \subseteq Tokens /\ revoked \subseteq usedTokens
      /\ \A u \in Tokens : RowFits(sessions[u], authRows[u])
  BY <1>2, CachedFits DEF SessionsInv, SessionsTyped, SessionRows
<1>4. UNCHANGED <<pendingActivity, writerVars, sessionClock, usedTokens>>
  BY DEF Load
<1>5. CASE Live(s) /\ sessions' = [sessions EXCEPT ![t] = s] /\ Go(r, Found(q, s))
             /\ UNCHANGED <<authRows, revoked>>
  <2>1. s \in SessionStates /\ RowFits(s, authRows[t]) /\ t \notin revoked
    <3>1. CASE sessions[t] # None
      BY <1>3, <3>1 DEF RevokedStaysRevoked, SessionRows
    <3>2. CASE sessions[t] = None
      <4>1. s = authRows[t] /\ authRows[t] # None
        BY <1>5, <3>2 DEF Live
      <4>2. RowFits(authRows[t], authRows[t])
        BY <1>3, SameFits
      <4> QED BY <1>3, <4>1, <4>2 DEF RevokedStaysRevoked, SessionRows
    <3> QED BY <3>1, <3>2
  <2> HIDE DEF s, t, q
  <2>2. sessions' \in [Tokens -> SessionRows] /\ authRows' \in [Tokens -> SessionRows]
    BY <1>3, <1>5, <2>1 DEF SessionRows
  <2>3. \A u \in Tokens : RowFits(sessions'[u], authRows'[u])
    BY <1>3, <1>5, <2>1
  <2>4. \A u \in revoked' : sessions'[u] = None /\ authRows'[u] = None
    BY <1>3, <1>5, <2>1 DEF RevokedStaysRevoked
  <2>5. sessionClock' \in Int /\ usedTokens' \subseteq Tokens /\ revoked' \subseteq usedTokens'
    BY <1>3, <1>4, <1>5
  <2>6. SessionsTyped' /\ CachedIsStored' /\ RevokedStaysRevoked'
    BY <1>3, <2>2, <2>3, <2>4, <2>5, SettingKeeps
  <2>7. Found(q, s) \in NextStates(usedTokens)
    BY <1>2, <2>1, FoundKeeps
  <2>8. RequestsTyped'
    <3> DEFINE state == Found(q, s)
    <3>1. state \in {Free} \cup NextStates(usedTokens) /\ Go(r, state)
      BY <1>5, <2>7
    <3>2. requests \in [Requests -> IdleStates \cup WaitingStates(usedTokens)] /\ usedTokens' = usedTokens
      BY <1>4 DEF SessionsInv, RequestsTyped
    <3> HIDE DEF state
    <3>3. requests' \in [Requests -> IdleStates \cup WaitingStates(usedTokens)]
      BY <3>1, <3>2, GoKeeps
    <3> QED BY <3>2, <3>3 DEF RequestsTyped
  <2>9. WritersTyped' /\ OneWriterWhileActivityWaits'
    BY <1>4 DEF SessionsInv, WritersTyped, OneWriterWhileActivityWaits, writerVars
  <2> QED BY <2>6, <2>8, <2>9 DEF SessionsInv
<1>6. ASSUME NEW stored \in BOOLEAN, Deletion({t}, stored), Go(r, IF stored THEN Missing(q) ELSE Free)
      PROVE  SessionsInv'
  <2> DEFINE state == IF stored THEN Missing(q) ELSE Free
  <2>1. state \in {Free} \cup NextStates(usedTokens)
    BY <1>2, MissingKeeps
  <2>2. Go(r, state)
    BY <1>6
  <2> HIDE DEF state, t, q
  <2> QED BY <1>2, <1>4, <1>6, <2>1, <2>2, DeletingKeeps
<1>7. CASE Go(r, Missing(q)) /\ UNCHANGED <<sessions, authRows, revoked>>
  <2>1. Missing(q) \in NextStates(usedTokens)
    BY <1>2, MissingKeeps
  <2>2. UNCHANGED <<lockedVars, writerVars, sessionClock, historyVars>>
    BY <1>4, <1>7 DEF lockedVars, historyVars
  <2> QED BY <1>7, <2>1, <2>2, GoingKeeps
<1>8. \/ Live(s) /\ sessions' = [sessions EXCEPT ![t] = s] /\ Go(r, Found(q, s))
            /\ UNCHANGED <<authRows, revoked>>
      \/ \E stored \in BOOLEAN : Deletion({t}, stored) /\ Go(r, IF stored THEN Missing(q) ELSE Free)
      \/ Go(r, Missing(q)) /\ UNCHANGED <<sessions, authRows, revoked>>
  <2> USE DEF Load
  <2> QED BY Zenon
<1> HIDE DEF q, t, s
<1> QED BY <1>5, <1>6, <1>7, <1>8

LEMMA DropKeeps == ASSUME SessionsInv, NEW r \in Requests, Drop(r) PROVE SessionsInv'
<1>1. requests[r].pc \in LookupSteps
  BY DEF Drop, At, LookupSteps
<1>2. requests[r] \in WaitingStates(usedTokens) /\ Token(r) \in usedTokens
  BY <1>1, WaitingToken DEF SessionsInv
<1>3. PICK stored \in BOOLEAN :
        Deletion({Token(r)}, stored) /\ Go(r, IF stored THEN NextCandidate(requests[r]) ELSE Free)
  BY DEF Drop
<1> DEFINE state == IF stored THEN NextCandidate(requests[r]) ELSE Free
<1>4. state \in {Free} \cup NextStates(usedTokens)
  BY <1>2, NextCandidateKeeps
<1>5. UNCHANGED <<pendingActivity, writerVars, sessionClock, usedTokens>>
  BY DEF Drop
<1>6. Go(r, state) /\ Deletion({Token(r)}, stored)
  BY <1>3
<1> HIDE DEF state
<1> QED BY <1>2, <1>4, <1>5, <1>6, DeletingKeeps

\* Activity is noted only for a session that memory still has, and a writer is started for it.
LEMMA TouchKeeps == ASSUME SessionsInv, NEW r \in Requests, Touch(r) PROVE SessionsInv'
<1> DEFINE q == requests[r]
           t == Token(r)
           s == sessions[t]
<1>1. requests[r].pc \in LookupSteps
  BY DEF Touch, At, LookupSteps
<1>2. q \in WaitingStates(usedTokens) /\ t \in usedTokens
  BY <1>1, WaitingToken DEF SessionsInv
<1>3. /\ SessionsTyped /\ CachedIsStored /\ RevokedStaysRevoked
      /\ sessions \in [Tokens -> SessionRows] /\ authRows \in [Tokens -> SessionRows] /\ t \in Tokens
      /\ sessionClock \in Int /\ usedTokens \subseteq Tokens /\ revoked \subseteq usedTokens
      /\ \A u \in Tokens : RowFits(sessions[u], authRows[u])
  BY <1>2, CachedFits DEF SessionsInv, SessionsTyped, SessionRows
<1>4. UNCHANGED <<authRows, activityInFlight, sessionClock, historyVars>> /\ Go(r, AfterTouch(q))
  BY DEF Touch
<1>5. AfterTouch(q) \in NextStates(usedTokens)
  BY <1>2, MissingKeeps
<1>6. RequestsTyped'
  <2> DEFINE state == AfterTouch(q)
  <2>1. state \in {Free} \cup NextStates(usedTokens) /\ Go(r, state)
    BY <1>4, <1>5
  <2>2. requests \in [Requests -> IdleStates \cup WaitingStates(usedTokens)] /\ usedTokens' = usedTokens
    BY <1>4 DEF SessionsInv, RequestsTyped, historyVars
  <2> HIDE DEF state
  <2>3. requests' \in [Requests -> IdleStates \cup WaitingStates(usedTokens)]
    BY <2>1, <2>2, GoKeeps
  <2> QED BY <2>2, <2>3 DEF RequestsTyped
<1>7. CASE UNCHANGED <<sessions, pendingActivity, activityWriters>>
  <2>1. SessionsTyped' /\ CachedIsStored' /\ RevokedStaysRevoked'
    BY <1>3, <1>4, <1>7 DEF SessionsTyped, CachedIsStored, RevokedStaysRevoked, historyVars
  <2>2. WritersTyped' /\ OneWriterWhileActivityWaits'
    BY <1>4, <1>7 DEF SessionsInv, WritersTyped, OneWriterWhileActivityWaits
  <2> QED BY <1>6, <2>1, <2>2 DEF SessionsInv
<1>8. CASE /\ Live(s)
           /\ sessions' = [sessions EXCEPT ![t] = Noted(@, q.ip)]
           /\ pendingActivity' = [pendingActivity EXCEPT ![t] = [seen |-> sessionClock, ip |-> q.ip]]
           /\ activityWriters' = IF activityWriters = 0 THEN 1 ELSE activityWriters
  <2>1. q.ip \in SessionAddresses
    BY <1>2, LookupFields
  <2>2. s \in SessionStates /\ s # None /\ t \notin revoked
    BY <1>3, <1>8 DEF Live, SessionRows, RevokedStaysRevoked
  <2>3. authRows[t] \in SessionRows /\ RowFits(s, authRows[t])
    BY <1>3
  <2> DEFINE n == Noted(s, q.ip)
  <2>4. n \in SessionStates /\ RowFits(n, authRows[t])
    <3>1. /\ [s EXCEPT !.ip = q.ip, !.seen = sessionClock] \in SessionStates
          /\ RowFits([s EXCEPT !.ip = q.ip, !.seen = sessionClock], authRows[t])
      <4> HIDE DEF s, t, q
      <4> QED BY <1>3, <2>1, <2>2, <2>3, NotedFits
    <3> QED BY <3>1 DEF Noted
  <2>5. sessions' = [sessions EXCEPT ![t] = n]
    BY <1>8
  <2> HIDE DEF n, t, q, s
  <2>6. sessions' \in [Tokens -> SessionRows] /\ authRows' \in [Tokens -> SessionRows]
    BY <1>3, <1>4, <2>4, <2>5 DEF SessionRows
  <2>7. \A u \in Tokens : RowFits(sessions'[u], authRows'[u])
    BY <1>3, <1>4, <2>4, <2>5
  <2>8. \A u \in revoked' : sessions'[u] = None /\ authRows'[u] = None
    BY <1>3, <1>4, <2>2, <2>5 DEF RevokedStaysRevoked, historyVars
  <2>9. sessionClock' \in Int /\ usedTokens' \subseteq Tokens /\ revoked' \subseteq usedTokens'
    BY <1>3, <1>4 DEF historyVars
  <2>10. SessionsTyped' /\ CachedIsStored' /\ RevokedStaysRevoked'
    BY <1>3, <2>6, <2>7, <2>8, <2>9, SettingKeeps
  <2>11. activityWriters' = 1
    BY <1>8 DEF SessionsInv, WritersTyped
  <2>12. WritersTyped' /\ OneWriterWhileActivityWaits'
    <3> DEFINE p == [seen |-> sessionClock, ip |-> q.ip]
    <3>1. p.seen \in Int /\ p.ip \in SessionAddresses
      BY <1>3, <2>1
    <3>2. pendingActivity' = [pendingActivity EXCEPT ![t] = p]
      BY <1>8
    <3> HIDE DEF p
    <3>3. WritersTyped'
      BY <1>4, <2>11, <3>1, <3>2 DEF SessionsInv, WritersTyped
    <3> QED BY <2>11, <3>3 DEF OneWriterWhileActivityWaits
  <2> QED BY <1>6, <2>10, <2>12 DEF SessionsInv
<1>9. \/ UNCHANGED <<sessions, pendingActivity, activityWriters>>
      \/ /\ Live(s)
         /\ sessions' = [sessions EXCEPT ![t] = Noted(@, q.ip)]
         /\ pendingActivity' = [pendingActivity EXCEPT ![t] = [seen |-> sessionClock, ip |-> q.ip]]
         /\ activityWriters' = IF activityWriters = 0 THEN 1 ELSE activityWriters
  BY Zenon DEF Touch
<1> HIDE DEF q, t, s
<1> QED BY <1>7, <1>8, <1>9

LEMMA CheckKeyKeeps == ASSUME SessionsInv, NEW r \in Requests, CheckKey(r) PROVE SessionsInv'
<1>1. requests[r].pc \in LookupSteps
  BY DEF CheckKey, At, LookupSteps
<1>2. requests[r] \in WaitingStates(usedTokens) /\ Token(r) \in usedTokens
  BY <1>1, WaitingToken DEF SessionsInv
<1>3. UNCHANGED <<pendingActivity, writerVars, sessionClock, usedTokens>>
  BY DEF CheckKey
<1>4. /\ [requests[r] EXCEPT !.pc = "served"] \in NextStates(usedTokens)
      /\ [requests[r] EXCEPT !.pc = "refused"] \in NextStates(usedTokens)
  <2>1. \A p \in LookupSteps \cup {"served", "refused"} :
          [requests[r] EXCEPT !.pc = p] \in NextStates(usedTokens)
    BY <1>2, PlaceKeeps
  <2> QED BY <2>1
<1> DEFINE served == [requests[r] EXCEPT !.pc = "served"]
           refused == [requests[r] EXCEPT !.pc = "refused"]
<1>5. CASE Go(r, served) /\ UNCHANGED <<sessions, authRows, revoked>>
  <2>1. UNCHANGED <<lockedVars, writerVars, sessionClock, historyVars>>
    BY <1>3, <1>5 DEF lockedVars, historyVars
  <2> HIDE DEF served, refused
  <2> QED BY <1>4, <1>5, <2>1, GoingKeeps DEF served
<1>6. ASSUME NEW stored \in BOOLEAN, Deletion({Token(r)}, stored), Go(r, IF stored THEN refused ELSE Free)
      PROVE  SessionsInv'
  <2> DEFINE state == IF stored THEN refused ELSE Free
  <2>1. state \in {Free} \cup NextStates(usedTokens)
    BY <1>4
  <2>2. Go(r, state)
    BY <1>6
  <2> HIDE DEF state
  <2> QED BY <1>2, <1>3, <1>6, <2>1, <2>2, DeletingKeeps
<1>7. \/ Go(r, served) /\ UNCHANGED <<sessions, authRows, revoked>>
      \/ \E stored \in BOOLEAN : Deletion({Token(r)}, stored) /\ Go(r, IF stored THEN refused ELSE Free)
  BY DEF CheckKey
<1> HIDE DEF served, refused
<1> QED BY <1>5, <1>6, <1>7

LEMMA LogoutKeeps == ASSUME SessionsInv, NEW r \in Requests, Logout(r) PROVE SessionsInv'
<1>1. requests[r].pc \in LookupSteps
  BY DEF Logout, At, LookupSteps
<1>2. Token(r) \in usedTokens
  BY <1>1, WaitingToken DEF SessionsInv
<1>3. PICK stored \in BOOLEAN : Deletion({Token(r)}, stored)
  BY DEF Logout
<1>4. UNCHANGED <<pendingActivity, writerVars, sessionClock, usedTokens>> /\ Go(r, Free)
  BY DEF Logout
<1> QED BY <1>2, <1>3, <1>4, DeletingKeeps

LEMMA AnswerKeeps == ASSUME SessionsInv, NEW r \in Requests, Answer(r) PROVE SessionsInv'
  BY GoingKeeps DEF Answer

\* The writer takes what waits, and ends when nothing does.
LEMMA WriterKeeps == SessionsInv /\ (PickActivity \/ WriteActivity \/ EndWriter) => SessionsInv'
<1> SUFFICES ASSUME SessionsInv, PickActivity \/ WriteActivity \/ EndWriter PROVE SessionsInv'
    OBVIOUS
<1>1. CASE PickActivity
  <2>1. PICK t \in Tokens :
          /\ pendingActivity[t] # NoUpdate
          /\ activityInFlight' = activityInFlight \cup
               {[token |-> t, seen |-> pendingActivity[t].seen, ip |-> pendingActivity[t].ip]}
          /\ pendingActivity' = [pendingActivity EXCEPT ![t] = NoUpdate]
          /\ UNCHANGED <<sessions, authRows, activityWriters, requests, sessionClock, historyVars>>
    BY <1>1 DEF PickActivity
  <2> DEFINE u == [token |-> t, seen |-> pendingActivity[t].seen, ip |-> pendingActivity[t].ip]
  <2>2. u.token \in Tokens /\ u.seen \in Int /\ u.ip \in SessionAddresses
    BY <2>1 DEF SessionsInv, WritersTyped
  <2>3. activityInFlight' = activityInFlight \cup {u}
    BY <2>1
  <2> HIDE DEF u
  <2>4. IsFiniteSet(activityInFlight')
    BY <2>3, FS_AddElement DEF SessionsInv, WritersTyped
  <2>5. WritersTyped'
    BY <2>1, <2>2, <2>3, <2>4 DEF SessionsInv, WritersTyped
  <2>6. OneWriterWhileActivityWaits'
    BY <2>1 DEF SessionsInv, WritersTyped, OneWriterWhileActivityWaits
  <2>7. SessionsTyped' /\ RequestsTyped' /\ RevokedStaysRevoked' /\ CachedIsStored'
    BY <2>1 DEF SessionsInv, SessionsTyped, RequestsTyped, RevokedStaysRevoked, CachedIsStored, historyVars
  <2> QED BY <2>5, <2>6, <2>7 DEF SessionsInv
<1>2. CASE WriteActivity
  <2>1. PICK u \in activityInFlight : \E written \in BOOLEAN :
          /\ authRows' = IF written /\ authRows[u.token] # None
                         THEN [authRows EXCEPT ![u.token] = [@ EXCEPT !.seen = u.seen, !.ip = u.ip]]
                         ELSE authRows
          /\ activityInFlight' = activityInFlight \ {u}
          /\ UNCHANGED <<sessions, pendingActivity, activityWriters, requests, sessionClock, historyVars>>
    BY <1>2 DEF WriteActivity
  <2>2. u.token \in Tokens /\ u.seen \in Int /\ u.ip \in SessionAddresses
    BY DEF SessionsInv, WritersTyped
  <2>3. IsFiniteSet(activityInFlight')
    BY <2>1, FS_RemoveElement DEF SessionsInv, WritersTyped
  <2>4. WritersTyped' /\ OneWriterWhileActivityWaits'
    BY <2>1, <2>3 DEF SessionsInv, WritersTyped, OneWriterWhileActivityWaits
  <2>5. RequestsTyped'
    BY <2>1 DEF SessionsInv, RequestsTyped, historyVars
  <2>6. SessionsTyped' /\ RevokedStaysRevoked' /\ CachedIsStored'
    <3> DEFINE t == u.token
               a == authRows[t]
               n == [a EXCEPT !.seen = u.seen, !.ip = u.ip]
    <3>1. /\ SessionsTyped /\ RevokedStaysRevoked /\ CachedIsStored
          /\ sessions \in [Tokens -> SessionRows] /\ authRows \in [Tokens -> SessionRows]
          /\ sessionClock' \in Int /\ usedTokens' \subseteq Tokens /\ revoked' \subseteq usedTokens'
          /\ revoked' = revoked /\ sessions' = sessions /\ revoked \subseteq Tokens
          /\ \A v \in Tokens : RowFits(sessions[v], authRows[v])
      BY <2>1, CachedFits DEF SessionsInv, SessionsTyped, SessionRows, historyVars
    <3>2. CASE authRows' = authRows
      BY <3>1, <3>2 DEF SessionsTyped, RevokedStaysRevoked, CachedIsStored, SessionRows
    <3>3. CASE a # None /\ authRows' = [authRows EXCEPT ![t] = n]
      <4>1. a \in SessionStates /\ RowFits(sessions[t], a) /\ sessions[t] \in SessionRows /\ t \in Tokens
        BY <2>2, <3>1, <3>3 DEF SessionRows
      <4>2. n \in SessionStates /\ RowFits(sessions[t], n)
        <5> HIDE DEF a
        <5> QED BY <2>2, <4>1, WrittenFits
      <4> HIDE DEF n, a
      <4>3. authRows' \in [Tokens -> SessionRows]
        BY <3>1, <3>3, <4>1, <4>2 DEF SessionRows
      <4>4. \A v \in Tokens : RowFits(sessions'[v], authRows'[v])
        BY <3>1, <3>3, <4>1, <4>2
      <4>5. \A v \in revoked' : sessions'[v] = None /\ authRows'[v] = None
        BY <3>1, <3>3 DEF RevokedStaysRevoked, a
      <4> QED BY <3>1, <4>3, <4>4, <4>5, SettingKeeps
    <3> QED BY <2>1, <3>2, <3>3
  <2> QED BY <2>4, <2>5, <2>6 DEF SessionsInv
<1>3. CASE EndWriter
  <2>1. /\ activityWriters > Cardinality(activityInFlight) /\ activityWriters' = activityWriters - 1
        /\ \A t \in Tokens : pendingActivity[t] = NoUpdate
        /\ UNCHANGED <<lockedVars, activityInFlight, requests, sessionClock, historyVars>>
    BY <1>3 DEF EndWriter
  <2>2. Cardinality(activityInFlight) \in Nat
    BY FS_CardinalityType DEF SessionsInv, WritersTyped
  <2>3. activityWriters' = 0
    BY <2>1, <2>2 DEF SessionsInv, WritersTyped
  <2>4. WritersTyped' /\ OneWriterWhileActivityWaits'
    BY <2>1, <2>3 DEF SessionsInv, WritersTyped, OneWriterWhileActivityWaits, lockedVars
  <2>5. SessionsTyped' /\ RequestsTyped' /\ RevokedStaysRevoked' /\ CachedIsStored'
    BY <2>1 DEF SessionsInv, SessionsTyped, RequestsTyped, RevokedStaysRevoked, CachedIsStored,
                lockedVars, historyVars
  <2> QED BY <2>4, <2>5 DEF SessionsInv
<1> QED BY <1>1, <1>2, <1>3

LEMMA SurroundingsKeep == SessionsInv /\ (SessionTick \/ SyncKeys \/ SessionsRestart) => SessionsInv'
<1> SUFFICES ASSUME SessionsInv, SessionTick \/ SyncKeys \/ SessionsRestart PROVE SessionsInv'
    OBVIOUS
<1>1. CASE SessionTick \/ SyncKeys
  <2>1. UNCHANGED <<lockedVars, writerVars, requests, historyVars>>
    BY <1>1, Zenon DEF SessionTick, SyncKeys
  <2>2. sessionClock' = sessionClock + 1 \/ sessionClock' = sessionClock
    BY <1>1, Zenon DEF SessionTick, SyncKeys
  <2>3. sessionClock' \in Int
    BY <2>2 DEF SessionsInv, SessionsTyped
  <2> QED BY <2>1, <2>3 DEF SessionsInv, SessionsTyped, RequestsTyped, WritersTyped, RevokedStaysRevoked,
             CachedIsStored, OneWriterWhileActivityWaits, lockedVars, writerVars, historyVars
<1>2. CASE SessionsRestart
  <2>1. /\ sessions' = [t \in Tokens |-> None] /\ pendingActivity' = [t \in Tokens |-> NoUpdate]
        /\ activityWriters' = 0 /\ activityInFlight' = {} /\ requests' = [r \in Requests |-> Free]
        /\ UNCHANGED <<authRows, sessionClock, historyVars>>
    BY <1>2 DEF SessionsRestart
  <2>2. WritersTyped' /\ OneWriterWhileActivityWaits'
    BY <2>1, FS_EmptySet DEF WritersTyped, OneWriterWhileActivityWaits
  <2>3. RequestsTyped'
    BY <2>1 DEF RequestsTyped, IdleStates
  <2>4. SessionsTyped' /\ RevokedStaysRevoked' /\ CachedIsStored'
    BY <2>1 DEF SessionsInv, SessionsTyped, RevokedStaysRevoked, CachedIsStored, historyVars
  <2> QED BY <2>2, <2>3, <2>4 DEF SessionsInv
<1> QED BY <1>1, <1>2

LEMMA SessionsInvInit == SessionsInit => SessionsInv
<1> SUFFICES ASSUME SessionsInit PROVE SessionsInv
    OBVIOUS
<1>1. WritersTyped /\ OneWriterWhileActivityWaits
  BY FS_EmptySet DEF SessionsInit, WritersTyped, OneWriterWhileActivityWaits
<1>2. RequestsTyped
  BY DEF SessionsInit, RequestsTyped, IdleStates
<1>3. SessionsTyped /\ RevokedStaysRevoked /\ CachedIsStored
  BY SessionsAssumption DEF SessionsInit, SessionsTyped, RevokedStaysRevoked, CachedIsStored
<1> QED BY <1>1, <1>2, <1>3 DEF SessionsInv

LEMMA SessionsInvNext == SessionsInv /\ [SessionsNext]_sessionsVars => SessionsInv'
<1> SUFFICES ASSUME SessionsInv, [SessionsNext]_sessionsVars PROVE SessionsInv'
    OBVIOUS
<1>1. CASE UNCHANGED sessionsVars
  BY <1>1 DEF sessionsVars, SessionsInv, SessionsTyped, RequestsTyped, WritersTyped, RevokedStaysRevoked,
             CachedIsStored, OneWriterWhileActivityWaits, lockedVars, writerVars, historyVars
<1>2. ASSUME NEW r \in Requests,
             \/ Arrive(r) \/ ReadCache(r) \/ DeleteExpired(r) \/ Load(r) \/ Drop(r)
             \/ Touch(r) \/ CheckKey(r) \/ Logout(r) \/ Answer(r)
      PROVE  SessionsInv'
  BY <1>2, ArriveKeeps, ReadCacheKeeps, DeleteExpiredKeeps, LoadKeeps, DropKeeps, TouchKeeps,
     CheckKeyKeeps, LogoutKeeps, AnswerKeeps
<1> QED BY <1>1, <1>2, LoginKeeps, ListSessionsKeeps, UpdateAliasKeeps, RevokeKeeps, WriterKeeps,
           SurroundingsKeep DEF SessionsNext

(* The same of sessions alone: a confirmed deletion is final, what memory has  *)
(* the table has, the list shows what a lookup accepts, and an activity that  *)
(* waits has the one writer (SessionManager in auth/session.go).              *)
THEOREM SessionsStayInAgreement == SessionsSpec => []SessionsAgree
<1>1. SessionsInv => SessionsAgree
  BY ListFollows DEF SessionsInv, SessionsAgree, SessionViewsAgree
<1> QED BY <1>1, SessionsInvInit, SessionsInvNext, PTL DEF SessionsSpec

-----------------------------------------------------------------------------
(* The logs of requests. Whoever waits for a fetch that has not ended waits   *)
(* for the one that can be joined, and that one counts them all.              *)

ReaderPlaces == {"idle", "waiting", "cancelling", "done"}
FetchResults == {"none", "log", "too large", "unavailable", "failed", "cancelled"}
FetchStates == [waiters : Int, cancelled : BOOLEAN, finished : BOOLEAN, result : FetchResults]
ReaderStates == [pc : ReaderPlaces, fetch : Nat, answer : FetchResults \cup {"gone"}]

\* The types of the readers and of the fetches, which are numbered.
LogsTyped ==
    /\ reader \in [Readers -> ReaderStates]
    /\ \E n \in Nat : fetches \in [1 .. n -> FetchStates]
    /\ inflight \in {NoFetch} \cup DOMAIN fetches
    /\ \A r \in Readers : reader[r].pc \in {"waiting", "cancelling"} =>
          reader[r].fetch \in DOMAIN fetches

WaitersOf(who, f) == {r \in Readers : who[r].pc = "waiting" /\ who[r].fetch = f}

\* The fetch that can be joined goes on, and counts whoever waits for it.
JoinedGoesOn ==
    inflight # NoFetch =>
        /\ ~fetches[inflight].finished /\ ~fetches[inflight].cancelled
        /\ IsFiniteSet(WaitersOf(reader, inflight))
        /\ fetches[inflight].waiters = Cardinality(WaitersOf(reader, inflight))
        /\ fetches[inflight].waiters > 0

\* Who waits for another fetch waits for one that has ended, with an answer.
WaitingIsServed ==
    \A r \in Readers : reader[r].pc = "waiting" =>
        \/ reader[r].fetch = inflight
        \/ /\ fetches[reader[r].fetch].finished
           /\ fetches[reader[r].fetch].result # "cancelled"

\* Who cancels does so to a fetch that cannot be joined any more.
CancellingLeft ==
    \A r \in Readers : reader[r].pc = "cancelling" => reader[r].fetch # inflight

\* Nothing else goes on without somebody about to cancel it.
OthersEnd ==
    \A f \in DOMAIN fetches :
        \/ fetches[f].cancelled \/ f = inflight
        \/ \E r \in Readers : reader[r].pc = "cancelling" /\ reader[r].fetch = f

AnswersHonest == \A r \in Readers : reader[r].answer = "cancelled" => r \in gone

LogsInv == LogsTyped /\ JoinedGoesOn /\ WaitingIsServed /\ CancellingLeft /\ OthersEnd /\ AnswersHonest

\* The invariant is what is promised of the fetches.
LEMMA LogsInvShared == LogsInv => LogFetchIsShared
<1> SUFFICES ASSUME LogsInv PROVE LogFetchIsShared
    OBVIOUS
<1>1. \A r \in Readers : reader[r].answer = "cancelled" => r \in gone
  BY DEF LogsInv, AnswersHonest
<1>2. \A r \in Readers : reader[r].pc = "waiting" /\ r \notin gone =>
          fetches[reader[r].fetch].finished \/ ~fetches[reader[r].fetch].cancelled
  BY DEF LogsInv, LogsTyped, WaitingIsServed, JoinedGoesOn, NoFetch
<1>3. inflight # NoFetch => WaitersOf(reader, inflight) # {}
  BY FS_EmptySet DEF LogsInv, JoinedGoesOn
<1>4. \A f \in DOMAIN fetches :
          \/ fetches[f].cancelled
          \/ \E r \in Readers : reader[r].fetch = f /\ reader[r].pc \in {"waiting", "cancelling"}
  BY <1>3 DEF LogsInv, OthersEnd, WaitersOf, LogsTyped, NoFetch
<1> DEFINE S == {f \in DOMAIN fetches : ~fetches[f].cancelled
            /\ \A r \in Readers : reader[r].fetch = f => reader[r].pc # "cancelling"}
<1>5. S \subseteq {inflight}
  BY DEF LogsInv, OthersEnd
<1>6. Cardinality(S) <= 1
  <2> HIDE DEF S
  <2>1. IsFiniteSet({inflight}) /\ Cardinality({inflight}) = 1
    BY FS_Singleton
  <2> QED BY <1>5, <2>1, FS_Subset
<1> QED BY <1>1, <1>2, <1>4, <1>6 DEF LogFetchIsShared

\* What a step does to one reader, and to one fetch.
ReaderJoined(x, r, p, f) == [x EXCEPT ![r].pc = p, ![r].fetch = f]
ReaderEnded(x, r, p, a) == [x EXCEPT ![r].pc = p, ![r].answer = a]
FetchCounted(x, f, w) == [x EXCEPT ![f].waiters = w]
FetchStopped(x, f) == [x EXCEPT ![f].cancelled = TRUE]
FetchResolved(x, f, a) == [x EXCEPT ![f].finished = TRUE, ![f].result = a, ![f].cancelled = TRUE]

LEMMA ReaderJoins ==
    ASSUME NEW x \in [Readers -> ReaderStates], NEW r \in Readers, NEW p \in ReaderPlaces, NEW f \in Nat
    PROVE  LET y == ReaderJoined(x, r, p, f) IN
           /\ y \in [Readers -> ReaderStates]
           /\ y[r].pc = p /\ y[r].fetch = f /\ y[r].answer = x[r].answer
           /\ \A q \in Readers \ {r} : y[q] = x[q]
<1> DEFINE y == ReaderJoined(x, r, p, f)
<1>1. x[r] \in ReaderStates
  OBVIOUS
<1> DEFINE s == [x[r] EXCEPT !.pc = p]
           t == [s EXCEPT !.fetch = f]
<1>2. t \in ReaderStates /\ t.pc = p /\ t.fetch = f /\ t.answer = x[r].answer
  BY <1>1 DEF ReaderStates
<1>3. y[r] = t /\ y = [q \in Readers |-> y[q]] /\ \A q \in Readers \ {r} : y[q] = x[q]
  BY DEF ReaderJoined
<1> HIDE DEF s, t
<1> QED BY <1>1, <1>2, <1>3

LEMMA ReaderEnds ==
    ASSUME NEW x \in [Readers -> ReaderStates], NEW r \in Readers, NEW p \in ReaderPlaces,
           NEW a \in FetchResults \cup {"gone"}
    PROVE  LET y == ReaderEnded(x, r, p, a) IN
           /\ y \in [Readers -> ReaderStates]
           /\ y[r].pc = p /\ y[r].fetch = x[r].fetch /\ y[r].answer = a
           /\ \A q \in Readers \ {r} : y[q] = x[q]
<1> DEFINE y == ReaderEnded(x, r, p, a)
<1>1. x[r] \in ReaderStates
  OBVIOUS
<1> DEFINE s == [x[r] EXCEPT !.pc = p]
           t == [s EXCEPT !.answer = a]
<1>2. t \in ReaderStates /\ t.pc = p /\ t.answer = a /\ t.fetch = x[r].fetch
  BY <1>1 DEF ReaderStates
<1>3. y[r] = t /\ y = [q \in Readers |-> y[q]] /\ \A q \in Readers \ {r} : y[q] = x[q]
  BY DEF ReaderEnded
<1> HIDE DEF s, t
<1> QED BY <1>1, <1>2, <1>3

LEMMA FetchCounts ==
    ASSUME NEW D, NEW x \in [D -> FetchStates], NEW f \in D, NEW w \in Int
    PROVE  LET y == FetchCounted(x, f, w) IN
           /\ y \in [D -> FetchStates]
           /\ y[f].waiters = w /\ y[f].cancelled = x[f].cancelled
           /\ y[f].finished = x[f].finished /\ y[f].result = x[f].result
           /\ \A g \in D \ {f} : y[g] = x[g]
<1> DEFINE y == FetchCounted(x, f, w)
<1>1. x[f] \in FetchStates
  OBVIOUS
<1> DEFINE s == [x[f] EXCEPT !.waiters = w]
<1>2. /\ s \in FetchStates /\ s.waiters = w /\ s.cancelled = x[f].cancelled
      /\ s.finished = x[f].finished /\ s.result = x[f].result
  BY <1>1 DEF FetchStates
<1>3. y[f] = s /\ y = [g \in D |-> y[g]] /\ \A g \in D \ {f} : y[g] = x[g]
  BY DEF FetchCounted
<1> HIDE DEF s
<1> QED BY <1>1, <1>2, <1>3

LEMMA FetchCancelled ==
    ASSUME NEW D, NEW x \in [D -> FetchStates], NEW f \in D
    PROVE  LET y == FetchStopped(x, f) IN
           /\ y \in [D -> FetchStates]
           /\ y[f].cancelled /\ y[f].finished = x[f].finished /\ y[f].result = x[f].result
           /\ \A g \in D \ {f} : y[g] = x[g]
<1> DEFINE y == FetchStopped(x, f)
<1>1. x[f] \in FetchStates
  OBVIOUS
<1> DEFINE s == [x[f] EXCEPT !.cancelled = TRUE]
<1>2. s \in FetchStates /\ s.cancelled /\ s.finished = x[f].finished /\ s.result = x[f].result
  BY <1>1 DEF FetchStates
<1>3. y[f] = s /\ y = [g \in D |-> y[g]] /\ \A g \in D \ {f} : y[g] = x[g]
  BY DEF FetchStopped
<1> HIDE DEF s
<1> QED BY <1>1, <1>2, <1>3

LEMMA FetchFinished ==
    ASSUME NEW D, NEW x \in [D -> FetchStates], NEW f \in D, NEW a \in FetchResults
    PROVE  LET y == FetchResolved(x, f, a) IN
           /\ y \in [D -> FetchStates]
           /\ y[f].cancelled /\ y[f].finished /\ y[f].result = a
           /\ \A g \in D \ {f} : y[g] = x[g]
<1> DEFINE y == FetchResolved(x, f, a)
<1>1. x[f] \in FetchStates
  OBVIOUS
<1> DEFINE s == [x[f] EXCEPT !.finished = TRUE]
           u == [s EXCEPT !.result = a]
           v == [u EXCEPT !.cancelled = TRUE]
<1>2. v \in FetchStates /\ v.cancelled /\ v.finished /\ v.result = a
  BY <1>1 DEF FetchStates
<1>3. y[f] = v /\ y = [g \in D |-> y[g]] /\ \A g \in D \ {f} : y[g] = x[g]
  BY DEF FetchResolved
<1> HIDE DEF s, u, v
<1> QED BY <1>1, <1>2, <1>3

LEMMA LogsInvInit == LogsInit => LogsInv
<1> SUFFICES ASSUME LogsInit PROVE LogsInv
    OBVIOUS
<1>1. fetches \in [1 .. 0 -> FetchStates]
  BY DEF LogsInit
<1>2. LogsTyped
  <2>1. reader \in [Readers -> ReaderStates] /\ \A r \in Readers : reader[r].pc = "idle"
    BY DEF LogsInit, ReaderStates, ReaderPlaces, FetchResults, NoFetch
  <2>2. 0 \in Nat /\ inflight = NoFetch
    BY DEF LogsInit
  <2> QED BY <1>1, <2>1, <2>2 DEF LogsTyped
<1> QED BY <1>2 DEF LogsInit, LogsInv, JoinedGoesOn, WaitingIsServed, CancellingLeft, OthersEnd,
                    AnswersHonest, NoFetch

\* Whoever joins is counted by the fetch, whoever finds none begins one.
LEMMA LogsInvBegin ==
    ASSUME LogsInv, NEW r \in Readers, BeginFetch(r) PROVE LogsInv'
<1> USE DEF NoFetch
<1>1. PICK n \in Nat : fetches \in [1 .. n -> FetchStates]
  BY DEF LogsInv, LogsTyped
<1>2. DOMAIN fetches = 1 .. n /\ Cardinality(DOMAIN fetches) = n
  BY <1>1, FS_Interval
<1>3. reader \in [Readers -> ReaderStates] /\ reader[r].pc = "idle" /\ gone' = gone
  BY DEF LogsInv, LogsTyped, BeginFetch
<1>4. CASE JoinFetch(r)
  <2>1. /\ inflight \in 1 .. n /\ inflight' = inflight
        /\ fetches' = [fetches EXCEPT ![inflight].waiters = @ + 1]
        /\ reader' = [reader EXCEPT ![r].pc = "waiting", ![r].fetch = inflight]
    BY <1>2, <1>4 DEF JoinFetch, LogsInv, LogsTyped
  <2>a. fetches[inflight].waiters + 1 \in Int /\ fetches[inflight].waiters \in Int
    BY <1>1, <2>1 DEF FetchStates
  <2>f. /\ fetches' = FetchCounted(fetches, inflight, fetches[inflight].waiters + 1)
        /\ reader' = ReaderJoined(reader, r, "waiting", inflight)
    BY <2>1 DEF FetchCounted, ReaderJoined
  <2>b. /\ fetches' \in [1 .. n -> FetchStates]
        /\ fetches'[inflight].finished = fetches[inflight].finished
        /\ fetches'[inflight].cancelled = fetches[inflight].cancelled
        /\ fetches'[inflight].waiters = fetches[inflight].waiters + 1
        /\ \A g \in 1 .. n \ {inflight} : fetches'[g] = fetches[g]
    <3> DEFINE D == 1 .. n
    <3>1. fetches \in [D -> FetchStates] /\ inflight \in D
      BY <1>1, <2>1
    <3> HIDE DEF D
    <3>2. /\ fetches' \in [D -> FetchStates]
          /\ fetches'[inflight].finished = fetches[inflight].finished
          /\ fetches'[inflight].cancelled = fetches[inflight].cancelled
          /\ fetches'[inflight].waiters = fetches[inflight].waiters + 1
          /\ \A g \in D \ {inflight} : fetches'[g] = fetches[g]
      BY <3>1, <2>a, <2>f, FetchCounts
    <3> QED BY <3>2 DEF D
  <2>c. inflight \in Nat /\ "waiting" \in ReaderPlaces
    BY <2>1 DEF ReaderPlaces
  <2>d. /\ reader' \in [Readers -> ReaderStates]
        /\ reader'[r].pc = "waiting" /\ reader'[r].fetch = inflight
        /\ reader'[r].answer = reader[r].answer
        /\ \A q \in Readers \ {r} : reader'[q] = reader[q]
    BY <1>3, <2>c, <2>f, ReaderJoins
  <2>e. DOMAIN fetches' = 1 .. n
    BY <2>b
  <2>2. LogsTyped'
    BY <1>2, <1>3, <2>1, <2>b, <2>d, <2>e DEF LogsTyped, LogsInv
  <2>3. WaitersOf(reader', inflight') = WaitersOf(reader, inflight) \cup {r} /\ r \notin WaitersOf(reader, inflight)
    BY <1>3, <2>1, <2>d DEF WaitersOf
  <2>4. JoinedGoesOn'
    <3> DEFINE W == WaitersOf(reader, inflight)
    <3>1. /\ IsFiniteSet(W) /\ ~fetches[inflight].finished /\ ~fetches[inflight].cancelled
          /\ fetches[inflight].waiters = Cardinality(W) /\ fetches[inflight].waiters > 0
      BY <2>1 DEF LogsInv, JoinedGoesOn
    <3> HIDE DEF W
    <3>4. IsFiniteSet(W \cup {r}) /\ (r \notin W => Cardinality(W \cup {r}) = Cardinality(W) + 1)
      BY <3>1, FS_AddElement
    <3>5. /\ fetches'[inflight].waiters = Cardinality(W \cup {r}) /\ fetches'[inflight].waiters > 0
          /\ ~fetches'[inflight].finished /\ ~fetches'[inflight].cancelled
      BY <2>3, <2>a, <2>b, <3>1, <3>4 DEF W
    <3>6. WaitersOf(reader', inflight') = W \cup {r} /\ inflight' = inflight
      BY <2>1, <2>3 DEF W
    <3> QED BY <3>4, <3>5, <3>6, Zenon DEF JoinedGoesOn
  <2>g. WaitingIsServed'
    <3> SUFFICES ASSUME NEW q \in Readers, reader'[q].pc = "waiting", reader'[q].fetch # inflight'
                 PROVE  fetches'[reader'[q].fetch].finished /\ fetches'[reader'[q].fetch].result # "cancelled"
      BY DEF WaitingIsServed
    <3>1. reader'[q] = reader[q] /\ reader[q].fetch # inflight
      BY <2>1, <2>d
    <3>2. reader[q].fetch \in 1 .. n
      BY <1>2, <3>1 DEF LogsInv, LogsTyped
    <3>3. fetches[reader[q].fetch].finished /\ fetches[reader[q].fetch].result # "cancelled"
      BY <3>1 DEF LogsInv, WaitingIsServed
    <3> QED BY <2>b, <3>1, <3>2, <3>3
  <2>h. CancellingLeft'
    BY <2>1, <2>d DEF LogsInv, CancellingLeft
  <2>5. WaitingIsServed' /\ CancellingLeft' /\ AnswersHonest'
    BY <1>3, <2>d, <2>g, <2>h DEF LogsInv, AnswersHonest
  <2>6. OthersEnd'
    BY <1>2, <1>3, <2>1, <2>b, <2>d, <2>e DEF LogsInv, OthersEnd
  <2> QED BY <2>2, <2>4, <2>5, <2>6 DEF LogsInv
<1>5. CASE LeadFetch(r)
  <2> DEFINE new == [waiters |-> 1, cancelled |-> FALSE, finished |-> FALSE, result |-> "none"]
  <2>1. /\ inflight = 0 /\ inflight' = n + 1
        /\ fetches' = [f \in 1 .. n + 1 |-> IF f \in 1 .. n THEN fetches[f] ELSE new]
        /\ reader' = [reader EXCEPT ![r].pc = "waiting", ![r].fetch = n + 1]
    BY <1>2, <1>5 DEF LeadFetch
  <2>2. /\ DOMAIN fetches' = 1 .. n + 1 /\ fetches'[n + 1] = new
        /\ \A f \in 1 .. n : fetches'[f] = fetches[f]
        /\ n + 1 \in 1 .. n + 1 /\ n + 1 \notin 1 .. n /\ 1 .. n \subseteq 1 .. n + 1
        /\ \A f \in 1 .. n + 1 : f \in 1 .. n \/ f = n + 1
    BY <2>1
  <2>3. n + 1 \in Nat /\ "waiting" \in ReaderPlaces
    BY DEF ReaderPlaces
  <2>a. reader' = ReaderJoined(reader, r, "waiting", n + 1)
    BY <2>1 DEF ReaderJoined
  <2>4. /\ reader' \in [Readers -> ReaderStates]
        /\ reader'[r].pc = "waiting" /\ reader'[r].fetch = n + 1 /\ reader'[r].answer = reader[r].answer
        /\ \A q \in Readers \ {r} : reader'[q] = reader[q]
    BY <1>3, <2>3, <2>a, ReaderJoins
  <2> HIDE DEF new
  <2>5. new \in FetchStates
    BY DEF FetchStates, FetchResults, new
  <2>6. LogsTyped'
    <3>1. fetches' \in [1 .. n + 1 -> FetchStates]
      BY <1>1, <2>1, <2>5
    <3>3. \A q \in Readers : reader'[q].pc \in {"waiting", "cancelling"} => reader'[q].fetch \in 1 .. n + 1
      BY <1>2, <2>2, <2>4 DEF LogsInv, LogsTyped
    <3> QED BY <2>1, <2>2, <2>4, <3>1, <3>3 DEF LogsTyped
  <2>7. WaitersOf(reader', inflight') = {r}
    BY <1>2, <2>1, <2>2, <2>4 DEF WaitersOf, LogsInv, LogsTyped
  <2>8. JoinedGoesOn'
    <3>1. /\ ~fetches'[n + 1].finished /\ ~fetches'[n + 1].cancelled /\ fetches'[n + 1].waiters = 1
      BY <2>2 DEF new
    <3>2. IsFiniteSet({r}) /\ Cardinality({r}) = 1
      BY FS_Singleton
    <3>3. fetches'[n + 1].waiters = Cardinality({r}) /\ fetches'[n + 1].waiters > 0
      BY <3>1, <3>2
    <3> QED BY <2>1, <2>7, <3>1, <3>2, <3>3, Zenon DEF JoinedGoesOn
  <2>a1. WaitingIsServed'
    <3> SUFFICES ASSUME NEW q \in Readers, reader'[q].pc = "waiting", reader'[q].fetch # inflight'
                 PROVE  fetches'[reader'[q].fetch].finished /\ fetches'[reader'[q].fetch].result # "cancelled"
      BY DEF WaitingIsServed
    <3>1. reader'[q] = reader[q]
      BY <2>1, <2>4
    <3>2. reader[q].fetch \in 1 .. n
      BY <1>2, <3>1 DEF LogsInv, LogsTyped
    <3>3. reader[q].fetch # inflight
      BY <2>1, <3>2
    <3>4. fetches[reader[q].fetch].finished /\ fetches[reader[q].fetch].result # "cancelled"
      BY <3>1, <3>3 DEF LogsInv, WaitingIsServed
    <3> QED BY <2>2, <3>1, <3>2, <3>4
  <2>a2. CancellingLeft'
    BY <1>1, <1>2, <1>3, <2>1, <2>2, <2>4 DEF LogsInv, LogsTyped, CancellingLeft
  <2>9. WaitingIsServed' /\ CancellingLeft' /\ AnswersHonest'
    BY <1>3, <2>4, <2>a1, <2>a2 DEF LogsInv, AnswersHonest
  <2>10. OthersEnd'
    <3> SUFFICES ASSUME NEW g \in DOMAIN fetches', ~fetches'[g].cancelled, g # inflight'
                 PROVE  \E q \in Readers : reader'[q].pc = "cancelling" /\ reader'[q].fetch = g
      BY DEF OthersEnd
    <3>1. g \in DOMAIN fetches /\ ~fetches[g].cancelled /\ g # inflight
      BY <1>1, <1>2, <2>1, <2>2
    <3>2. PICK q \in Readers : reader[q].pc = "cancelling" /\ reader[q].fetch = g
      BY <3>1 DEF LogsInv, OthersEnd
    <3>3. reader'[q] = reader[q]
      BY <1>3, <2>4, <3>2
    <3> QED BY <3>2, <3>3
  <2> QED BY <2>6, <2>8, <2>9, <2>10 DEF LogsInv
<1> QED BY <1>4, <1>5 DEF BeginFetch

LEMMA LogsInvGoAway == ASSUME LogsInv, NEW r \in Readers, GoAway(r) PROVE LogsInv'
  BY DEF GoAway, LogsInv, LogsTyped, JoinedGoesOn, WaitingIsServed, CancellingLeft, OthersEnd,
         AnswersHonest, WaitersOf

\* An answer is taken from a fetch that has ended, so from none that can be joined.
LEMMA LogsInvTake == ASSUME LogsInv, NEW r \in Readers, TakeAnswer(r) PROVE LogsInv'
<1> USE DEF NoFetch
<1>1. PICK n \in Nat : fetches \in [1 .. n -> FetchStates]
  BY DEF LogsInv, LogsTyped
<1>2. /\ reader \in [Readers -> ReaderStates] /\ reader[r].pc = "waiting" /\ reader[r].fetch \in 1 .. n
      /\ fetches[reader[r].fetch].finished /\ gone' = gone /\ inflight' = inflight /\ fetches' = fetches
  BY <1>1 DEF TakeAnswer, LogsInv, LogsTyped
<1>3. reader[r].fetch # inflight
  BY <1>2 DEF LogsInv, JoinedGoesOn
<1> DEFINE answer == IF r \in gone THEN "gone" ELSE fetches[reader[r].fetch].result
<1>5. answer \in FetchResults \cup {"gone"} /\ "done" \in ReaderPlaces
  BY <1>1, <1>2 DEF FetchStates, ReaderPlaces
<1>a. reader' = ReaderEnded(reader, r, "done", answer)
  BY DEF TakeAnswer, ReaderEnded
<1>b. answer = "cancelled" => r \in gone
  BY <1>2, <1>3 DEF LogsInv, WaitingIsServed
<1> HIDE DEF answer
<1>4. /\ reader' \in [Readers -> ReaderStates]
      /\ reader'[r].pc = "done" /\ reader'[r].fetch = reader[r].fetch
      /\ reader'[r].answer = answer
      /\ \A q \in Readers \ {r} : reader'[q] = reader[q]
  BY <1>2, <1>5, <1>a, ReaderEnds
<1>6. LogsTyped'
  BY <1>1, <1>2, <1>4 DEF LogsTyped, LogsInv
<1>7. WaitersOf(reader', inflight') = WaitersOf(reader, inflight)
  BY <1>2, <1>3, <1>4 DEF WaitersOf
<1>8. JoinedGoesOn'
  BY <1>2, <1>7 DEF LogsInv, JoinedGoesOn
<1>9. WaitingIsServed' /\ CancellingLeft' /\ OthersEnd'
  BY <1>2, <1>4 DEF LogsInv, WaitingIsServed, CancellingLeft, OthersEnd
<1>10. AnswersHonest'
  BY <1>2, <1>4, <1>b DEF LogsInv, AnswersHonest
<1> QED BY <1>6, <1>8, <1>9, <1>10 DEF LogsInv

\* Whoever leaves is no longer counted; the last one closes the fetch to others.
LEMMA LogsInvLeave == ASSUME LogsInv, NEW r \in Readers, Leave(r) PROVE LogsInv'
<1> USE DEF NoFetch
<1>0. PICK f : f = reader[r].fetch
  OBVIOUS
<1>1. PICK n \in Nat : fetches \in [1 .. n -> FetchStates]
  BY DEF LogsInv, LogsTyped
<1>2. /\ reader \in [Readers -> ReaderStates] /\ reader[r].pc = "waiting" /\ f \in 1 .. n /\ f # 0
      /\ gone' = gone /\ inflight \in {0} \cup 1 .. n
  BY <1>0, <1>1 DEF Leave, LogsInv, LogsTyped
<1> DEFINE released == ReleaseWaiter(f)
           place == IF released.last THEN "cancelling" ELSE "done"
<1>a. /\ reader' = ReaderEnded(reader, r, place, "gone")
      /\ fetches' = FetchCounted(fetches, f, released.waiters)
      /\ inflight' = IF released.last THEN 0 ELSE inflight
  BY <1>0 DEF Leave, ReaderEnded, FetchCounted
<1>4. released.waiters \in Int /\ fetches[f].waiters \in Int
  <2>1. fetches[f].waiters \in Int
    BY <1>1, <1>2 DEF FetchStates
  <2>2. released.waiters \in {fetches[f].waiters, fetches[f].waiters - 1}
    BY DEF ReleaseWaiter
  <2> QED BY <2>1, <2>2
<1>b. place \in ReaderPlaces /\ "gone" \in FetchResults \cup {"gone"}
  BY DEF ReaderPlaces
<1> HIDE DEF released
<1>3. /\ reader' \in [Readers -> ReaderStates]
      /\ reader'[r].fetch = f /\ reader'[r].answer = "gone"
      /\ reader'[r].pc = place
      /\ \A q \in Readers \ {r} : reader'[q] = reader[q]
  <2> HIDE DEF place
  <2> QED BY <1>0, <1>2, <1>a, <1>b, ReaderEnds
<1>6. /\ fetches' \in [1 .. n -> FetchStates]
      /\ fetches'[f].waiters = released.waiters /\ fetches'[f].cancelled = fetches[f].cancelled
      /\ fetches'[f].finished = fetches[f].finished /\ fetches'[f].result = fetches[f].result
      /\ \A g \in 1 .. n \ {f} : fetches'[g] = fetches[g]
  <2> DEFINE D == 1 .. n
  <2>1. fetches \in [D -> FetchStates] /\ f \in D
    BY <1>1, <1>2
  <2> HIDE DEF D
  <2>2. /\ fetches' \in [D -> FetchStates]
        /\ fetches'[f].waiters = released.waiters /\ fetches'[f].cancelled = fetches[f].cancelled
        /\ fetches'[f].finished = fetches[f].finished /\ fetches'[f].result = fetches[f].result
        /\ \A g \in D \ {f} : fetches'[g] = fetches[g]
    BY <2>1, <1>4, <1>a, FetchCounts
  <2> QED BY <2>2 DEF D
<1>7. /\ \A g \in 1 .. n : /\ fetches'[g].cancelled = fetches[g].cancelled
                           /\ fetches'[g].finished = fetches[g].finished
                           /\ fetches'[g].result = fetches[g].result
      /\ DOMAIN fetches' = 1 .. n /\ DOMAIN fetches = 1 .. n
  BY <1>1, <1>6
<1>8. LogsTyped'
  <2>1. inflight' \in {NoFetch} \cup DOMAIN fetches'
    BY <1>2, <1>7, <1>a
  <2>2. \A q \in Readers : reader[q].pc \in {"waiting", "cancelling"} => reader[q].fetch \in DOMAIN fetches
    BY DEF LogsTyped, LogsInv
  <2>3. \A q \in Readers : reader'[q].pc \in {"waiting", "cancelling"} => reader'[q].fetch \in DOMAIN fetches'
    BY <1>2, <1>3, <1>7, <2>2
  <2>4. \E m \in Nat : fetches' \in [1 .. m -> FetchStates]
    BY <1>1, <1>6
  <2> QED BY <1>3, <2>1, <2>3, <2>4 DEF LogsTyped
<1>9. AnswersHonest'
  BY <1>0, <1>2, <1>3 DEF LogsInv, AnswersHonest
<1>10. CASE inflight # f
  <2>1. ~released.last
    BY <1>10 DEF ReleaseWaiter, released
  <2>2. /\ inflight' = inflight /\ reader'[r].pc = "done"
        /\ inflight # 0 => fetches'[inflight] = fetches[inflight]
    BY <1>0, <1>2, <1>3, <1>6, <1>10, <1>a, <2>1
  <2>3. WaitersOf(reader', inflight') = WaitersOf(reader, inflight)
    BY <1>0, <1>2, <1>3, <1>10, <2>2 DEF WaitersOf
  <2>4. JoinedGoesOn'
    BY <2>2, <2>3 DEF LogsInv, JoinedGoesOn
  <2>a. WaitingIsServed'
    BY <1>0, <1>2, <1>3, <1>7, <2>2 DEF LogsInv, LogsTyped, WaitingIsServed
  <2>b. CancellingLeft'
    BY <1>0, <1>2, <1>3, <2>2 DEF LogsInv, CancellingLeft
  <2>c. OthersEnd'
    BY <1>0, <1>2, <1>3, <1>7, <2>2 DEF LogsInv, OthersEnd
  <2>5. WaitingIsServed' /\ CancellingLeft' /\ OthersEnd'
    BY <2>a, <2>b, <2>c
  <2> QED BY <1>8, <1>9, <2>4, <2>5 DEF LogsInv
<1>11. CASE inflight = f
  <2> DEFINE W == WaitersOf(reader, f)
  <2>1. /\ IsFiniteSet(W) /\ ~fetches[f].finished /\ ~fetches[f].cancelled
        /\ fetches[f].waiters = Cardinality(W) /\ fetches[f].waiters > 0
    BY <1>0, <1>2, <1>11 DEF LogsInv, JoinedGoesOn
  <2>2. /\ released.last <=> fetches[f].waiters = 1
        /\ released.waiters = fetches[f].waiters - 1
    <3>1. released = [last |-> fetches[f].waiters = 1, waiters |-> fetches[f].waiters - 1]
      BY <1>0, <1>11, <1>4, <2>1 DEF ReleaseWaiter, released
    <3> QED BY <3>1, Zenon
  <2>3. r \in W /\ WaitersOf(reader', f) = W \ {r}
    BY <1>0, <1>2, <1>3 DEF WaitersOf
  <2> HIDE DEF W
  <2>4. IsFiniteSet(W \ {r}) /\ Cardinality(W \ {r}) = Cardinality(W) - 1
    BY <2>1, <2>3, FS_RemoveElement
  <2>5. CASE fetches[f].waiters = 1
    <3>1. W \ {r} = {}
      BY <1>4, <2>1, <2>4, <2>5, FS_EmptySet
    <3>2. inflight' = 0 /\ reader'[r].pc = "cancelling"
      BY <1>3, <1>a, <2>2, <2>5
    <3>3. \A q \in Readers : reader'[q].pc = "waiting" => reader[q].pc = "waiting" /\ reader[q].fetch # f /\ reader'[q] = reader[q]
      BY <1>0, <1>2, <1>3, <3>1, <3>2 DEF WaitersOf, W
    <3>4. WaitingIsServed'
      BY <1>7, <1>2, <1>11, <3>3 DEF LogsInv, LogsTyped, WaitingIsServed
    <3>5. CancellingLeft' /\ JoinedGoesOn'
      BY <1>0, <1>2, <1>3, <1>7, <3>2 DEF LogsInv, LogsTyped, CancellingLeft, JoinedGoesOn
    <3>6. OthersEnd'
      BY <1>0, <1>2, <1>3, <1>7, <1>11, <3>2 DEF LogsInv, OthersEnd
    <3> QED BY <1>8, <1>9, <3>4, <3>5, <3>6 DEF LogsInv
  <2>6. CASE fetches[f].waiters # 1
    <3>1. inflight' = inflight /\ reader'[r].pc = "done"
      BY <1>3, <1>a, <2>2, <2>6
    <3>2. JoinedGoesOn'
      <4>1. fetches'[f].waiters = Cardinality(W \ {r}) /\ fetches'[f].waiters > 0
        BY <1>4, <1>6, <2>1, <2>2, <2>4, <2>6
      <4>2. ~fetches'[f].finished /\ ~fetches'[f].cancelled
        BY <1>0, <1>2, <1>7, <2>1
      <4>3. WaitersOf(reader', inflight') = W \ {r}
        BY <1>0, <1>11, <2>3, <3>1, Zenon
      <4> QED BY <1>0, <1>11, <2>4, <3>1, <4>1, <4>2, <4>3 DEF JoinedGoesOn
    <3>a. WaitingIsServed'
      BY <1>0, <1>2, <1>3, <1>7, <1>11, <3>1 DEF LogsInv, LogsTyped, WaitingIsServed
    <3>b. CancellingLeft'
      BY <1>0, <1>2, <1>3, <3>1 DEF LogsInv, CancellingLeft
    <3>c. OthersEnd'
      BY <1>0, <1>2, <1>3, <1>7, <1>11, <3>1 DEF LogsInv, OthersEnd
    <3>3. WaitingIsServed' /\ CancellingLeft' /\ OthersEnd'
      BY <3>a, <3>b, <3>c
    <3> QED BY <1>8, <1>9, <3>2, <3>3 DEF LogsInv
  <2> QED BY <2>5, <2>6
<1> QED BY <1>10, <1>11

\* Who cancels does it to a fetch that nobody can join.
LEMMA LogsInvCancel == ASSUME LogsInv, NEW r \in Readers, CancelFetch(r) PROVE LogsInv'
<1> USE DEF NoFetch
<1>0. PICK f : f = reader[r].fetch
  OBVIOUS
<1>1. PICK n \in Nat : fetches \in [1 .. n -> FetchStates]
  BY DEF LogsInv, LogsTyped
<1>2. /\ reader \in [Readers -> ReaderStates] /\ reader[r].pc = "cancelling" /\ f \in 1 .. n
      /\ inflight' = inflight /\ gone' = gone /\ f # inflight
  BY <1>0, <1>1 DEF CancelFetch, LogsInv, LogsTyped, CancellingLeft
<1>3. /\ reader' \in [Readers -> ReaderStates]
      /\ reader'[r].fetch = f /\ reader'[r].answer = reader[r].answer /\ reader'[r].pc = "done"
      /\ \A q \in Readers \ {r} : reader'[q] = reader[q]
  BY <1>0, <1>2 DEF CancelFetch, ReaderStates, ReaderPlaces
<1>4. fetches' = FetchStopped(fetches, f)
  BY <1>0 DEF CancelFetch, FetchStopped
<1>5. /\ fetches' \in [1 .. n -> FetchStates]
      /\ fetches'[f].cancelled /\ fetches'[f].finished = fetches[f].finished
      /\ fetches'[f].result = fetches[f].result
      /\ \A g \in 1 .. n \ {f} : fetches'[g] = fetches[g]
  <2> DEFINE D == 1 .. n
  <2>1. fetches \in [D -> FetchStates] /\ f \in D
    BY <1>1, <1>2
  <2> HIDE DEF D
  <2>2. /\ fetches' \in [D -> FetchStates]
        /\ fetches'[f].cancelled /\ fetches'[f].finished = fetches[f].finished
        /\ fetches'[f].result = fetches[f].result
        /\ \A g \in D \ {f} : fetches'[g] = fetches[g]
    BY <2>1, <1>4, FetchCancelled
  <2> QED BY <2>2 DEF D
<1>6. /\ \A g \in 1 .. n : /\ fetches[g].finished => fetches'[g].finished
                           /\ fetches'[g].result = fetches[g].result
                           /\ fetches[g].cancelled => fetches'[g].cancelled
      /\ inflight \in 1 .. n => fetches'[inflight] = fetches[inflight]
      /\ DOMAIN fetches' = 1 .. n /\ DOMAIN fetches = 1 .. n
  <2>1. \A g \in 1 .. n : /\ fetches[g].finished => fetches'[g].finished
                          /\ fetches'[g].result = fetches[g].result
                          /\ fetches[g].cancelled => fetches'[g].cancelled
    BY <1>5, Zenon
  <2> QED BY <1>1, <1>2, <1>5, <2>1
<1>7. LogsTyped'
  BY <1>0, <1>2, <1>3, <1>5, <1>6 DEF LogsTyped, LogsInv
<1>8. WaitersOf(reader', inflight') = WaitersOf(reader, inflight)
  BY <1>0, <1>2, <1>3 DEF WaitersOf
<1>9. JoinedGoesOn'
  BY <1>0, <1>2, <1>6, <1>8 DEF LogsInv, LogsTyped, JoinedGoesOn
<1>a. WaitingIsServed'
  <2> SUFFICES ASSUME NEW q \in Readers, reader'[q].pc = "waiting", reader'[q].fetch # inflight'
               PROVE  fetches'[reader'[q].fetch].finished /\ fetches'[reader'[q].fetch].result # "cancelled"
    BY DEF WaitingIsServed
  <2>1. q # r /\ reader'[q] = reader[q]
    BY <1>3
  <2>2. reader[q].fetch \in 1 .. n
    BY <1>6, <2>1 DEF LogsInv, LogsTyped
  <2>3. fetches[reader[q].fetch].finished /\ fetches[reader[q].fetch].result # "cancelled"
    BY <1>2, <2>1 DEF LogsInv, WaitingIsServed
  <2>4. fetches'[reader[q].fetch].finished
    BY <1>6, <2>2, <2>3
  <2>5. fetches'[reader[q].fetch].result = fetches[reader[q].fetch].result
    BY <1>6, <2>2
  <2> QED BY <2>1, <2>3, <2>4, <2>5
<1>b. CancellingLeft'
  BY <1>0, <1>2, <1>3 DEF LogsInv, CancellingLeft
<1>10. WaitingIsServed' /\ CancellingLeft' /\ AnswersHonest'
  BY <1>0, <1>2, <1>3, <1>a, <1>b DEF LogsInv, AnswersHonest
<1>11. OthersEnd'
  <2> SUFFICES ASSUME NEW g \in DOMAIN fetches', ~fetches'[g].cancelled, g # inflight'
               PROVE  \E q \in Readers : reader'[q].pc = "cancelling" /\ reader'[q].fetch = g
    BY DEF OthersEnd
  <2>0. g \in 1 .. n /\ g \in DOMAIN fetches /\ g # inflight
    BY <1>2, <1>6
  <2>1. g \in DOMAIN fetches /\ g # f /\ ~fetches[g].cancelled /\ g # inflight
    BY <1>5, <1>6, <2>0, Zenon
  <2>2. PICK q \in Readers : reader[q].pc = "cancelling" /\ reader[q].fetch = g
    BY <2>1 DEF LogsInv, OthersEnd
  <2> QED BY <1>0, <1>3, <2>1, <2>2
<1> QED BY <1>7, <1>9, <1>10, <1>11 DEF LogsInv

\* A fetch that ends has an answer, unless nobody could join it.
LEMMA LogsInvFinish == ASSUME LogsInv, NEW f \in DOMAIN fetches, FinishFetch(f) PROVE LogsInv'
<1> USE DEF NoFetch
<1>1. PICK n \in Nat : fetches \in [1 .. n -> FetchStates]
  BY DEF LogsInv, LogsTyped
<1>2. PICK result : /\ fetches' = FetchResolved(fetches, f, result) /\ result \in FetchResults
                    /\ result = "cancelled" => fetches[f].cancelled
  BY Zenon DEF FinishFetch, FetchResolved, FetchResults
<1>a. result \in FetchResults /\ (result = "cancelled" => fetches[f].cancelled)
  BY <1>2
<1>3. /\ f \in 1 .. n /\ ~fetches[f].finished /\ reader' = reader /\ gone' = gone
      /\ inflight' = IF inflight = f THEN 0 ELSE inflight
      /\ DOMAIN fetches = 1 .. n
  BY <1>1 DEF FinishFetch
<1>4. /\ fetches' \in [1 .. n -> FetchStates] /\ DOMAIN fetches' = 1 .. n
      /\ fetches'[f].finished /\ fetches'[f].cancelled /\ fetches'[f].result = result
      /\ \A g \in 1 .. n \ {f} : fetches'[g] = fetches[g]
  <2> DEFINE D == 1 .. n
  <2>1. fetches \in [D -> FetchStates] /\ f \in D
    BY <1>1, <1>3
  <2> HIDE DEF D
  <2>2. /\ fetches' \in [D -> FetchStates]
        /\ fetches'[f].cancelled /\ fetches'[f].finished /\ fetches'[f].result = result
        /\ \A g \in D \ {f} : fetches'[g] = fetches[g]
    <3>1. fetches' = FetchResolved(fetches, f, result) /\ result \in FetchResults
      BY <1>2, <1>a
    <3>2. LET y == FetchResolved(fetches, f, result) IN
           /\ y \in [D -> FetchStates]
           /\ y[f].cancelled /\ y[f].finished /\ y[f].result = result
           /\ \A g \in D \ {f} : y[g] = fetches[g]
      BY <2>1, <3>1, FetchFinished
    <3> QED BY <3>1, <3>2
  <2> QED BY <2>2 DEF D
<1>5. LogsTyped'
  BY <1>3, <1>4 DEF LogsTyped, LogsInv
<1>b. f # 0 /\ inflight \in {0} \cup 1 .. n
  <2>1. f # 0
    BY <1>1, <1>3
  <2>2. inflight \in {0} \cup DOMAIN fetches
    BY DEF LogsInv, LogsTyped
  <2> QED BY <1>3, <2>1, <2>2
<1>c. WaitersOf(reader', inflight') = {r \in Readers : reader[r].pc = "waiting" /\ reader[r].fetch = inflight'}
  BY <1>3 DEF WaitersOf
<1>6. JoinedGoesOn'
  <2> SUFFICES ASSUME inflight' # 0 PROVE JoinedGoesOn'
    BY DEF JoinedGoesOn
  <2>1. inflight' = inflight /\ inflight # f /\ fetches'[inflight] = fetches[inflight]
    BY <1>3, <1>4, <1>b
  <2>2. WaitersOf(reader', inflight') = WaitersOf(reader, inflight)
    BY <1>c, <2>1 DEF WaitersOf
  <2> QED BY <2>1, <2>2 DEF LogsInv, JoinedGoesOn
<1>7. inflight = f => result # "cancelled"
  BY <1>3, <1>a, <1>b DEF LogsInv, JoinedGoesOn
<1>d. WaitingIsServed'
  <2> SUFFICES ASSUME NEW q \in Readers, reader[q].pc = "waiting", reader[q].fetch # inflight'
               PROVE  fetches'[reader[q].fetch].finished /\ fetches'[reader[q].fetch].result # "cancelled"
    BY <1>3 DEF WaitingIsServed
  <2>1. reader[q].fetch \in 1 .. n
    BY <1>3 DEF LogsInv, LogsTyped
  <2>2. CASE reader[q].fetch = inflight
    BY <1>3, <1>4, <1>7, <2>2
  <2>3. CASE reader[q].fetch # inflight
    BY <1>3, <1>4, <2>1, <2>3 DEF LogsInv, WaitingIsServed
  <2> QED BY <2>2, <2>3
<1>e. CancellingLeft'
  <2> SUFFICES ASSUME NEW q \in Readers, reader[q].pc = "cancelling" PROVE reader[q].fetch # inflight'
    BY <1>3 DEF CancellingLeft
  <2>1. reader[q].fetch \in 1 .. n /\ reader[q].fetch # inflight
    BY <1>3 DEF LogsInv, LogsTyped, CancellingLeft
  <2>2. inflight' \in {0, inflight}
    BY <1>3
  <2> QED BY <2>1, <2>2
<1>8. WaitingIsServed' /\ CancellingLeft' /\ AnswersHonest'
  BY <1>3, <1>d, <1>e DEF LogsInv, AnswersHonest
<1>9. OthersEnd'
  BY <1>3, <1>4 DEF LogsInv, OthersEnd
<1> QED BY <1>5, <1>6, <1>8, <1>9 DEF LogsInv

LEMMA LogsInvNext == LogsInv /\ [LogsNext]_logVars => LogsInv'
<1> SUFFICES ASSUME LogsInv, [LogsNext]_logVars PROVE LogsInv'
    OBVIOUS
<1>1. CASE UNCHANGED logVars
  BY <1>1 DEF logVars, LogsInv, LogsTyped, JoinedGoesOn, WaitingIsServed, CancellingLeft, OthersEnd,
              AnswersHonest, WaitersOf
<1>2. ASSUME NEW r \in Readers, BeginFetch(r) \/ GoAway(r) \/ TakeAnswer(r) \/ Leave(r) \/ CancelFetch(r)
      PROVE LogsInv'
  BY <1>2, LogsInvBegin, LogsInvGoAway, LogsInvTake, LogsInvLeave, LogsInvCancel
<1>3. ASSUME NEW f \in DOMAIN fetches, FinishFetch(f) PROVE LogsInv'
  BY <1>3, LogsInvFinish
<1> QED BY <1>1, <1>2, <1>3 DEF LogsNext

(* Nobody who stays is told that the fetch was cancelled, though others join   *)
(* and leave it, and no fetch goes on for nobody                              *)
(* (service/request_log.go: the calls that share one fetch).                  *)
THEOREM LogFetchesAreShared == LogsSpec => []LogFetchIsShared
<1> QED BY LogsInvInit, LogsInvNext, LogsInvShared, PTL DEF LogsSpec

-----------------------------------------------------------------------------
(* The tokens of downloads. A token that can be used has let nothing through, *)
(* and is the one that was issued, with its event and its end.                *)

IssuedTokens == [token : LogTokens, event : LogEvents, issued : Int,
                 served : SUBSET [at : Int, event : LogEvents]]

TokensTyped == logClock \in Int /\ downloads \subseteq IssuedTokens

\* Every token that can be used was issued.
TokensIssued == \A t \in tokens : \E d \in downloads : d.token = t.token

\* It is for the event it was issued for, as long as promised, and unused.
TokensUnused ==
    \A t \in tokens : \A d \in downloads : t.token = d.token =>
        t.event = d.event /\ t.until = d.issued + TokenTTL /\ d.served = {}

\* One that was used let one download of its event through in time.
ServedOnce ==
    \A d \in downloads : \A s \in d.served :
        d.served = {s} /\ s.event = d.event /\ s.at < d.issued + TokenTTL

TokensInv == TokensTyped /\ TokensIssued /\ TokensUnused /\ ServedOnce

LEMMA TokensInvOnce == TokensInv => DownloadTokensWorkOnce
<1> SUFFICES ASSUME TokensInv, NEW d \in downloads
             PROVE  Cardinality(d.served) <= 1
                    /\ \A s \in d.served : s.event = d.event /\ s.at < d.issued + TokenTTL
    BY Zenon DEF DownloadTokensWorkOnce
<1>1. \A s \in d.served : d.served = {s} /\ s.event = d.event /\ s.at < d.issued + TokenTTL
  BY DEF TokensInv, ServedOnce
<1>2. CASE d.served = {}
  BY <1>2, FS_EmptySet
<1>3. CASE d.served # {}
  <2>1. PICK s : d.served = {s}
    BY <1>1, <1>3
  <2>2. Cardinality({s}) = 1
    BY FS_Singleton
  <2> QED BY <1>1, <2>1, <2>2
<1> QED BY <1>2, <1>3

LEMMA TokensInvIssue == TokensInv /\ IssueToken => TokensInv'
<1> SUFFICES ASSUME TokensInv, IssueToken PROVE TokensInv'
    OBVIOUS
<1>1. PICK token \in LogTokens : \E event \in LogEvents :
        /\ token \notin {d.token : d \in downloads}
        /\ tokens' = {t \in tokens : logClock < t.until}
                        \cup {[token |-> token, event |-> event, until |-> logClock + TokenTTL]}
        /\ downloads' = downloads \cup
              {[token |-> token, event |-> event, issued |-> logClock, served |-> {}]}
  BY DEF IssueToken
<1>2. PICK event \in LogEvents :
        /\ token \notin {d.token : d \in downloads}
        /\ tokens' = {t \in tokens : logClock < t.until}
                        \cup {[token |-> token, event |-> event, until |-> logClock + TokenTTL]}
        /\ downloads' = downloads \cup
              {[token |-> token, event |-> event, issued |-> logClock, served |-> {}]}
  BY <1>1
<1> DEFINE new == [token |-> token, event |-> event, until |-> logClock + TokenTTL]
           rec == [token |-> token, event |-> event, issued |-> logClock, served |-> {}]
<1>3. logClock \in Int /\ logClock' = logClock /\ downloads \subseteq IssuedTokens
  BY DEF IssueToken, TokensInv, TokensTyped
<1>4. rec \in IssuedTokens
  BY <1>3 DEF IssuedTokens
<1>5. /\ rec.token = token /\ rec.event = event /\ rec.issued = logClock /\ rec.served = {}
      /\ new.token = token /\ new.event = event /\ new.until = logClock + TokenTTL
  OBVIOUS
<1>6. /\ downloads' = downloads \cup {rec}
      /\ \A t \in tokens' : t \in tokens \/ t = new
      /\ \A d \in downloads : d.token # token
  BY <1>2
<1> HIDE DEF new, rec
<1>7. \A t \in tokens : t.token # token
  BY <1>6 DEF TokensInv, TokensIssued
<1>8. TokensTyped'
  BY <1>3, <1>4, <1>6 DEF TokensTyped
<1>9. TokensIssued'
  BY <1>5, <1>6 DEF TokensInv, TokensIssued
<1>10. TokensUnused'
  BY <1>5, <1>6, <1>7 DEF TokensInv, TokensUnused
<1>11. ServedOnce'
  BY <1>5, <1>6 DEF TokensInv, ServedOnce
<1> QED BY <1>8, <1>9, <1>10, <1>11 DEF TokensInv

LEMMA TokensInvConsume == TokensInv /\ ConsumeToken => TokensInv'
<1> SUFFICES ASSUME TokensInv, ConsumeToken PROVE TokensInv'
    OBVIOUS
<1> DEFINE Good(d) == {t \in tokens : t.token = d.token}
           Served(d, event) == [d EXCEPT !.served = @ \cup {[at |-> logClock, event |-> event]}]
<1>1. PICK d \in downloads : \E event \in LogEvents :
        /\ tokens' = tokens \ Good(d)
        /\ downloads' = IF \E t \in Good(d) : logClock < t.until /\ t.event = event
                        THEN (downloads \ {d}) \cup {Served(d, event)} ELSE downloads
  BY DEF ConsumeToken
<1>2. PICK event \in LogEvents :
        /\ tokens' = tokens \ Good(d)
        /\ downloads' = IF \E t \in Good(d) : logClock < t.until /\ t.event = event
                        THEN (downloads \ {d}) \cup {Served(d, event)} ELSE downloads
  BY <1>1
<1>3. logClock \in Int /\ logClock' = logClock /\ downloads \subseteq IssuedTokens
  BY DEF ConsumeToken, TokensInv, TokensTyped
<1>4. \A t \in tokens' : t \in tokens /\ t.token # d.token
  BY <1>2
<1>5. CASE ~\E t \in Good(d) : logClock < t.until /\ t.event = event
  <2>1. downloads' = downloads
    BY <1>2, <1>5
  <2> QED BY <1>3, <1>4, <2>1 DEF TokensInv, TokensTyped, TokensIssued, TokensUnused, ServedOnce
<1>6. CASE \E t \in Good(d) : logClock < t.until /\ t.event = event
  <2> DEFINE s == [at |-> logClock, event |-> event]
             used == [d EXCEPT !.served = @ \cup {s}]
  <2>1. downloads' = (downloads \ {d}) \cup {used}
    BY <1>2, <1>6
  <2>2. PICK t \in tokens : t.token = d.token /\ logClock < t.until /\ t.event = event
    BY <1>6
  <2>3. d.served = {} /\ d.event = event /\ logClock < d.issued + TokenTTL
    BY <2>2 DEF TokensInv, TokensUnused
  <2>4. s \in [at : Int, event : LogEvents] /\ s.event = event /\ s.at = logClock
    BY <1>3
  <2>5. d \in IssuedTokens
    BY <1>3
  <2> HIDE DEF s
  <2>6. /\ used \in IssuedTokens /\ used.token = d.token /\ used.event = d.event
        /\ used.issued = d.issued /\ used.served = {s}
    BY <2>3, <2>4, <2>5 DEF IssuedTokens
  <2> HIDE DEF used
  <2>7. TokensTyped'
    BY <1>3, <2>1, <2>6 DEF TokensTyped
  <2>8. TokensIssued'
    BY <1>4, <2>1 DEF TokensInv, TokensIssued
  <2>9. TokensUnused'
    BY <1>4, <2>1, <2>6 DEF TokensInv, TokensUnused
  <2>10. ServedOnce'
    BY <2>1, <2>3, <2>4, <2>6 DEF TokensInv, ServedOnce
  <2> QED BY <2>7, <2>8, <2>9, <2>10 DEF TokensInv
<1> QED BY <1>5, <1>6

LEMMA TokensInvNext == TokensInv /\ [TokensNext]_tokenVars => TokensInv'
<1> SUFFICES ASSUME TokensInv, [TokensNext]_tokenVars PROVE TokensInv'
    OBVIOUS
<1>1. CASE LogTick
  BY <1>1 DEF LogTick, TokensInv, TokensTyped, TokensIssued, TokensUnused, ServedOnce
<1>2. CASE UNCHANGED tokenVars
  BY <1>2 DEF tokenVars, TokensInv, TokensTyped, TokensIssued, TokensUnused, ServedOnce
<1> QED BY <1>1, <1>2, TokensInvIssue, TokensInvConsume DEF TokensNext

(* A token lets one download through, of the event it was issued for and      *)
(* before it is too old (api/request_log_download_token.go).                  *)
THEOREM TokensWorkOnce == TokensSpec => []DownloadTokensWorkOnce
<1>1. TokensInit => TokensInv
  BY DEF TokensInit, TokensInv, TokensTyped, TokensIssued, TokensUnused, ServedOnce
<1> QED BY <1>1, TokensInvNext, TokensInvOnce, PTL DEF TokensSpec

-----------------------------------------------------------------------------
(* The event list, for any events, filters and sizes of a page. An orderly    *)
(* listing is unique, so the pages of a reader need only show the right events*)
(* in the right order to be the export.                                       *)

RowsTyped == listedRows \in Seq([at : Nat, kind : ListKinds])
ListedIds == 1 .. Len(listedRows)

InListOrder(s, S) ==
    /\ s \in [1 .. Cardinality(S) -> S]
    /\ \A i, j \in DOMAIN s : i < j => NewerThan(s[i], s[j])

LEMMA RowsHaveTimes ==
    ASSUME RowsTyped
    PROVE  /\ DOMAIN listedRows = ListedIds /\ ListedIds \subseteq Nat \ {0} /\ IsFiniteSet(ListedIds)
           /\ Len(listedRows) \in Nat /\ \A id \in ListedIds : listedRows[id].at \in Nat
<1>1. DOMAIN listedRows = ListedIds /\ Len(listedRows) \in Nat
  BY DEF RowsTyped, ListedIds
<1>2. IsFiniteSet(ListedIds)
  BY <1>1, FS_Interval DEF ListedIds
<1>3. \A id \in ListedIds : listedRows[id] \in [at : Nat, kind : ListKinds]
  <2> DEFINE Rows == [at : Nat, kind : ListKinds]
  <2>1. listedRows \in Seq(Rows)
    BY DEF RowsTyped
  <2> HIDE DEF Rows
  <2>2. \A id \in 1 .. Len(listedRows) : listedRows[id] \in Rows
    BY <2>1
  <2> QED BY <2>2 DEF Rows, ListedIds
<1> QED BY <1>1, <1>2, <1>3 DEF ListedIds

LEMMA NewerIsOrder ==
    ASSUME RowsTyped, NEW a \in ListedIds, NEW b \in ListedIds
    PROVE  /\ ~NewerThan(a, a)
           /\ a # b => NewerThan(a, b) \/ NewerThan(b, a)
           /\ ~(NewerThan(a, b) /\ NewerThan(b, a))
           /\ \A c \in ListedIds : NewerThan(a, b) /\ NewerThan(b, c) => NewerThan(a, c)
BY RowsHaveTimes DEF NewerThan

LEMMA OldestListed ==
    ASSUME RowsTyped, NEW S \in SUBSET ListedIds, S # {}
    PROVE  \E m \in S : \A e \in S : e # m => NewerThan(e, m)
<1> DEFINE times == {listedRows[e].at : e \in S}
<1>1. times \subseteq Nat /\ times # {}
  BY RowsHaveTimes
<1>2. PICK t \in times : \A u \in times : t <= u
  BY <1>1, NaturalsHaveLeast
<1> DEFINE ids == {e \in S : listedRows[e].at = t}
<1>3. ids \subseteq Nat /\ ids # {}
  BY <1>2, RowsHaveTimes
<1>4. PICK m \in ids : \A j \in ids : m <= j
  BY <1>3, NaturalsHaveLeast
<1>5. ASSUME NEW e \in S, e # m PROVE NewerThan(e, m)
  <2>1. listedRows[e].at \in Nat /\ listedRows[m].at = t /\ e \in Nat /\ m \in Nat /\ t \in Nat
        /\ listedRows[e].at >= t
    BY <1>1, <1>2, <1>4, RowsHaveTimes
  <2>2. CASE listedRows[e].at = t
    BY <1>4, <1>5, <2>1, <2>2 DEF NewerThan
  <2>3. CASE listedRows[e].at # t
    BY <2>1, <2>3 DEF NewerThan
  <2> QED BY <2>2, <2>3
<1> QED BY <1>4, <1>5

LEMMA OneMoreListed ==
    ASSUME NEW S, IsFiniteSet(S), NEW m \in S,
           \A e \in S : e # m => NewerThan(e, m), NEW s, InListOrder(s, S \ {m})
    PROVE  \E z : InListOrder(z, S)
<1> DEFINE n == Cardinality(S)
<1>1. n \in Nat /\ n > 0 /\ Cardinality(S \ {m}) = n - 1
  <2>1. Cardinality(S \ {m}) = n - 1 /\ IsFiniteSet(S \ {m})
    BY FS_RemoveElement
  <2>2. n \in Nat /\ Cardinality(S \ {m}) \in Nat
    BY <2>1, FS_CardinalityType
  <2> QED BY <2>1, <2>2
<1> HIDE DEF n
<1>2. s \in [1 .. n - 1 -> S \ {m}] /\ \A i, j \in 1 .. n - 1 : i < j => NewerThan(s[i], s[j])
  BY <1>1 DEF InListOrder
<1> DEFINE z == [i \in 1 .. n |-> IF i = n THEN m ELSE s[i]]
<1>3. z \in [1 .. n -> S]
  BY <1>1, <1>2
<1>4. ASSUME NEW i \in 1 .. n, NEW j \in 1 .. n, i < j PROVE NewerThan(z[i], z[j])
  <2>1. i \in 1 .. n - 1 /\ z[i] = s[i] /\ s[i] \in S /\ s[i] # m
    BY <1>1, <1>2, <1>4
  <2>2. CASE j = n
    BY <2>1, <2>2
  <2>3. CASE j # n
    <3>1. j \in 1 .. n - 1 /\ z[j] = s[j]
      BY <1>1, <2>3
    <3> QED BY <1>2, <1>4, <2>1, <3>1
  <2> QED BY <2>2, <2>3
<1>5. InListOrder(z, S)
  BY <1>3, <1>4 DEF InListOrder, n
<1> QED BY <1>5

\* A smallest set that could not be put in order would have an oldest event to take away.
LEMMA ListCanBeSorted ==
    ASSUME RowsTyped, NEW E \in SUBSET ListedIds
    PROVE  \E s : InListOrder(s, E)
<1> DEFINE Unsorted == {S \in SUBSET E : \A s : ~InListOrder(s, S)}
           sizes == {Cardinality(S) : S \in Unsorted}
<1> SUFFICES ASSUME E \in Unsorted PROVE FALSE
    OBVIOUS
<1>1. \A S \in SUBSET E : IsFiniteSet(S) /\ Cardinality(S) \in Nat
  BY RowsHaveTimes, FS_Subset, FS_CardinalityType
<1>2. sizes \subseteq Nat /\ sizes # {}
  BY <1>1
<1>3. PICK n \in sizes : \A k \in sizes : n <= k
  BY <1>2, NaturalsHaveLeast
<1>4. PICK S \in Unsorted : Cardinality(S) = n
  BY <1>3
<1>5. S # {}
  <2> SUFFICES ASSUME S = {} PROVE FALSE
      OBVIOUS
  <2>1. Cardinality(S) = 0
    BY FS_EmptySet
  <2> DEFINE none == [i \in 1 .. 0 |-> 0]
  <2>2. none \in [1 .. 0 -> S] /\ DOMAIN none = {}
    OBVIOUS
  <2>3. InListOrder(none, S)
    BY <2>1, <2>2 DEF InListOrder
  <2> QED BY <1>4, <2>3
<1>6. PICK m \in S : \A e \in S : e # m => NewerThan(e, m)
  BY <1>4, <1>5, OldestListed
<1>7. S \ {m} \in SUBSET E /\ Cardinality(S \ {m}) = n - 1 /\ n \in Nat
  BY <1>1, <1>2, <1>4, FS_RemoveElement
<1>8. S \ {m} \notin Unsorted
  <2>1. ~(n <= n - 1)
    BY <1>7
  <2> QED BY <1>3, <1>7, <2>1
<1>9. PICK s : InListOrder(s, S \ {m})
  BY <1>7, <1>8
<1> QED BY <1>1, <1>4, <1>6, <1>9, OneMoreListed

LEMMA NewestFirstSorts ==
    ASSUME RowsTyped, NEW S \in SUBSET ListedIds
    PROVE  InListOrder(NewestFirst(S), S)
<1>1. PICK s : InListOrder(s, S)
  BY ListCanBeSorted
<1>2. \E z \in [1 .. Cardinality(S) -> S] : \A i, j \in DOMAIN z : i < j => NewerThan(z[i], z[j])
  BY <1>1 DEF InListOrder
<1> QED BY <1>2 DEF NewestFirst, InListOrder

\* What a sorted listing is: every event once, those newer than the k-th before it.
LEMMA SortedListing ==
    ASSUME RowsTyped, NEW S \in SUBSET ListedIds, NEW s, s = NewestFirst(S)
    PROVE  /\ s \in Seq(S) /\ Len(s) = Cardinality(S) /\ Cardinality(S) \in Nat
           /\ \A i, j \in 1 .. Len(s) : i < j => NewerThan(s[i], s[j])
           /\ \A e \in S : \E i \in 1 .. Len(s) : s[i] = e
<1> DEFINE n == Cardinality(S)
<1>0. IsFiniteSet(S) /\ n \in Nat
  BY RowsHaveTimes, FS_Subset, FS_CardinalityType
<1>1. s \in [1 .. n -> S] /\ \A i, j \in 1 .. n : i < j => NewerThan(s[i], s[j])
  BY NewestFirstSorts DEF InListOrder
<1>2. IsFiniteSet(1 .. n) /\ Cardinality(1 .. n) = n
  <2>1. IsFiniteSet(1 .. n) /\ Cardinality(1 .. n) = IF 1 > n THEN 0 ELSE n - 1 + 1
    BY <1>0, FS_Interval
  <2> QED BY <1>0, <2>1
<1>3. s \in Injection(1 .. n, S)
  <2>1. ASSUME NEW i \in 1 .. n, NEW j \in 1 .. n, i < j PROVE s[i] # s[j]
    BY <1>1, <2>1, NewerIsOrder
  <2>2. \A i, j \in 1 .. n : s[i] = s[j] => i = j
    <3> SUFFICES ASSUME NEW i \in 1 .. n, NEW j \in 1 .. n, i # j PROVE s[i] # s[j]
        OBVIOUS
    <3>1. i < j \/ j < i
      BY <1>0
    <3> QED BY <2>1, <3>1
  <2> QED BY <1>1, <2>2 DEF Injection, IsInjective
<1>4. s \in Surjection(1 .. n, S)
  BY <1>0, <1>2, <1>3, FS_Injection
<1>5. \A e \in S : \E i \in 1 .. n : s[i] = e
  BY <1>4 DEF Surjection
<1> HIDE DEF n
<1>6. s \in Seq(S) /\ Len(s) = n
  BY <1>0, <1>1
<1> QED BY <1>0, <1>1, <1>5, <1>6 DEF n

\* How many come before an event of a listing.
LEMMA PlaceInListing ==
    ASSUME RowsTyped, NEW S \in SUBSET ListedIds, NEW s, s = NewestFirst(S), NEW k \in 1 .. Len(s)
    PROVE  Cardinality({x \in S : NewerThan(x, s[k])}) = k - 1
<1> DEFINE T == {x \in S : NewerThan(x, s[k])}
           head == [i \in 1 .. k - 1 |-> s[i]]
<1>0. /\ s \in Seq(S) /\ Len(s) = Cardinality(S) /\ Cardinality(S) \in Nat
      /\ \A i, j \in 1 .. Len(s) : i < j => NewerThan(s[i], s[j])
      /\ \A e \in S : \E i \in 1 .. Len(s) : s[i] = e
  BY SortedListing
<1>1. /\ s \in Seq(S) /\ Len(s) \in Nat /\ k \in Nat /\ k > 0
      /\ \A i, j \in 1 .. Len(s) : i < j => NewerThan(s[i], s[j])
      /\ \A e \in S : \E i \in 1 .. Len(s) : s[i] = e
  BY <1>0
<1>2. \A i \in 1 .. Len(s) : s[i] \in S /\ s[i] \in ListedIds
  BY <1>1
<1>3. ASSUME NEW i \in 1 .. k - 1 PROVE i \in 1 .. Len(s) /\ i < k /\ head[i] = s[i] /\ s[i] \in T
  <2>1. i \in 1 .. Len(s) /\ i < k
    BY <1>1
  <2> QED BY <1>1, <1>2, <2>1
<1>4. ASSUME NEW x \in T PROVE \E i \in 1 .. k - 1 : head[i] = x
  <2>1. PICK i \in 1 .. Len(s) : s[i] = x
    BY <1>1
  <2>2. i # k
    BY <1>2, <2>1, NewerIsOrder
  <2>3. ~(k < i)
    BY <1>1, <1>2, <2>1, NewerIsOrder
  <2>4. i \in 1 .. k - 1
    BY <1>1, <2>2, <2>3
  <2> QED BY <2>1, <2>4
<1>5. ASSUME NEW i \in 1 .. k - 1, NEW j \in 1 .. k - 1, head[i] = head[j] PROVE i = j
  <2>1. ~(i < j) /\ ~(j < i)
    BY <1>1, <1>2, <1>3, <1>5, NewerIsOrder
  <2> QED BY <1>1, <2>1
<1>6. head \in Bijection(1 .. k - 1, T)
  <2>1. head \in [1 .. k - 1 -> T]
    BY <1>3
  <2> HIDE DEF T, head
  <2> QED BY <1>4, <1>5, <2>1 DEF Bijection, Injection, Surjection, IsInjective
<1>7. IsFiniteSet(1 .. k - 1) /\ Cardinality(1 .. k - 1) = k - 1
  <2> DEFINE m == k - 1
  <2>1. m \in Nat /\ 1 \in Int /\ m \in Int
    BY <1>1
  <2> HIDE DEF m
  <2>2. IsFiniteSet(1 .. m) /\ Cardinality(1 .. m) = IF 1 > m THEN 0 ELSE m - 1 + 1
    BY <2>1, FS_Interval
  <2>3. IsFiniteSet(1 .. m) /\ Cardinality(1 .. m) = m
    BY <2>1, <2>2
  <2> QED BY <2>3 DEF m
<1> HIDE DEF T, head
<1>8. Cardinality(1 .. k - 1) = Cardinality(T)
  <2>1. ExistsBijection(1 .. k - 1, T)
    BY <1>6 DEF ExistsBijection
  <2> QED BY <1>7, <2>1, FS_Bijection
<1> QED BY <1>7, <1>8 DEF T

\* Two orderly listings of the same events are the same: the first place at which
\* they differed would have each of the two events before the other.
LEMMA ListingIsUnique ==
    ASSUME RowsTyped, NEW S \in SUBSET ListedIds, NEW f \in Seq(S), NEW g \in Seq(S),
           \A i, j \in 1 .. Len(f) : i < j => NewerThan(f[i], f[j]),
           \A i, j \in 1 .. Len(g) : i < j => NewerThan(g[i], g[j]),
           \A e \in S : (\E i \in 1 .. Len(f) : f[i] = e) /\ \E i \in 1 .. Len(g) : g[i] = e
    PROVE  f = g
<1> DEFINE odd == {i \in Nat : /\ i \in 1 .. Len(f) \/ i \in 1 .. Len(g)
                               /\ ~(i \in 1 .. Len(f) /\ i \in 1 .. Len(g) /\ f[i] = g[i])}
<1>1. /\ Len(f) \in Nat /\ Len(g) \in Nat
      /\ \A i \in 1 .. Len(f) : f[i] \in S /\ f[i] \in ListedIds
      /\ \A i \in 1 .. Len(g) : g[i] \in S /\ g[i] \in ListedIds
  OBVIOUS
<1>2. ASSUME odd # {} PROVE FALSE
  <2>1. PICK n \in odd : \A k \in odd : n <= k
    BY <1>2, NaturalsHaveLeast
  <2>2. ASSUME NEW k \in 1 .. n - 1 PROVE k \in 1 .. Len(f) /\ k \in 1 .. Len(g) /\ f[k] = g[k]
    <3>1. k \in Nat /\ k < n /\ n \in Nat /\ (k \in 1 .. Len(f) \/ k \in 1 .. Len(g))
      BY <1>1, <2>1
    <3>2. k \notin odd
      BY <2>1, <3>1
    <3> QED BY <3>1, <3>2
  <2>3. ASSUME NEW i \in 1 .. Len(f), NEW j \in 1 .. Len(g), f[i] = g[j], i = n \/ j = n,
               ~(i = n /\ j = n)
        PROVE  (i = n => j > n) /\ (j = n => i > n)
    <3>1. ASSUME i = n, j < n PROVE FALSE
      <4>1. f[j] = f[i] /\ j \in 1 .. Len(f) /\ j < i
        BY <1>1, <2>1, <2>2, <2>3, <3>1
      <4> QED BY <1>1, <4>1, NewerIsOrder
    <3>2. ASSUME j = n, i < n PROVE FALSE
      <4>1. g[j] = g[i] /\ i \in 1 .. Len(g) /\ i < j
        BY <1>1, <2>1, <2>2, <2>3, <3>2
      <4> QED BY <1>1, <4>1, NewerIsOrder
    <3>3. i \in Nat /\ j \in Nat /\ n \in Nat
      BY <1>1, <2>1
    <3>4. i = n => j > n
      BY <2>3, <3>1, <3>3
    <3>5. j = n => i > n
      BY <2>3, <3>2, <3>3
    <3> QED BY <3>4, <3>5
  <2>4. n \in 1 .. Len(f)
    <3> SUFFICES ASSUME n \notin 1 .. Len(f) PROVE FALSE
        OBVIOUS
    <3>1. n \in 1 .. Len(g)
      BY <2>1
    <3>2. PICK i \in 1 .. Len(f) : f[i] = g[n]
      BY <1>1, <3>1
    <3>3. i # n /\ i > n
      BY <2>3, <3>1, <3>2
    <3> QED BY <1>1, <2>1, <3>1, <3>3
  <2>5. n \in 1 .. Len(g)
    <3> SUFFICES ASSUME n \notin 1 .. Len(g) PROVE FALSE
        OBVIOUS
    <3>1. PICK i \in 1 .. Len(g) : f[n] = g[i]
      BY <1>1, <2>4
    <3>2. i # n /\ i > n
      BY <2>3, <2>4, <3>1
    <3> QED BY <1>1, <2>1, <2>4, <3>2
  <2>6. f[n] # g[n]
    BY <2>1, <2>4, <2>5
  <2>7. PICK j \in 1 .. Len(g) : f[n] = g[j]
    BY <1>1, <2>4
  <2>8. PICK i \in 1 .. Len(f) : f[i] = g[n]
    BY <1>1, <2>5
  <2>9. j > n /\ i > n
    BY <2>3, <2>4, <2>5, <2>6, <2>7, <2>8
  <2>10. NewerThan(g[n], f[n]) /\ NewerThan(f[n], g[n])
    BY <1>1, <2>4, <2>5, <2>7, <2>8, <2>9
  <2> QED BY <1>1, <2>4, <2>5, <2>10, NewerIsOrder
<1>3. Len(f) = Len(g)
  <2>0. \A p, q \in Nat : p < q => q \in 1 .. q /\ q \notin 1 .. p
    OBVIOUS
  <2>1. ASSUME Len(f) < Len(g) PROVE FALSE
    <3>1. Len(g) \in Nat /\ Len(g) \in 1 .. Len(g) /\ ~(Len(g) \in 1 .. Len(f))
      BY <1>1, <2>0, <2>1, Zenon
    <3> DEFINE n == Len(g)
    <3>2. n \in Nat /\ n \in 1 .. Len(g) /\ ~(n \in 1 .. Len(f))
      BY <3>1
    <3> HIDE DEF n
    <3>3. n \in odd
      BY <3>2
    <3> QED BY <1>2, <3>3
  <2>2. ASSUME Len(g) < Len(f) PROVE FALSE
    <3>1. Len(f) \in Nat /\ Len(f) \in 1 .. Len(f) /\ ~(Len(f) \in 1 .. Len(g))
      BY <1>1, <2>0, <2>2, Zenon
    <3> DEFINE n == Len(f)
    <3>2. n \in Nat /\ n \in 1 .. Len(f) /\ ~(n \in 1 .. Len(g))
      BY <3>1
    <3> HIDE DEF n
    <3>3. n \in odd
      BY <3>2
    <3> QED BY <1>2, <3>3
  <2> QED BY <1>1, <2>1, <2>2
<1>4. \A i \in 1 .. Len(f) : f[i] = g[i]
  <2> SUFFICES ASSUME NEW i \in 1 .. Len(f), f[i] # g[i] PROVE FALSE
      OBVIOUS
  <2>1. i \in odd
    BY <1>1, <1>3
  <2> QED BY <1>2, <2>1
<1> HIDE DEF odd
<1> QED BY <1>1, <1>3, <1>4, SeqEqual
-----------------------------------------------------------------------------
\* The reader.

Browses == [pc : {"idle", "count", "read", "done"}, cursorMode : BOOLEAN, skipCount : BOOLEAN,
            filter : ListFilters \cup {<<>>}, size : Nat, page : Nat, total : Int,
            cursor : [at : Nat, id : Nat], shown : Seq(Nat), known : Nat, counted : Nat]

ListTyped ==
    /\ RowsTyped /\ listFrom \in Nat /\ browse \in Browses
    /\ browse.known <= Len(listedRows) /\ browse.counted <= Len(listedRows)
    /\ browse.page > 0 /\ (browse.pc # "idle" => browse.size > 0)

Reading == browse.pc \in {"count", "read"}
Undisturbed == browse.known = Len(listedRows) /\ listFrom = Min(ListTimes)
WasThere(id) == id \in 1 .. browse.known /\ Matches(id, browse.filter)
IsShown(id) == \E i \in DOMAIN browse.shown : browse.shown[i] = id
NewerMatching(id) == {x \in MatchingIds(browse.filter) : NewerThan(x, id)}
Offset == (browse.page - 1) * browse.size

Unbegun == /\ browse.pc = "idle" =>
                /\ browse.shown = <<>> /\ browse.page = 1 /\ browse.cursor = FirstPage
                /\ listFrom = Min(ListTimes)
           /\ listFrom >= Min(ListTimes)

ShownAsAsked ==
    \A i \in DOMAIN browse.shown :
        /\ browse.shown[i] \in ListedIds
        /\ browse.filter.model \in {Unfiltered, listedRows[browse.shown[i]].kind.model}

(* what was shown lies up to the cursor, and all there was lies beyond        *)
ByCursor ==
    browse.cursorMode =>
        /\ \A i, j \in DOMAIN browse.shown : i < j => NewerThan(browse.shown[i], browse.shown[j])
        /\ Undisturbed => \A i \in DOMAIN browse.shown : Matches(browse.shown[i], browse.filter)
        /\ Reading /\ browse.cursor = FirstPage => browse.shown = <<>>
        /\ Reading /\ browse.cursor # FirstPage =>
              \A i \in DOMAIN browse.shown : ~BeyondCursor(browse.cursor, browse.shown[i])
        /\ Reading => \A id : WasThere(id) =>
              IsShown(id) \/ browse.cursor = FirstPage \/ BeyondCursor(browse.cursor, id)
        /\ browse.pc = "done" => \A id : WasThere(id) => IsShown(id)

(* the pages gone through show the beginning of the list                      *)
Beginning ==
    LET rows == EventsOf(browse.filter)
    IN /\ Len(browse.shown) <= Offset /\ Len(browse.shown) <= Len(rows)
       /\ Len(browse.shown) = Offset \/ Len(browse.shown) = Len(rows)
       /\ \A i \in 1 .. Len(browse.shown) : browse.shown[i] = rows[i]

(* events only move on to later pages, and the count of the last page tells   *)
(* how many there were                                                        *)
ByPage ==
    ~browse.cursorMode =>
        /\ ~browse.skipCount
        /\ Reading => \A id : WasThere(id) => IsShown(id) \/ Cardinality(NewerMatching(id)) >= Offset
        /\ Reading /\ Undisturbed => Beginning
        /\ browse.pc = "read" =>
              /\ browse.total \in Nat
              /\ browse.total >= Cardinality({id \in 1 .. browse.counted : Matches(id, browse.filter)})
              /\ Undisturbed => browse.total = Cardinality(MatchingIds(browse.filter))
        /\ browse.pc = "done" =>
              Cardinality({id \in 1 .. browse.known : WasThere(id) /\ ~IsShown(id)})
                  <= Len(listedRows) - browse.counted
        /\ browse.pc = "done" /\ Undisturbed => browse.shown = EventsOf(browse.filter)

ListInv == ListTyped /\ Unbegun /\ ShownAsAsked /\ ByCursor /\ ByPage

LEMMA EarliestTime == Min(ListTimes) \in Nat
<1>1. ListTimes \subseteq Nat /\ ListTimes # {}
  BY ListAssumption
<1>2. \E t \in ListTimes : \A u \in ListTimes : t <= u
  BY <1>1, NaturalsHaveLeast
<1>3. Min(ListTimes) \in ListTimes
  BY <1>2 DEF Min
<1> QED BY <1>1, <1>3

LEMMA ListStarts == ListInit => ListInv
<1> SUFFICES ASSUME ListInit PROVE ListInv
    OBVIOUS
<1>1. listedRows = <<>> /\ Len(listedRows) = 0 /\ listFrom = Min(ListTimes)
  BY DEF ListInit
<1>2. /\ browse.pc = "idle" /\ browse.cursorMode = FALSE /\ browse.skipCount = FALSE
      /\ browse.shown = <<>> /\ browse.page = 1 /\ browse.cursor = FirstPage /\ browse.known = 0
      /\ browse.counted = 0
  BY DEF ListInit
<1>3. browse \in Browses
  BY DEF ListInit, Browses, NotCounted, FirstPage
<1>4. ListTyped
  BY <1>1, <1>2, <1>3, EarliestTime DEF ListTyped, RowsTyped
<1>5. Unbegun /\ ShownAsAsked
  BY <1>1, <1>2, EarliestTime DEF Unbegun, ShownAsAsked
<1>6. ByCursor /\ ByPage
  BY <1>2 DEF ByCursor, ByPage, Reading
<1> QED BY <1>4, <1>5, <1>6 DEF ListInv

\* What all of the reader's facts rest on.
LEMMA BrowseTypes ==
    ASSUME ListTyped
    PROVE  /\ browse.pc \in {"idle", "count", "read", "done"} /\ browse.cursorMode \in BOOLEAN
           /\ browse.skipCount \in BOOLEAN /\ browse.size \in Nat /\ browse.page \in Nat \ {0}
           /\ browse.total \in Int /\ browse.cursor \in [at : Nat, id : Nat]
           /\ browse.shown \in Seq(Nat) /\ DOMAIN browse.shown = 1 .. Len(browse.shown)
           /\ Len(browse.shown) \in Nat
           /\ browse.known \in Nat /\ browse.counted \in Nat /\ Len(listedRows) \in Nat
           /\ browse.known <= Len(listedRows) /\ browse.counted <= Len(listedRows)
           /\ 1 .. browse.known \subseteq ListedIds /\ 1 .. browse.counted \subseteq ListedIds
           /\ MatchingIds(browse.filter) \subseteq ListedIds
<1>1. browse \in Browses /\ Len(listedRows) \in Nat /\ browse.page > 0
      /\ browse.known <= Len(listedRows) /\ browse.counted <= Len(listedRows)
  BY RowsHaveTimes DEF ListTyped
<1>2. /\ browse.pc \in {"idle", "count", "read", "done"} /\ browse.cursorMode \in BOOLEAN
      /\ browse.skipCount \in BOOLEAN /\ browse.size \in Nat /\ browse.page \in Nat
      /\ browse.total \in Int /\ browse.cursor \in [at : Nat, id : Nat]
      /\ browse.shown \in Seq(Nat) /\ browse.known \in Nat /\ browse.counted \in Nat
  BY <1>1 DEF Browses
<1>3. DOMAIN browse.shown = 1 .. Len(browse.shown) /\ Len(browse.shown) \in Nat
  BY <1>2
<1>4. 1 .. browse.known \subseteq ListedIds /\ 1 .. browse.counted \subseteq ListedIds
  BY <1>1, <1>2 DEF ListedIds
<1>5. MatchingIds(browse.filter) \subseteq ListedIds
  BY RowsHaveTimes DEF MatchingIds, ListTyped
<1> QED BY <1>1, <1>2, <1>3, <1>4, <1>5

LEMMA BrowseFinite ==
    ListTyped => /\ IsFiniteSet(ListedIds) /\ MatchingIds(browse.filter) \subseteq ListedIds
                 /\ Len(EventsOf(browse.filter)) \in Nat
<1> SUFFICES ASSUME ListTyped
             PROVE  /\ IsFiniteSet(ListedIds) /\ MatchingIds(browse.filter) \subseteq ListedIds
                    /\ Len(EventsOf(browse.filter)) \in Nat
    OBVIOUS
<1>1. RowsTyped /\ MatchingIds(browse.filter) \in SUBSET ListedIds
  BY BrowseTypes DEF ListTyped
<1>2. Len(EventsOf(browse.filter)) \in Nat
  <2> DEFINE s == EventsOf(browse.filter)
  <2>1. s = NewestFirst(MatchingIds(browse.filter))
    BY DEF EventsOf
  <2> HIDE DEF s
  <2>2. Len(s) = Cardinality(MatchingIds(browse.filter)) /\ Cardinality(MatchingIds(browse.filter)) \in Nat
    BY <1>1, <2>1, SortedListing
  <2> QED BY <2>2 DEF s
<1> QED BY <1>1, <1>2, RowsHaveTimes

(* the order of the listing, of given rows *)
NewestOf(rows, ids) ==
    CHOOSE s \in [1 .. Cardinality(ids) -> ids] : \A i, j \in DOMAIN s : i < j =>
        \/ rows[s[i]].at > rows[s[j]].at
        \/ rows[s[i]].at = rows[s[j]].at /\ s[i] > s[j]

LEMMA OrderIsOfRows == \A ids : NewestFirst(ids) = NewestOf(listedRows, ids)
BY DEF NewestFirst, NewestOf, NewerThan

LEMMA SameRowsSameOrder ==
    ASSUME UNCHANGED listedRows, NEW ids PROVE NewestFirst(ids)' = NewestFirst(ids)
<1>1. NewestFirst(ids) = NewestOf(listedRows, ids)
  BY OrderIsOfRows
<1>2. NewestFirst(ids)' = NewestOf(listedRows', ids)
  BY DEF NewestFirst, NewestOf, NewerThan
<1> HIDE DEF NewestOf
<1> QED BY <1>1, <1>2

\* While others store events, and time goes on, the reader's facts stay true.
Elsewhere ==
    /\ UNCHANGED browse /\ RowsTyped' /\ listFrom' \in Nat /\ listFrom' >= Min(ListTimes)
    /\ browse.pc = "idle" => UNCHANGED listFrom
    /\ Len(listedRows)' >= Len(listedRows) /\ ~Undisturbed'
    /\ \A id \in ListedIds : listedRows'[id] = listedRows[id]
    /\ \A id \in ListedIds : Matches(id, browse.filter)' => Matches(id, browse.filter)
    /\ \A a, b \in ListedIds : NewerThan(a, b)' <=> NewerThan(a, b)
    /\ \A id \in ListedIds : BeyondCursor(browse.cursor, id)' <=> BeyondCursor(browse.cursor, id)
    /\ \A id \in ListedIds : Matches(id, browse.filter)' => NewerMatching(id) \subseteq NewerMatching(id)'

LEMMA ElsewhereKeeps == ListInv /\ Elsewhere => ListInv'
<1> SUFFICES ASSUME ListInv, Elsewhere PROVE ListInv'
    OBVIOUS
<1> USE DEF ListInv
<1>1. UNCHANGED browse /\ ~Undisturbed' /\ RowsTyped' /\ Len(listedRows)' \in Nat
      /\ Len(listedRows)' >= Len(listedRows) /\ Len(listedRows) \in Nat
  <2>1. RowsTyped' => Len(listedRows)' \in Nat
    BY DEF RowsTyped
  <2> QED BY <2>1, BrowseTypes DEF Elsewhere
<1>2. ListedIds \subseteq ListedIds'
  BY <1>1 DEF ListedIds
<1>3. ListTyped'
  <2>1. browse.known <= Len(listedRows)' /\ browse.counted <= Len(listedRows)'
    BY <1>1, BrowseTypes
  <2> QED BY <1>1, <2>1 DEF ListTyped, Elsewhere
<1>4. Unbegun'
  BY <1>1 DEF Unbegun, Elsewhere
<1>5. ShownAsAsked'
  BY <1>1, <1>2 DEF ShownAsAsked, Elsewhere
<1>6. \A id : WasThere(id)' => WasThere(id) /\ id \in ListedIds
  BY <1>1, BrowseTypes DEF WasThere, Elsewhere
<1>7. (Reading' <=> Reading) /\ \A id : IsShown(id)' <=> IsShown(id)
  BY <1>1 DEF Reading, IsShown
<1>8. ByCursor'
  <2> SUFFICES ASSUME browse.cursorMode PROVE ByCursor'
      BY <1>1 DEF ByCursor
  <2>1. \A i, j \in DOMAIN browse.shown : i < j => NewerThan(browse.shown[i], browse.shown[j])'
    BY <1>1 DEF ByCursor, ShownAsAsked, Elsewhere
  <2>2. Reading /\ browse.cursor # FirstPage =>
              \A i \in DOMAIN browse.shown : ~BeyondCursor(browse.cursor, browse.shown[i])'
    BY <1>1 DEF ByCursor, ShownAsAsked, Elsewhere
  <2>3. Reading => \A id : WasThere(id)' =>
              IsShown(id) \/ browse.cursor = FirstPage \/ BeyondCursor(browse.cursor, id)'
    BY <1>1, <1>6 DEF ByCursor, Elsewhere
  <2>4. browse.pc = "done" => \A id : WasThere(id)' => IsShown(id)
    BY <1>6 DEF ByCursor
  <2>5. Reading /\ browse.cursor = FirstPage => browse.shown = <<>>
    BY DEF ByCursor
  <2> QED BY <1>1, <1>7, <2>1, <2>2, <2>3, <2>4, <2>5 DEF ByCursor
<1>9. ByPage'
  <2> SUFFICES ASSUME ~browse.cursorMode PROVE ByPage'
      BY <1>1 DEF ByPage
  <2>1. \A id \in ListedIds : /\ IsFiniteSet(NewerMatching(id)') /\ Cardinality(NewerMatching(id)') \in Nat
                              /\ IsFiniteSet(NewerMatching(id)) /\ Cardinality(NewerMatching(id)) \in Nat
    <3>1. IsFiniteSet(ListedIds) /\ MatchingIds(browse.filter) \subseteq ListedIds
      BY BrowseTypes, RowsHaveTimes DEF ListTyped
    <3>2. (IsFiniteSet(ListedIds) /\ MatchingIds(browse.filter) \subseteq ListedIds)'
      BY <1>3, BrowseFinite, PTL
    <3> QED BY <3>1, <3>2, FS_Subset, FS_CardinalityType DEF NewerMatching
  <2>2. Reading => \A id : WasThere(id)' => IsShown(id) \/ Cardinality(NewerMatching(id))' >= Offset
    <3> SUFFICES ASSUME Reading, NEW id, WasThere(id)', ~IsShown(id)
                 PROVE  Cardinality(NewerMatching(id))' >= Offset
        OBVIOUS
    <3>1. id \in ListedIds /\ Cardinality(NewerMatching(id)) >= Offset
      BY <1>6 DEF ByPage
    <3>2. NewerMatching(id) \subseteq NewerMatching(id)'
      BY <1>1, <3>1 DEF Elsewhere, WasThere
    <3>3. Cardinality(NewerMatching(id)) <= Cardinality(NewerMatching(id)')
      BY <2>1, <3>1, <3>2, FS_Subset
    <3>4. Offset \in Int
      BY BrowseTypes DEF Offset
    <3> QED BY <2>1, <3>1, <3>3, <3>4
  <2>3. browse.pc = "read" =>
          browse.total >= Cardinality({id \in 1 .. browse.counted : Matches(id, browse.filter)'})
    <3> SUFFICES ASSUME browse.pc = "read"
                 PROVE browse.total >= Cardinality({id \in 1 .. browse.counted : Matches(id, browse.filter)'})
        OBVIOUS
    <3> DEFINE S == {id \in 1 .. browse.counted : Matches(id, browse.filter)}
               T == {id \in 1 .. browse.counted : Matches(id, browse.filter)'}
    <3>1. T \subseteq S /\ S \subseteq ListedIds /\ IsFiniteSet(ListedIds)
      BY <1>1, BrowseTypes, RowsHaveTimes DEF Elsewhere, ListTyped
    <3>2. browse.total >= Cardinality(S) /\ browse.total \in Nat
      BY DEF ByPage
    <3> HIDE DEF S, T
    <3>3. Cardinality(T) <= Cardinality(S) /\ Cardinality(T) \in Nat /\ Cardinality(S) \in Nat
      BY <3>1, FS_Subset, FS_CardinalityType
    <3>4. browse.total >= Cardinality(T)
      BY <3>2, <3>3
    <3> QED BY <3>4 DEF T
  <2>4. browse.pc = "done" =>
          Cardinality({id \in 1 .. browse.known : WasThere(id)' /\ ~IsShown(id)})
              <= Len(listedRows)' - browse.counted
    <3> SUFFICES ASSUME browse.pc = "done"
                 PROVE Cardinality({id \in 1 .. browse.known : WasThere(id)' /\ ~IsShown(id)})
                         <= Len(listedRows)' - browse.counted
        OBVIOUS
    <3> DEFINE S == {id \in 1 .. browse.known : WasThere(id) /\ ~IsShown(id)}
               T == {id \in 1 .. browse.known : WasThere(id)' /\ ~IsShown(id)}
    <3>1. T \subseteq S /\ S \subseteq ListedIds /\ IsFiniteSet(ListedIds)
      BY <1>6, BrowseTypes, RowsHaveTimes DEF ListTyped
    <3>2. Cardinality(S) <= Len(listedRows) - browse.counted
      BY DEF ByPage
    <3> HIDE DEF S, T
    <3>3. Cardinality(T) <= Cardinality(S) /\ Cardinality(T) \in Nat /\ Cardinality(S) \in Nat
      BY <3>1, FS_Subset, FS_CardinalityType
    <3>4. Cardinality(T) <= Len(listedRows)' - browse.counted
      BY <1>1, <3>2, <3>3, BrowseTypes
    <3> QED BY <3>4 DEF T
  <2>5. ~browse.skipCount /\ (browse.pc = "read" => browse.total \in Nat)
    BY DEF ByPage
  <2>6. browse'.pc = browse.pc /\ browse'.total = browse.total /\ browse'.counted = browse.counted
        /\ browse'.known = browse.known /\ browse'.filter = browse.filter
        /\ browse'.skipCount = browse.skipCount /\ Offset' = Offset
    BY <1>1 DEF Offset
  <2> QED BY <1>1, <1>7, <2>2, <2>3, <2>4, <2>5, <2>6 DEF ByPage
<1> QED BY <1>3, <1>4, <1>5, <1>8, <1>9

LEMMA StoreElsewhere == ListInv /\ StoreListed => Elsewhere
<1> SUFFICES ASSUME ListInv, StoreListed PROVE Elsewhere
    OBVIOUS
<1>1. PICK at \in ListTimes, kind \in ListKinds :
        listedRows' = Append(listedRows, [at |-> at, kind |-> kind])
  BY DEF StoreListed
<1>2. UNCHANGED <<listFrom, browse>> /\ listFrom \in Nat /\ listFrom >= Min(ListTimes)
  BY DEF StoreListed, ListInv, ListTyped, Unbegun
<1>3. /\ RowsTyped' /\ Len(listedRows)' = Len(listedRows) + 1
      /\ \A id \in ListedIds : listedRows'[id] = listedRows[id]
  <2> DEFINE Rows == [at : Nat, kind : ListKinds]
             r == [at |-> at, kind |-> kind]
  <2>1. listedRows \in Seq(Rows) /\ r \in Rows
    BY ListAssumption DEF ListInv, ListTyped, RowsTyped
  <2>2. listedRows' = Append(listedRows, r)
    BY <1>1
  <2> HIDE DEF Rows, r
  <2>3. /\ Append(listedRows, r) \in Seq(Rows) /\ Len(Append(listedRows, r)) = Len(listedRows) + 1
        /\ \A id \in 1 .. Len(listedRows) : Append(listedRows, r)[id] = listedRows[id]
    BY <2>1
  <2> QED BY <2>2, <2>3 DEF RowsTyped, ListedIds, Rows
<1>4. Len(listedRows) \in Nat /\ browse.known <= Len(listedRows) /\ browse.known \in Nat
  BY BrowseTypes DEF ListInv
<1>5. ~Undisturbed'
  BY <1>2, <1>3, <1>4 DEF Undisturbed
<1>6. \A id \in ListedIds : Matches(id, browse.filter)' <=> Matches(id, browse.filter)
  BY <1>2, <1>3 DEF Matches
<1>7. \A a, b \in ListedIds : NewerThan(a, b)' <=> NewerThan(a, b)
  BY <1>3 DEF NewerThan
<1>8. \A id \in ListedIds : BeyondCursor(browse.cursor, id)' <=> BeyondCursor(browse.cursor, id)
  BY <1>2, <1>3 DEF BeyondCursor
<1>9. \A id \in ListedIds : NewerMatching(id) \subseteq NewerMatching(id)'
  <2>1. DOMAIN listedRows = ListedIds /\ (DOMAIN listedRows = ListedIds)'
    BY <1>3, RowsHaveTimes, PTL DEF ListInv, ListTyped
  <2>2. ListedIds \subseteq ListedIds'
    BY <1>3, <1>4 DEF ListedIds
  <2>3. browse.filter' = browse.filter
    BY <1>2
  <2> QED BY <1>6, <1>7, <2>1, <2>2, <2>3 DEF NewerMatching, MatchingIds
<1>10. Len(listedRows)' >= Len(listedRows)
  BY <1>3, <1>4
<1> QED BY <1>2, <1>3, <1>5, <1>6, <1>7, <1>8, <1>9, <1>10 DEF Elsewhere

LEMMA RangeElsewhere == ListInv /\ RangeMovesOn => Elsewhere
<1> SUFFICES ASSUME ListInv, RangeMovesOn PROVE Elsewhere
    OBVIOUS
<1>1. UNCHANGED <<listedRows, browse>> /\ listFrom' = listFrom + 1 /\ browse.pc # "idle"
  BY DEF RangeMovesOn
<1>2. listFrom \in Nat /\ listFrom >= Min(ListTimes) /\ Min(ListTimes) \in Nat
  BY EarliestTime DEF ListInv, ListTyped, Unbegun
<1>3. listFrom' \in Nat /\ listFrom' >= Min(ListTimes) /\ ~Undisturbed'
  BY <1>1, <1>2 DEF Undisturbed
<1>4. RowsTyped /\ RowsTyped' /\ DOMAIN listedRows = ListedIds /\ Len(listedRows) \in Nat
      /\ ListedIds \subseteq Nat /\ \A id \in ListedIds : listedRows[id].at \in Nat
  BY <1>1, RowsHaveTimes DEF ListInv, ListTyped, RowsTyped
<1>5. \A id \in ListedIds : Matches(id, browse.filter)'
                            <=> Matches(id, browse.filter) /\ listedRows[id].at >= listFrom + 1
  BY <1>1, <1>2, <1>4 DEF Matches
<1>6. \A a, b \in ListedIds : NewerThan(a, b)' <=> NewerThan(a, b)
  BY <1>1 DEF NewerThan
<1>7. \A id \in ListedIds : BeyondCursor(browse.cursor, id)' <=> BeyondCursor(browse.cursor, id)
  BY <1>1 DEF BeyondCursor
<1>8. ASSUME NEW id \in ListedIds, Matches(id, browse.filter)'
      PROVE  NewerMatching(id) \subseteq NewerMatching(id)'
  <2>1. ASSUME NEW x \in ListedIds, Matches(x, browse.filter), NewerThan(x, id)
        PROVE  Matches(x, browse.filter)'
    <3>1. listedRows[id].at >= listFrom + 1 /\ listedRows[x].at >= listedRows[id].at
      BY <1>4, <1>5, <1>8, <2>1 DEF NewerThan
    <3> QED BY <1>2, <1>4, <1>5, <2>1, <3>1
  <2>2. MatchingIds(browse.filter) = {x \in ListedIds : Matches(x, browse.filter)}
        /\ MatchingIds(browse.filter)' = {x \in ListedIds : Matches(x, browse.filter)'}
    BY <1>1, <1>4 DEF MatchingIds
  <2> QED BY <1>1, <1>6, <2>1, <2>2 DEF NewerMatching
<1> QED BY <1>1, <1>3, <1>4, <1>5, <1>6, <1>7, <1>8 DEF Elsewhere

-----------------------------------------------------------------------------
\* The reader's steps.

LEMMA BeginKeeps == ListInv /\ BeginBrowse => ListInv'
<1> SUFFICES ASSUME ListInv, BeginBrowse PROVE ListInv'
    OBVIOUS
<1> USE DEF ListInv
<1>1. browse.pc = "idle" /\ UNCHANGED <<listedRows, listFrom>>
  BY DEF BeginBrowse
<1>2. PICK filter \in ListFilters, size \in ListPageSizes, cursorMode \in BOOLEAN :
        browse' = [browse EXCEPT !.pc = "count", !.filter = filter, !.size = size,
                                 !.cursorMode = cursorMode,
                                 !.skipCount = cursorMode /\ filter.auth # Unfiltered,
                                 !.known = Len(listedRows)]
  BY DEF BeginBrowse
<1>3. browse \in Browses /\ Len(listedRows) \in Nat /\ size \in Nat /\ size > 0
  BY ListAssumption, BrowseTypes DEF ListTyped
<1>4. /\ browse'.pc = "count" /\ browse'.filter = filter /\ browse'.size = size
      /\ browse'.cursorMode = cursorMode /\ browse'.known = Len(listedRows)
      /\ browse'.skipCount = (cursorMode /\ filter.auth # Unfiltered)
      /\ browse'.page = browse.page /\ browse'.shown = browse.shown
      /\ browse'.cursor = browse.cursor /\ browse'.counted = browse.counted
      /\ browse'.total = browse.total
  BY <1>2, <1>3 DEF Browses
<1>5. browse.page = 1 /\ browse.shown = <<>> /\ browse.cursor = FirstPage
  BY <1>1 DEF Unbegun
<1>6. browse' \in Browses
  <2>1. (cursorMode /\ filter.auth # Unfiltered) \in BOOLEAN
    OBVIOUS
  <2> QED BY <1>2, <1>3, <2>1 DEF Browses
<1>7. ListTyped'
  BY <1>1, <1>3, <1>4, <1>5, <1>6, BrowseTypes DEF ListTyped, RowsTyped
<1>8. Unbegun'
  BY <1>1, <1>4 DEF Unbegun
<1>9. ShownAsAsked'
  BY <1>4, <1>5 DEF ShownAsAsked
<1>10. ByCursor'
  BY <1>4, <1>5 DEF ByCursor, Reading
<1>11. ByPage'
  <2> SUFFICES ASSUME ~cursorMode PROVE ByPage'
      BY <1>4 DEF ByPage
  <2>1. ~(browse.skipCount')
    BY <1>4
  <2>2. Offset' = 0
    BY <1>3, <1>4, <1>5 DEF Offset
  <2>3. ASSUME NEW id, WasThere(id)' PROVE Cardinality(NewerMatching(id))' >= Offset'
    <3>2. (IsFiniteSet(ListedIds) /\ MatchingIds(browse.filter) \subseteq ListedIds)'
      BY <1>7, BrowseFinite, PTL
    <3>3. IsFiniteSet(NewerMatching(id)')
      BY <3>2, FS_Subset DEF NewerMatching
    <3> QED BY <2>2, <3>3, FS_CardinalityType
  <2>4. Beginning'
    <3>4. (Len(EventsOf(browse.filter)) \in Nat)'
      BY <1>7, BrowseFinite, PTL
    <3>5. browse'.shown = <<>>
      BY <1>4, <1>5
    <3> QED BY <2>2, <3>4, <3>5 DEF Beginning
  <2> QED BY <1>4, <2>1, <2>3, <2>4 DEF ByPage, Reading
<1> QED BY <1>7, <1>8, <1>9, <1>10, <1>11

LEMMA CountKeeps == ListInv /\ CountListed => ListInv'
<1> SUFFICES ASSUME ListInv, CountListed PROVE ListInv'
    OBVIOUS
<1> USE DEF ListInv
<1> DEFINE total == IF browse.skipCount \/ (browse.cursorMode /\ browse.cursor # FirstPage)
                    THEN NotCounted ELSE Cardinality(MatchingIds(browse.filter))
<1>1. /\ browse.pc = "count" /\ UNCHANGED <<listedRows, listFrom>>
      /\ browse' = [browse EXCEPT !.pc = "read", !.counted = Len(listedRows), !.total = total]
  BY DEF CountListed
<1>2. browse \in Browses /\ Len(listedRows) \in Nat /\ browse.skipCount \in BOOLEAN
      /\ browse.cursorMode \in BOOLEAN
  BY BrowseTypes DEF ListTyped
<1>3. IsFiniteSet(MatchingIds(browse.filter)) /\ Cardinality(MatchingIds(browse.filter)) \in Nat
  BY BrowseTypes, RowsHaveTimes, FS_Subset, FS_CardinalityType DEF ListTyped
<1>4. total \in Int /\ (~browse.skipCount /\ ~browse.cursorMode =>
                          total = Cardinality(MatchingIds(browse.filter)))
  BY <1>2, <1>3 DEF NotCounted
<1> HIDE DEF total
<1>5. /\ browse'.pc = "read" /\ browse'.counted = Len(listedRows) /\ browse'.total = total
      /\ browse'.filter = browse.filter /\ browse'.size = browse.size
      /\ browse'.cursorMode = browse.cursorMode /\ browse'.known = browse.known
      /\ browse'.skipCount = browse.skipCount
      /\ browse'.page = browse.page /\ browse'.shown = browse.shown
      /\ browse'.cursor = browse.cursor
  BY <1>1, <1>2 DEF Browses
<1>6. browse' \in Browses
  BY <1>1, <1>2, <1>4 DEF Browses
<1>7. ListTyped'
  BY <1>1, <1>2, <1>5, <1>6 DEF ListTyped, RowsTyped
<1>8. Unbegun' /\ ShownAsAsked'
  BY <1>1, <1>5 DEF Unbegun, ShownAsAsked, ListedIds
<1>9. /\ Reading /\ Reading' /\ (Undisturbed' <=> Undisturbed) /\ Offset' = Offset
      /\ \A id, f : Matches(id, f)' <=> Matches(id, f)
      /\ \A id : WasThere(id)' <=> WasThere(id)
      /\ \A id : IsShown(id)' <=> IsShown(id)
      /\ \A f : MatchingIds(f)' = MatchingIds(f)
      /\ \A a, b : NewerThan(a, b)' <=> NewerThan(a, b)
      /\ \A c, id : BeyondCursor(c, id)' <=> BeyondCursor(c, id)
  BY <1>1, <1>5 DEF Reading, Undisturbed, WasThere, IsShown, MatchingIds, Matches, NewerThan,
                    BeyondCursor, Offset
<1>10. ByCursor'
  BY <1>5, <1>9 DEF ByCursor
<1>11. ByPage'
  <2> SUFFICES ASSUME ~browse.cursorMode PROVE ByPage'
      BY <1>5 DEF ByPage
  <2>1. total = Cardinality(MatchingIds(browse.filter)) /\ ~browse.skipCount
    BY <1>2, <1>4 DEF ByPage
  <2>2. \A id : NewerMatching(id)' = NewerMatching(id)
    BY <1>5, <1>9 DEF NewerMatching
  <2>3. Beginning' <=> Beginning
    <3>1. EventsOf(browse.filter)' = EventsOf(browse.filter)
      BY <1>1, <1>5, <1>9, SameRowsSameOrder DEF EventsOf
    <3> QED BY <1>5, <1>9, <3>1 DEF Beginning
  <2>4. {id \in 1 .. browse'.counted : Matches(id, browse.filter)'} = MatchingIds(browse.filter)
    <3>1. 1 .. browse'.counted = DOMAIN listedRows
      BY <1>5, RowsHaveTimes DEF ListTyped, ListedIds
    <3> QED BY <1>5, <1>9, <3>1 DEF MatchingIds
  <2>5. /\ browse'.total \in Nat
        /\ browse'.total >= Cardinality({id \in 1 .. browse'.counted : Matches(id, browse.filter)'})
        /\ browse'.total = Cardinality(MatchingIds(browse.filter)')
    <3>1. MatchingIds(browse.filter)' = MatchingIds(browse.filter)
      BY <1>5, <1>9
    <3>2. browse'.total = Cardinality(MatchingIds(browse.filter))
      BY <1>5, <2>1
    <3> QED BY <1>3, <2>4, <3>1, <3>2
  <2>6. Reading => \A id : WasThere(id)' => IsShown(id)' \/ Cardinality(NewerMatching(id))' >= Offset'
    BY <1>9, <2>2 DEF ByPage
  <2> QED BY <1>5, <1>9, <2>1, <2>3, <2>5, <2>6 DEF ByPage
<1> QED BY <1>7, <1>8, <1>10, <1>11

LEMMA Widened == ASSUME NEW S, NEW T, S \subseteq T, NEW q \in Seq(S) PROVE q \in Seq(T)
<1>1. Len(q) \in Nat /\ q \in [1 .. Len(q) -> S]
  OBVIOUS
<1>2. q \in [1 .. Len(q) -> T]
  BY <1>1
<1> QED BY <1>1, <1>2

LEMMA Joined ==
    ASSUME NEW p \in Seq(Nat), NEW q \in Seq(Nat)
    PROVE  /\ p \o q \in Seq(Nat) /\ Len(p \o q) = Len(p) + Len(q)
           /\ DOMAIN (p \o q) = 1 .. Len(p) + Len(q)
           /\ \A i \in 1 .. Len(p) : (p \o q)[i] = p[i]
           /\ \A k \in 1 .. Len(q) : (p \o q)[Len(p) + k] = q[k] /\ Len(p) + k \in 1 .. Len(p) + Len(q)
           /\ \A i \in 1 .. Len(p) + Len(q) :
                 i \in 1 .. Len(p) \/ \E k \in 1 .. Len(q) : i = Len(p) + k
<1>1. Len(p) \in Nat /\ Len(q) \in Nat
  OBVIOUS
<1>2. ASSUME NEW i \in 1 .. Len(p) + Len(q), i \notin 1 .. Len(p)
      PROVE  \E k \in 1 .. Len(q) : i = Len(p) + k
  <2>1. i - Len(p) \in 1 .. Len(q) /\ i = Len(p) + (i - Len(p))
    BY <1>1, <1>2
  <2> QED BY <2>1
<1>3. \A k \in 1 .. Len(q) : (p \o q)[Len(p) + k] = q[k] /\ Len(p) + k \in 1 .. Len(p) + Len(q)
  <2> TAKE k \in 1 .. Len(q)
  <2>1. Len(p) + k \in 1 .. Len(p) + Len(q) /\ ~(Len(p) + k <= Len(p)) /\ Len(p) + k - Len(p) = k
    BY <1>1
  <2> QED BY <2>1
<1>4. /\ p \o q \in Seq(Nat) /\ Len(p \o q) = Len(p) + Len(q)
      /\ \A i \in 1 .. Len(p) + Len(q) : (p \o q)[i] = IF i <= Len(p) THEN p[i] ELSE q[i - Len(p)]
  BY ConcatProperties
<1>5. DOMAIN (p \o q) = 1 .. Len(p) + Len(q)
  BY <1>4
<1>6. \A i \in 1 .. Len(p) : (p \o q)[i] = p[i]
  <2> TAKE i \in 1 .. Len(p)
  <2>1. i \in 1 .. Len(p) + Len(q) /\ i <= Len(p)
    BY <1>1
  <2> QED BY <1>4, <2>1
<1> QED BY <1>2, <1>3, <1>4, <1>5, <1>6

LEMMA ReadFields ==
    ASSUME ListTyped, ReadListed, NEW rows \in Seq(ListedIds), NEW more \in BOOLEAN,
           [rows |-> rows, hasMore |-> more]
             = (IF browse.cursorMode THEN CursorRows(browse) ELSE PageRows(browse)),
           browse.cursorMode /\ more => Len(rows) > 0
    PROVE  /\ browse.pc = "read" /\ UNCHANGED <<listedRows, listFrom>>
           /\ browse' \in Browses
           /\ browse'.pc = IF more THEN "count" ELSE "done"
           /\ browse'.page = IF browse.cursorMode THEN 1 ELSE browse.page + 1
           /\ browse'.shown = browse.shown \o rows
           /\ browse'.cursor = IF browse.cursorMode /\ more
                               THEN [at |-> listedRows[rows[Len(rows)]].at, id |-> rows[Len(rows)]]
                               ELSE browse.cursor
           /\ browse'.filter = browse.filter /\ browse'.size = browse.size
           /\ browse'.cursorMode = browse.cursorMode /\ browse'.known = browse.known
           /\ browse'.skipCount = browse.skipCount /\ browse'.total = browse.total
           /\ browse'.counted = browse.counted
<1> DEFINE answer == [rows |-> rows, hasMore |-> more]
           last == rows[Len(rows)]
           cursor == IF browse.cursorMode /\ more THEN [at |-> listedRows[last].at, id |-> last]
                     ELSE browse.cursor
           page == IF browse.cursorMode THEN 1 ELSE browse.page + 1
           pc == IF more THEN "count" ELSE "done"
<1>1. /\ browse.pc = "read" /\ UNCHANGED <<listedRows, listFrom>>
      /\ browse' = [browse EXCEPT !.pc = pc, !.page = page, !.shown = browse.shown \o rows,
                                  !.cursor = cursor]
  <2>1. answer = IF browse.cursorMode THEN CursorRows(browse) ELSE PageRows(browse)
    OBVIOUS
  <2> HIDE DEF answer
  <2>2. /\ browse.pc = "read" /\ UNCHANGED <<listedRows, listFrom>>
        /\ browse' = [browse EXCEPT
            !.pc = IF answer.hasMore THEN "count" ELSE "done",
            !.page = IF browse.cursorMode THEN 1 ELSE browse.page + 1,
            !.shown = browse.shown \o answer.rows,
            !.cursor = IF browse.cursorMode /\ answer.hasMore
                       THEN [at |-> listedRows[Last(answer.rows)].at, id |-> Last(answer.rows)]
                       ELSE browse.cursor]
    BY <2>1 DEF ReadListed
  <2>3. answer.hasMore = more /\ answer.rows = rows /\ Last(answer.rows) = last
    BY DEF answer, Last
  <2> QED BY <2>2, <2>3
<1>2. browse \in Browses
  BY DEF ListTyped
<1>3. pc \in {"count", "done"} /\ page \in Nat
  BY BrowseTypes
<1>4. rows \in Seq(Nat) /\ browse.shown \in Seq(Nat) /\ Len(rows) \in Nat
  BY BrowseTypes, RowsHaveTimes DEF ListTyped, ListedIds
<1>5. browse.shown \o rows \in Seq(Nat)
  BY <1>4, Joined
<1>6. cursor \in [at : Nat, id : Nat]
  <2>1. CASE browse.cursorMode /\ more
    <3>1. last \in ListedIds
      BY <1>4, <2>1
    <3>2. last \in Nat /\ listedRows[last].at \in Nat
      BY <3>1, RowsHaveTimes DEF ListTyped
    <3> QED BY <2>1, <3>2
  <2>2. CASE ~(browse.cursorMode /\ more)
    BY <2>2, BrowseTypes
  <2> QED BY <2>1, <2>2
<1> HIDE DEF cursor, page, pc
<1>7. browse' \in Browses
  BY <1>1, <1>2, <1>3, <1>5, <1>6 DEF Browses
<1>8. /\ browse'.pc = pc /\ browse'.page = page /\ browse'.shown = browse.shown \o rows
      /\ browse'.cursor = cursor
      /\ browse'.filter = browse.filter /\ browse'.size = browse.size
      /\ browse'.cursorMode = browse.cursorMode /\ browse'.known = browse.known
      /\ browse'.skipCount = browse.skipCount /\ browse'.total = browse.total
      /\ browse'.counted = browse.counted
  BY <1>1, <1>2 DEF Browses
<1> QED BY <1>1, <1>7, <1>8 DEF cursor, page, pc, last

\* A beginning of a sequence, or a page of it.
LEMMA Paged ==
    ASSUME NEW S, NEW s \in Seq(S), NEW from \in Nat, NEW size \in Nat
    PROVE  LET n == Min({Len(s), from + size})
               rows == SubSeq(s, from + 1, n)
           IN /\ rows \in Seq(S) /\ n \in Nat /\ n <= Len(s) /\ n <= from + size
              /\ n = Len(s) \/ n = from + size
              /\ Len(rows) = IF from < n THEN n - from ELSE 0
              /\ \A i \in 1 .. Len(rows) : rows[i] = s[from + i] /\ from + i \in 1 .. n
<1> DEFINE n == Min({Len(s), from + size})
           rows == SubSeq(s, from + 1, n)
<1>1. Len(s) \in Nat /\ from + size \in Nat
  OBVIOUS
<1>2. n \in Nat /\ n <= Len(s) /\ n <= from + size /\ (n = Len(s) \/ n = from + size)
  <2>1. \E x \in {Len(s), from + size} : \A y \in {Len(s), from + size} : x <= y
    BY <1>1
  <2>2. n \in {Len(s), from + size} /\ \A y \in {Len(s), from + size} : n <= y
    BY <2>1 DEF Min
  <2> QED BY <1>1, <2>2
<1> HIDE DEF n
<1>3. Len(rows) = IF from < n THEN n - from ELSE 0
  BY <1>1, <1>2
<1>4. rows \in Seq(S) /\ \A i \in 1 .. Len(rows) : rows[i] = s[from + i] /\ from + i \in 1 .. n
  BY <1>1, <1>2
<1> QED BY <1>2, <1>3, <1>4 DEF n

\* A page by its cursor: the next events beyond it, newest first.
LEMMA CursorAnswer ==
    ASSUME ListTyped, browse.cursorMode
    PROVE  LET beyond == IF browse.cursor = FirstPage THEN MatchingIds(browse.filter)
                         ELSE {id \in MatchingIds(browse.filter) : BeyondCursor(browse.cursor, id)}
               s == NewestFirst(beyond)
               n == Min({Len(s), browse.size})
           IN /\ CursorRows(browse) = [rows |-> SubSeq(s, 1, n), hasMore |-> Len(s) > browse.size]
              /\ beyond \in SUBSET ListedIds
<1> DEFINE beyond == IF browse.cursor = FirstPage THEN MatchingIds(browse.filter)
                     ELSE {id \in MatchingIds(browse.filter) : BeyondCursor(browse.cursor, id)}
           s == NewestFirst(beyond)
<1>1. s = IF browse.cursor = FirstPage THEN EventsOf(browse.filter)
          ELSE NewestFirst({id \in MatchingIds(browse.filter) : BeyondCursor(browse.cursor, id)})
  BY DEF EventsOf
<1>2. beyond \in SUBSET ListedIds
  BY BrowseTypes
<1> HIDE DEF beyond
<1>3. CursorRows(browse) = [rows |-> SubSeq(s, 1, Min({Len(s), browse.size})),
                            hasMore |-> Len(s) > browse.size]
  <2> HIDE DEF s
  <2> QED BY <1>1 DEF CursorRows
<1> QED BY <1>2, <1>3 DEF beyond

LEMMA ReadByCursor ==
    ASSUME ListInv, ReadListed, browse.cursorMode
    PROVE  ListInv'
<1> USE DEF ListInv
<1> DEFINE beyond == IF browse.cursor = FirstPage THEN MatchingIds(browse.filter)
                     ELSE {id \in MatchingIds(browse.filter) : BeyondCursor(browse.cursor, id)}
           s == NewestFirst(beyond)
           n == Min({Len(s), browse.size})
           rows == SubSeq(s, 1, n)
           more == Len(s) > browse.size
           shown == browse.shown
<1>1. CursorRows(browse) = [rows |-> rows, hasMore |-> more] /\ beyond \in SUBSET ListedIds
  BY CursorAnswer
<1>2. \A id : id \in beyond <=> /\ id \in DOMAIN listedRows /\ Matches(id, browse.filter)
                                /\ browse.cursor = FirstPage \/ BeyondCursor(browse.cursor, id)
  BY DEF MatchingIds
<1> HIDE DEF beyond
<1>3. browse.pc = "read" /\ browse.size \in Nat /\ browse.size > 0 /\ RowsTyped
      /\ DOMAIN listedRows = ListedIds /\ ListedIds \subseteq Nat \ {0}
      /\ \A id \in ListedIds : listedRows[id].at \in Nat
  BY BrowseTypes, RowsHaveTimes DEF ReadListed, ListTyped
<1>4. /\ s \in Seq(beyond) /\ Len(s) \in Nat
      /\ \A i, j \in 1 .. Len(s) : i < j => NewerThan(s[i], s[j])
      /\ \A e \in beyond : \E i \in 1 .. Len(s) : s[i] = e
  BY <1>1, <1>3, SortedListing
<1>5. \A i \in 1 .. Len(s) : s[i] \in beyond /\ s[i] \in ListedIds
  BY <1>1, <1>4
<1> HIDE DEF s
<1>6. /\ rows \in Seq(beyond) /\ n \in Nat /\ n <= Len(s) /\ n <= browse.size
      /\ n = Len(s) \/ n = browse.size
      /\ Len(rows) = n
      /\ \A i \in 1 .. n : rows[i] = s[i] /\ i \in 1 .. Len(s)
  <2> DEFINE from == 0
             m == Min({Len(s), from + browse.size})
             page == SubSeq(s, from + 1, m)
  <2>1. /\ page \in Seq(beyond) /\ m \in Nat /\ m <= Len(s) /\ m <= from + browse.size
        /\ m = Len(s) \/ m = from + browse.size
        /\ Len(page) = IF from < m THEN m - from ELSE 0
        /\ \A i \in 1 .. Len(page) : page[i] = s[from + i] /\ from + i \in 1 .. m
    <3>1. from \in Nat
      OBVIOUS
    <3> QED BY <1>3, <1>4, <3>1, Paged
  <2>2. from + browse.size = browse.size /\ from + 1 = 1
    BY <1>3
  <2>3. m = n /\ page = rows
    BY <2>2
  <2>4. Len(rows) = n
    BY <2>1, <2>3
  <2>5. n \in Nat /\ n <= Len(s)
    BY <2>1, <2>3
  <2>6. \A i \in 1 .. n : rows[i] = s[0 + i]
    BY <2>1, <2>3, <2>4
  <2> HIDE DEF n, rows
  <2>7. \A i \in 1 .. n : rows[i] = s[i] /\ i \in 1 .. Len(s)
    <3> TAKE i \in 1 .. n
    <3>1. 0 + i = i /\ i \in 1 .. Len(s)
      BY <1>4, <2>5
    <3> QED BY <2>6, <3>1
  <2> HIDE DEF m, page
  <2> QED BY <2>1, <2>2, <2>3, <2>4, <2>7
<1> HIDE DEF rows
<1>7. more \in BOOLEAN /\ (more => n = browse.size /\ n > 0) /\ (~more => n = Len(s))
  BY <1>3, <1>4, <1>6
<1>8. rows \in Seq(ListedIds)
  BY <1>1, <1>6
<1> HIDE DEF n, more
<1>9. /\ UNCHANGED <<listedRows, listFrom>> /\ browse' \in Browses
      /\ browse'.pc = IF more THEN "count" ELSE "done"
      /\ browse'.page = 1 /\ browse'.shown = shown \o rows
      /\ browse'.cursor = IF more THEN [at |-> listedRows[rows[n]].at, id |-> rows[n]]
                          ELSE browse.cursor
      /\ browse'.filter = browse.filter /\ browse'.size = browse.size
      /\ browse'.cursorMode /\ browse'.known = browse.known
      /\ browse'.counted = browse.counted
  <2>1. /\ browse.pc = "read" /\ UNCHANGED <<listedRows, listFrom>>
        /\ browse' \in Browses
        /\ browse'.pc = IF more THEN "count" ELSE "done"
        /\ browse'.page = IF browse.cursorMode THEN 1 ELSE browse.page + 1
        /\ browse'.shown = browse.shown \o rows
        /\ browse'.cursor = IF browse.cursorMode /\ more
                            THEN [at |-> listedRows[rows[Len(rows)]].at, id |-> rows[Len(rows)]]
                            ELSE browse.cursor
        /\ browse'.filter = browse.filter /\ browse'.size = browse.size
        /\ browse'.cursorMode = browse.cursorMode /\ browse'.known = browse.known
        /\ browse'.skipCount = browse.skipCount /\ browse'.total = browse.total
        /\ browse'.counted = browse.counted
    BY <1>1, <1>6, <1>7, <1>8, ReadFields
  <2> QED BY <1>6, <2>1
<1>10. /\ shown \in Seq(Nat) /\ rows \in Seq(Nat) /\ Len(shown) \in Nat
       /\ DOMAIN shown = 1 .. Len(shown)
  BY <1>3, <1>8, BrowseTypes
<1> DEFINE after == shown \o rows
<1>11. /\ after \in Seq(Nat) /\ Len(after) = Len(shown) + n /\ DOMAIN after = 1 .. Len(shown) + n
       /\ \A i \in 1 .. Len(shown) : after[i] = shown[i] /\ i \in DOMAIN after
       /\ \A k \in 1 .. n : after[Len(shown) + k] = s[k] /\ Len(shown) + k \in DOMAIN after
       /\ \A i \in DOMAIN after : i \in 1 .. Len(shown) \/ \E k \in 1 .. n : i = Len(shown) + k
  <2> HIDE DEF shown
  <2>1. /\ after \in Seq(Nat) /\ Len(after) = Len(shown) + Len(rows)
        /\ DOMAIN after = 1 .. Len(shown) + Len(rows)
        /\ \A i \in 1 .. Len(shown) : after[i] = shown[i]
        /\ \A k \in 1 .. Len(rows) : after[Len(shown) + k] = rows[k]
                                      /\ Len(shown) + k \in 1 .. Len(shown) + Len(rows)
        /\ \A i \in 1 .. Len(shown) + Len(rows) :
              i \in 1 .. Len(shown) \/ \E k \in 1 .. Len(rows) : i = Len(shown) + k
    BY <1>10, Joined
  <2> HIDE DEF after
  <2>2. \A i \in 1 .. Len(shown) : i \in 1 .. Len(shown) + n
    BY <1>6, <1>10
  <2> QED BY <1>6, <2>1, <2>2
<1> HIDE DEF after, shown
<1>12. /\ (Undisturbed' <=> Undisturbed)
       /\ \A id, f : Matches(id, f)' <=> Matches(id, f)
       /\ \A id : WasThere(id)' <=> WasThere(id)
       /\ \A a, b : NewerThan(a, b)' <=> NewerThan(a, b)
       /\ \A c, id : BeyondCursor(c, id)' <=> BeyondCursor(c, id)
  BY <1>9 DEF Undisturbed, WasThere, Matches, NewerThan, BeyondCursor
<1>13. ListTyped'
  BY <1>3, <1>9 DEF ListTyped, RowsTyped
<1>14. Unbegun'
  BY <1>9 DEF Unbegun
<1>15. \A i \in DOMAIN after : after[i] \in ListedIds
         /\ browse.filter.model \in {Unfiltered, listedRows[after[i]].kind.model}
  <2> TAKE i \in DOMAIN after
  <2>1. CASE i \in 1 .. Len(shown)
    BY <1>10, <1>11, <2>1 DEF ShownAsAsked, shown
  <2>2. ASSUME NEW k \in 1 .. n, i = Len(shown) + k
        PROVE  after[i] \in ListedIds
               /\ browse.filter.model \in {Unfiltered, listedRows[after[i]].kind.model}
    <3>1. after[i] = s[k] /\ s[k] \in ListedIds /\ Matches(s[k], browse.filter)
      BY <1>2, <1>5, <1>6, <1>11, <2>2
    <3> QED BY <3>1 DEF Matches
  <2> QED BY <1>11, <2>1, <2>2
<1>16. ShownAsAsked'
  BY <1>9, <1>15 DEF ShownAsAsked, ListedIds, after
<1>17. \A i, j \in DOMAIN after : i < j => NewerThan(after[i], after[j])
  <2> SUFFICES ASSUME NEW i \in DOMAIN after, NEW j \in DOMAIN after, i < j
               PROVE  NewerThan(after[i], after[j])
      OBVIOUS
  <2>1. CASE j \in 1 .. Len(shown)
    <3>1. i \in 1 .. Len(shown)
      BY <1>10, <1>11, <2>1
    <3> QED BY <1>10, <1>11, <2>1, <3>1 DEF ByCursor, shown
  <2>2. ASSUME NEW k \in 1 .. n, j = Len(shown) + k PROVE NewerThan(after[i], after[j])
    <3>1. after[j] = s[k] /\ k \in 1 .. Len(s) /\ s[k] \in beyond /\ s[k] \in ListedIds
      BY <1>5, <1>6, <1>11, <2>2
    <3>2. CASE i \in 1 .. Len(shown)
      <4>1. after[i] = shown[i] /\ shown # <<>> /\ after[i] \in ListedIds
        BY <1>10, <1>11, <1>15, <3>2
      <4>2. browse.cursor # FirstPage /\ ~BeyondCursor(browse.cursor, shown[i])
        BY <1>3, <1>10, <3>2, <4>1 DEF ByCursor, Reading, shown
      <4>3. BeyondCursor(browse.cursor, s[k])
        BY <1>2, <3>1, <4>2
      <4>4. browse.cursor.at \in Nat /\ browse.cursor.id \in Nat
        BY BrowseTypes
      <4> DEFINE x == after[i]
                 y == s[k]
      <4>5. x \in Nat /\ y \in Nat /\ listedRows[x].at \in Nat /\ listedRows[y].at \in Nat
        BY <1>3, <3>1, <4>1
      <4>6. ~BeyondCursor(browse.cursor, x) /\ BeyondCursor(browse.cursor, y) /\ after[j] = y
        BY <3>1, <4>1, <4>2, <4>3
      <4> HIDE DEF x, y
      <4>7. NewerThan(x, y)
        BY <4>4, <4>5, <4>6 DEF BeyondCursor, NewerThan
      <4> QED BY <4>6, <4>7 DEF x
    <3>3. ASSUME NEW l \in 1 .. n, i = Len(shown) + l PROVE NewerThan(after[i], after[j])
      <4>0. l \in Nat /\ k \in Nat /\ Len(shown) + l < Len(shown) + k /\ l \in 1 .. Len(s)
        BY <1>6, <2>2, <3>3
      <4>1. l < k
        <5> DEFINE shift == Len(shown)
        <5>1. shift \in Nat /\ shift + l < shift + k
          BY <1>10, <4>0
        <5> HIDE DEF shift
        <5> QED BY <4>0, <5>1
      <4>2. after[i] = s[l]
        BY <1>11, <3>3
      <4> QED BY <1>4, <3>1, <4>0, <4>1, <4>2
    <3> QED BY <1>11, <3>2, <3>3
  <2> QED BY <1>11, <2>1, <2>2
<1>18. Undisturbed => \A i \in DOMAIN after : Matches(after[i], browse.filter)
  <2> SUFFICES ASSUME Undisturbed, NEW i \in DOMAIN after PROVE Matches(after[i], browse.filter)
      OBVIOUS
  <2>1. CASE i \in 1 .. Len(shown)
    BY <1>10, <1>11, <2>1 DEF ByCursor, shown
  <2>2. ASSUME NEW k \in 1 .. n, i = Len(shown) + k PROVE Matches(after[i], browse.filter)
    BY <1>2, <1>5, <1>6, <1>11, <2>2
  <2> QED BY <1>11, <2>1, <2>2
<1>19. \A id : WasThere(id) => \/ \E i \in DOMAIN after : after[i] = id
                               \/ \E k \in 1 .. Len(s) : s[k] = id /\ k > n
  <2> SUFFICES ASSUME NEW id, WasThere(id)
               PROVE  \/ \E i \in DOMAIN after : after[i] = id
                      \/ \E k \in 1 .. Len(s) : s[k] = id /\ k > n
      OBVIOUS
  <2>1. CASE IsShown(id)
    BY <1>10, <1>11, <2>1 DEF IsShown, shown
  <2>2. CASE ~IsShown(id)
    <3>1. browse.cursor = FirstPage \/ BeyondCursor(browse.cursor, id)
      BY <1>3, <2>2 DEF ByCursor, Reading
    <3>2. id \in beyond
      BY <1>2, <1>3, <3>1, BrowseTypes DEF WasThere
    <3>3. PICK k \in 1 .. Len(s) : s[k] = id
      BY <1>4, <3>2
    <3>4. CASE k > n
      BY <3>3, <3>4
    <3>5. CASE ~(k > n)
      <4>1. k \in 1 .. n
        BY <1>4, <1>6, <3>5
      <4> QED BY <1>11, <3>3, <4>1
    <3> QED BY <3>4, <3>5
  <2> QED BY <2>1, <2>2
<1>20. CASE more
  <2> DEFINE last == s[n]
             cursor == [at |-> listedRows[last].at, id |-> last]
  <2>1. n \in 1 .. Len(s) /\ n \in 1 .. n /\ last \in ListedIds /\ after[Len(shown) + n] = last
        /\ Len(shown) + n \in DOMAIN after
    BY <1>5, <1>6, <1>7, <1>11, <1>20
  <2>2. cursor # FirstPage /\ browse'.cursor = cursor /\ browse'.pc = "count"
    <3>1. rows[n] = last
      BY <1>6, <2>1
    <3>2. last # 0
      BY <1>3, <2>1
    <3> QED BY <1>9, <1>20, <3>1, <3>2 DEF FirstPage
  <2>3. \A i \in DOMAIN after : ~BeyondCursor(cursor, after[i])
    <3> TAKE i \in DOMAIN after
    <3>1. i = Len(shown) + n \/ NewerThan(after[i], last)
      <4> DEFINE end == Len(shown) + n
      <4>1. i \in 1 .. end /\ end \in Nat
        BY <1>6, <1>10, <1>11
      <4>2. end \in DOMAIN after /\ after[end] = last
        BY <2>1
      <4> HIDE DEF end
      <4>3. i = end \/ i < end
        BY <4>1
      <4> QED BY <1>17, <4>2, <4>3 DEF end
    <3> QED BY <1>3, <1>15, <2>1, <3>1 DEF BeyondCursor, NewerThan
  <2>4. \A id : WasThere(id) => (\E i \in DOMAIN after : after[i] = id) \/ BeyondCursor(cursor, id)
    <3> SUFFICES ASSUME NEW id, NEW k \in 1 .. Len(s), s[k] = id, k > n
                 PROVE  BeyondCursor(cursor, id)
        BY <1>19
    <3>1. NewerThan(last, id)
      BY <1>4, <1>6, <2>1
    <3> QED BY <3>1 DEF NewerThan, BeyondCursor
  <2> HIDE DEF cursor
  <2>5. ByCursor'
    BY <1>9, <1>12, <1>17, <1>18, <2>2, <2>3, <2>4 DEF ByCursor, IsShown, after
  <2>6. ByPage'
    BY <1>9 DEF ByPage
  <2> QED BY <1>13, <1>14, <1>16, <2>5, <2>6
<1>21. CASE ~more
  <2>1. browse'.pc = "done"
    BY <1>9, <1>21
  <2>2. \A id : WasThere(id) => \E i \in DOMAIN after : after[i] = id
    BY <1>4, <1>6, <1>7, <1>19, <1>21
  <2>3. ByCursor'
    BY <1>9, <1>12, <1>17, <1>18, <2>1, <2>2 DEF ByCursor, IsShown, Reading, after
  <2>4. ByPage'
    BY <1>9 DEF ByPage
  <2> QED BY <1>13, <1>14, <1>16, <2>3, <2>4
<1> QED BY <1>20, <1>21

\* So many pages hold so many events.
LEMMA PagesHold ==
    ASSUME NEW total \in Nat, NEW size \in Nat \ {0}, NEW page \in Nat,
           ~(page < (IF total > 0 THEN (total + size - 1) \div size ELSE 0))
    PROVE  page * size >= total
<1>1. CASE total = 0
  BY <1>1
<1>2. CASE total > 0
  <2> DEFINE a == total + size - 1
             q == a \div size
  <2>1. a \in Nat /\ size \in Nat /\ size > 0
    BY <1>2
  <2> HIDE DEF a
  <2>2. q \in Nat /\ a < (q + 1) * size
    BY <2>1, Z3
  <2> HIDE DEF q
  <2>3. page >= q
    BY <1>2, <2>2 DEF q, a
  <2>4. page * size >= q * size /\ (q + 1) * size = q * size + size
    BY <2>2, <2>3, Z3
  <2>5. q * size \in Nat /\ page * size \in Nat
    BY <2>2, Z3
  <2>6. a = total + size - 1
    BY DEF a
  <2> QED BY <2>1, <2>2, <2>4, <2>5, <2>6
<1> QED BY <1>1, <1>2

LEMMA PageAnswer ==
    ASSUME ListTyped
    PROVE  LET s == EventsOf(browse.filter)
           IN PageRows(browse) =
                [rows |-> SubSeq(s, Offset + 1, Min({Len(s), Offset + browse.size})),
                 hasMore |-> browse.page < TotalPages(browse)]
BY DEF PageRows, Offset

LEMMA Offsets ==
    ASSUME ListTyped
    PROVE  Offset \in Nat /\ Offset + browse.size = browse.page * browse.size
           /\ browse.page * browse.size \in Nat
<1> DEFINE p == browse.page
           z == browse.size
<1>1. p \in Nat \ {0} /\ z \in Nat
  BY BrowseTypes
<1> HIDE DEF p, z
<1>2. p - 1 \in Nat
  BY <1>1
<1>3. (p - 1) * z \in Nat /\ p * z \in Nat /\ (p - 1) * z + z = p * z
  BY <1>1, <1>2, Z3
<1> QED BY <1>3 DEF Offset, p, z

\* What the last page leaves out was stored after the count.
LEMMA LittleIsMissed ==
    ASSUME ListTyped, NEW late \in Nat,
           NEW T, \A id \in T : id \in MatchingIds(browse.filter) /\ Cardinality(NewerMatching(id)) >= late,
           late >= Cardinality({id \in 1 .. browse.counted : Matches(id, browse.filter)})
    PROVE  Cardinality(T) <= Len(listedRows) - browse.counted
<1> DEFINE M == MatchingIds(browse.filter)
           s == NewestFirst(M)
           C == {id \in 1 .. browse.counted : Matches(id, browse.filter)}
           R == browse.counted + 1 .. Len(listedRows)
<1>1. /\ RowsTyped /\ M \in SUBSET ListedIds /\ IsFiniteSet(ListedIds) /\ DOMAIN listedRows = ListedIds
      /\ browse.counted \in Nat /\ Len(listedRows) \in Nat /\ browse.counted <= Len(listedRows)
      /\ 1 .. browse.counted \subseteq ListedIds
  BY BrowseTypes, RowsHaveTimes DEF ListTyped
<1>2. /\ IsFiniteSet(M) /\ IsFiniteSet(C) /\ IsFiniteSet(T) /\ T \subseteq M
      /\ Cardinality(M) \in Nat /\ Cardinality(C) \in Nat /\ Cardinality(T) \in Nat
  <2>1. C \subseteq ListedIds /\ T \subseteq ListedIds /\ T \subseteq M
    BY <1>1
  <2> HIDE DEF C, M
  <2> QED BY <1>1, <2>1, FS_Subset, FS_CardinalityType
<1>3. IsFiniteSet(R) /\ Cardinality(R) = Len(listedRows) - browse.counted
  <2> DEFINE a == browse.counted + 1
             b == Len(listedRows)
  <2>1. a \in Int /\ b \in Int
    BY <1>1
  <2>2. IsFiniteSet(a .. b) /\ Cardinality(a .. b) = IF a > b THEN 0 ELSE b - a + 1
    BY <2>1, FS_Interval
  <2> QED BY <1>1, <2>2
<1>4. Cardinality(M) <= Cardinality(C) + (Len(listedRows) - browse.counted)
  <2>1. M \subseteq C \cup R
    <3> SUFFICES ASSUME NEW id \in M, id \notin R PROVE id \in C
        OBVIOUS
    <3>1. id \in 1 .. Len(listedRows) /\ Matches(id, browse.filter)
      BY <1>1 DEF MatchingIds, ListedIds
    <3>2. id \in 1 .. browse.counted
      BY <1>1, <3>1
    <3> QED BY <3>1, <3>2
  <2> HIDE DEF M, C, R
  <2>2. IsFiniteSet(C \cup R)
        /\ Cardinality(C \cup R) = Cardinality(C) + Cardinality(R) - Cardinality(C \cap R)
        /\ Cardinality(C \cap R) \in Nat
    <3>1. IsFiniteSet(C \cap R) 
      BY <1>2, FS_Intersection
    <3> QED BY <1>2, <1>3, <3>1, FS_Union, FS_CardinalityType
  <2>3. Cardinality(M) <= Cardinality(C \cup R) /\ Cardinality(C \cup R) \in Nat
    BY <2>1, <2>2, FS_Subset, FS_CardinalityType
  <2> QED BY <1>1, <1>2, <1>3, <2>2, <2>3
<1>5. CASE T = {}
  <2>1. Cardinality(T) = 0
    BY <1>5, FS_EmptySet
  <2> QED BY <1>1, <2>1
<1>6. CASE T # {}
  <2>1. /\ s \in Seq(M) /\ Len(s) \in Nat
        /\ \A i, j \in 1 .. Len(s) : i < j => NewerThan(s[i], s[j])
        /\ \A e \in M : \E i \in 1 .. Len(s) : s[i] = e
    BY <1>1, SortedListing
  <2>2. \A k \in 1 .. Len(s) : Cardinality({x \in M : NewerThan(x, s[k])}) = k - 1
    BY <1>1, PlaceInListing
  <2> HIDE DEF s
  <2>3. \A k \in 1 .. Len(s) : Cardinality(NewerMatching(s[k])) = k - 1
    BY <2>2 DEF NewerMatching
  <2>4. \A k \in 1 .. Len(s) : s[k] \in T => k > late
    <3> SUFFICES ASSUME NEW k \in 1 .. Len(s), s[k] \in T PROVE k > late
        OBVIOUS
    <3>1. k - 1 >= late
      BY <2>3
    <3> QED BY <3>1
  <2> HIDE DEF M
  <2>5. late + 1 \in 1 .. Len(s)
    <3>1. PICK id \in T : TRUE
      BY <1>6
    <3>2. PICK k \in 1 .. Len(s) : s[k] = id
      BY <1>2, <2>1
    <3>3. k > late
      BY <2>4, <3>2
    <3> QED BY <2>1, <3>3
  <2> DEFINE edge == s[late + 1]
             N == NewerMatching(edge)
  <2>6. Cardinality(N) = late /\ N \subseteq M
    <3>1. Cardinality(N) = late + 1 - 1
      BY <2>3, <2>5
    <3> QED BY <3>1 DEF NewerMatching, M
  <2>7. T \cap N = {}
    <3> SUFFICES ASSUME NEW id \in T, id \in N PROVE FALSE
        OBVIOUS
    <3>1. PICK k \in 1 .. Len(s) : s[k] = id
      BY <1>2, <2>1
    <3>2. k > late /\ id \in ListedIds /\ edge \in ListedIds
      <4>1. k > late
        BY <2>4, <3>1
      <4>2. edge \in M
        BY <2>1, <2>5
      <4> HIDE DEF edge
      <4> QED BY <1>1, <1>2, <4>1, <4>2
    <3>3. NewerThan(id, edge)
      BY DEF NewerMatching
    <3>4. CASE k = late + 1
      BY <1>1, <3>1, <3>2, <3>3, <3>4, NewerIsOrder
    <3>5. CASE k > late + 1
      <4>1. NewerThan(edge, id)
        BY <2>1, <2>5, <3>1, <3>5
      <4> QED BY <1>1, <3>2, <3>3, <4>1, NewerIsOrder
    <3> QED BY <3>2, <3>4, <3>5
  <2> HIDE DEF N, edge, C
  <2>8. IsFiniteSet(N) /\ IsFiniteSet(T \cup N) /\ T \cup N \subseteq M
    BY <1>2, <2>6, FS_Subset, FS_Union
  <2>9. Cardinality(T \cup N) = Cardinality(T) + Cardinality(N)
    <3>1. Cardinality(T \cup N) = Cardinality(T) + Cardinality(N) - Cardinality(T \cap N)
      BY <1>2, <2>8, FS_Union
    <3>2. Cardinality(T \cap N) = 0
      BY <2>7, FS_EmptySet
    <3> QED BY <1>2, <2>6, <3>1, <3>2
  <2>10. Cardinality(T \cup N) <= Cardinality(M)
    BY <1>2, <2>8, FS_Subset
  <2>11. late >= Cardinality(C)
    BY DEF C
  <2> QED BY <1>1, <1>2, <1>4, <2>6, <2>9, <2>10, <2>11
<1> QED BY <1>5, <1>6

LEMMA ReadByPage ==
    ASSUME ListInv, ReadListed, ~browse.cursorMode
    PROVE  ListInv'
<1> USE DEF ListInv
<1> DEFINE M == MatchingIds(browse.filter)
           s == EventsOf(browse.filter)
           off == Offset
           late == browse.page * browse.size
           n == Min({Len(s), off + browse.size})
           rows == SubSeq(s, off + 1, n)
           more == browse.page < TotalPages(browse)
           shown == browse.shown
           after == shown \o rows
<1>1. /\ browse.pc = "read" /\ browse.size \in Nat /\ browse.size > 0 /\ RowsTyped
      /\ M \in SUBSET ListedIds /\ ListedIds \subseteq Nat
  BY BrowseTypes, RowsHaveTimes DEF ReadListed, ListTyped
<1>2. PageRows(browse) = [rows |-> rows, hasMore |-> more]
  BY PageAnswer
<1>3. /\ s \in Seq(M) /\ Len(s) \in Nat /\ Len(s) = Cardinality(M)
      /\ \A i, j \in 1 .. Len(s) : i < j => NewerThan(s[i], s[j])
      /\ \A e \in M : \E i \in 1 .. Len(s) : s[i] = e
  <2>1. s = NewestFirst(M)
    BY DEF EventsOf
  <2> HIDE DEF s, M
  <2> QED BY <1>1, <2>1, SortedListing
<1>4. \A k \in 1 .. Len(s) : Cardinality(NewerMatching(s[k])) = k - 1
  BY <1>1, PlaceInListing DEF EventsOf, NewerMatching
<1> HIDE DEF M, s, more
<1>5. off \in Nat /\ off + browse.size = late /\ late \in Nat
  BY Offsets
<1> HIDE DEF off, late
<1>6. /\ rows \in Seq(M) /\ n \in Nat /\ n <= Len(s) /\ n <= late
      /\ n = Len(s) \/ n = late
      /\ Len(rows) = IF off < n THEN n - off ELSE 0
      /\ \A i \in 1 .. Len(rows) : rows[i] = s[off + i] /\ off + i \in 1 .. n
  <2>1. /\ rows \in Seq(M) /\ n \in Nat /\ n <= Len(s) /\ n <= off + browse.size
        /\ n = Len(s) \/ n = off + browse.size
        /\ Len(rows) = IF off < n THEN n - off ELSE 0
        /\ \A i \in 1 .. Len(rows) : rows[i] = s[off + i] /\ off + i \in 1 .. n
    BY <1>1, <1>3, <1>5, Paged
  <2> HIDE DEF n, rows
  <2> QED BY <1>5, <2>1
<1> HIDE DEF rows, n
<1>7. more \in BOOLEAN /\ rows \in Seq(ListedIds)
  <2>1. more \in BOOLEAN
    BY DEF more
  <2>2. M \subseteq ListedIds
    BY <1>1
  <2> QED BY <1>6, <2>1, <2>2, Widened
<1>8. /\ UNCHANGED <<listedRows, listFrom>> /\ browse' \in Browses
      /\ browse'.pc = IF more THEN "count" ELSE "done"
      /\ browse'.page = browse.page + 1 /\ browse'.shown = after
      /\ browse'.filter = browse.filter /\ browse'.size = browse.size
      /\ ~browse'.cursorMode /\ browse'.known = browse.known
      /\ browse'.counted = browse.counted /\ browse'.total = browse.total
      /\ browse'.skipCount = browse.skipCount
  <2>1. /\ browse.pc = "read" /\ UNCHANGED <<listedRows, listFrom>>
        /\ browse' \in Browses
        /\ browse'.pc = IF more THEN "count" ELSE "done"
        /\ browse'.page = IF browse.cursorMode THEN 1 ELSE browse.page + 1
        /\ browse'.shown = browse.shown \o rows
        /\ browse'.cursor = IF browse.cursorMode /\ more
                            THEN [at |-> listedRows[rows[Len(rows)]].at, id |-> rows[Len(rows)]]
                            ELSE browse.cursor
        /\ browse'.filter = browse.filter /\ browse'.size = browse.size
        /\ browse'.cursorMode = browse.cursorMode /\ browse'.known = browse.known
        /\ browse'.skipCount = browse.skipCount /\ browse'.total = browse.total
        /\ browse'.counted = browse.counted
    BY <1>2, <1>7, ReadFields
  <2> QED BY <2>1
<1>9. /\ shown \in Seq(Nat) /\ rows \in Seq(Nat) /\ Len(shown) \in Nat
      /\ DOMAIN shown = 1 .. Len(shown)
  <2>1. shown \in Seq(Nat) /\ Len(shown) \in Nat /\ DOMAIN shown = 1 .. Len(shown)
    BY BrowseTypes
  <2> HIDE DEF shown
  <2>2. rows \in Seq(Nat)
    BY <1>1, <1>7, Widened
  <2> QED BY <2>1, <2>2
<1> HIDE DEF shown
<1>10. /\ after \in Seq(Nat) /\ Len(after) = Len(shown) + Len(rows)
       /\ DOMAIN after = 1 .. Len(shown) + Len(rows)
       /\ \A i \in 1 .. Len(shown) : after[i] = shown[i]
       /\ \A k \in 1 .. Len(rows) : after[Len(shown) + k] = rows[k]
                                    /\ Len(shown) + k \in 1 .. Len(shown) + Len(rows)
       /\ \A i \in 1 .. Len(shown) + Len(rows) :
              i \in 1 .. Len(shown) \/ \E k \in 1 .. Len(rows) : i = Len(shown) + k
  BY <1>9, Joined
<1> HIDE DEF after
<1>11. Len(rows) \in Nat /\ \A i \in 1 .. Len(shown) : i \in DOMAIN after
  <2>1. Len(rows) \in Nat
    BY <1>5, <1>6
  <2> QED BY <1>9, <1>10, <2>1
<1>12. /\ (Undisturbed' <=> Undisturbed)
       /\ \A id, f : Matches(id, f)' <=> Matches(id, f)
       /\ \A id : WasThere(id)' <=> WasThere(id)
       /\ \A a, b : NewerThan(a, b)' <=> NewerThan(a, b)
       /\ \A f : MatchingIds(f)' = MatchingIds(f)
  BY <1>8 DEF Undisturbed, WasThere, Matches, NewerThan, MatchingIds
<1>13. ListTyped'
  BY <1>1, <1>8, BrowseTypes DEF ListTyped, RowsTyped
<1>14. Unbegun'
  BY <1>8 DEF Unbegun
<1>15. \A i \in DOMAIN after : after[i] \in ListedIds
         /\ browse.filter.model \in {Unfiltered, listedRows[after[i]].kind.model}
  <2> TAKE i \in DOMAIN after
  <2>1. CASE i \in 1 .. Len(shown)
    BY <1>9, <1>10, <2>1 DEF ShownAsAsked, shown
  <2>2. ASSUME NEW k \in 1 .. Len(rows), i = Len(shown) + k
        PROVE  after[i] \in ListedIds
               /\ browse.filter.model \in {Unfiltered, listedRows[after[i]].kind.model}
    <3>1. after[i] = rows[k] /\ rows[k] \in M
      BY <1>6, <1>10, <2>2
    <3>2. Matches(rows[k], browse.filter) /\ rows[k] \in ListedIds
      BY <1>1, <3>1 DEF M, MatchingIds
    <3> QED BY <3>1, <3>2 DEF Matches
  <2> QED BY <1>10, <2>1, <2>2
<1>16. ShownAsAsked'
  BY <1>8, <1>15 DEF ShownAsAsked, ListedIds
<1>17. ByCursor'
  BY <1>8 DEF ByCursor
<1>18. Offset' = late
  <2>2. Offset' = (browse'.page - 1) * browse'.size
    BY DEF Offset
  <2>3. browse'.page = browse.page + 1
    BY <1>8
  <2>4. browse'.size = browse.size
    BY <1>8
  <2>5. browse'.page - 1 = browse.page
    <3> DEFINE x == browse'.page
               y == browse.page
    <3>1. y \in Nat /\ x = y + 1
      BY <2>3, BrowseTypes
    <3> HIDE DEF x, y
    <3>2. x - 1 = y
      BY <3>1
    <3> QED BY <3>2 DEF x, y
  <2> QED BY <2>2, <2>4, <2>5, Zenon DEF late
<1>19. ASSUME NEW id, WasThere(id), ~\E i \in DOMAIN after : after[i] = id
       PROVE  id \in M /\ Cardinality(NewerMatching(id)) >= late
  <2>1. id \in M
    BY <1>19, BrowseTypes, RowsHaveTimes DEF WasThere, M, MatchingIds, ListTyped
  <2>2. PICK k \in 1 .. Len(s) : s[k] = id
    BY <1>3, <2>1
  <2>3. ~IsShown(id)
    BY <1>9, <1>10, <1>11, <1>19 DEF IsShown, shown
  <2>4. Cardinality(NewerMatching(id)) = k - 1 /\ k - 1 >= off
    BY <1>1, <1>4, <1>19, <2>2, <2>3 DEF ByPage, Reading, off
  <2>5. ~(k <= n)
    <3> SUFFICES ASSUME k <= n PROVE FALSE
        OBVIOUS
    <3>1. k - off \in 1 .. Len(rows) /\ off + (k - off) = k
      BY <1>3, <1>5, <1>6, <2>4
    <3>2. rows[k - off] = id
      BY <1>6, <2>2, <3>1
    <3> QED BY <1>10, <1>19, <3>1, <3>2
  <2>6. k > late
    BY <1>3, <1>5, <1>6, <2>5
  <2> QED BY <1>5, <2>1, <2>4, <2>6
<1>20. \A id : NewerMatching(id)' = NewerMatching(id)
  BY <1>8, <1>12 DEF NewerMatching
<1>21. \A id : IsShown(id)' <=> \E i \in DOMAIN after : after[i] = id
  BY <1>8 DEF IsShown
<1>22. ASSUME Undisturbed PROVE Len(after) = n /\ \A i \in 1 .. n : after[i] = s[i]
  <2>1. /\ Len(shown) <= off /\ Len(shown) <= Len(s) /\ (Len(shown) = off \/ Len(shown) = Len(s))
        /\ \A i \in 1 .. Len(shown) : shown[i] = s[i]
    BY <1>1, <1>22 DEF ByPage, Reading, Beginning, off, s, shown
  <2> DEFINE L == Len(shown)
             size == browse.size
             length == Len(s)
  <2>0. /\ off \in Nat /\ n \in Nat /\ length \in Nat /\ L \in Nat /\ size \in Nat /\ size > 0
        /\ L <= off /\ L <= length /\ (L = off \/ L = length) /\ n <= length
        /\ n <= off + size /\ (n = length \/ n = off + size)
    BY <1>1, <1>3, <1>5, <1>6, <1>9, <2>1
  <2> HIDE DEF L, size, length
  <2>2. Len(after) = n
    <3>1. Len(rows) = (IF off < n THEN n - off ELSE 0) /\ Len(after) = Len(shown) + Len(rows)
      BY <1>6, <1>10
    <3>2. CASE off < n
      <4>1. Len(shown) = off
        <5>1. L = off
          BY <2>0, <3>2
        <5> QED BY <5>1 DEF L
      <4> QED BY <2>0, <3>1, <3>2, <4>1
    <3>3. CASE ~(off < n)
      <4>1. L = n
        BY <2>0, <3>3
      <4> QED BY <2>0, <3>1, <3>3, <4>1 DEF L
    <3> QED BY <3>2, <3>3
  <2>3. ASSUME NEW i \in 1 .. n PROVE after[i] = s[i]
    <3>1. CASE i \in 1 .. Len(shown)
      BY <1>10, <2>1, <3>1
    <3>2. ASSUME NEW k \in 1 .. Len(rows), i = Len(shown) + k PROVE after[i] = s[i]
      <4>1. off < n
        BY <1>6, <3>2
      <4>2. Len(shown) = off
        <5>1. L = off
          BY <2>0, <4>1
        <5> QED BY <5>1 DEF L
      <4> QED BY <1>6, <1>10, <3>2, <4>2
    <3> QED BY <1>10, <2>2, <3>1, <3>2
  <2> QED BY <2>2, <2>3
<1>23. EventsOf(browse.filter)' = s
  BY <1>8, <1>12, SameRowsSameOrder DEF EventsOf, s
<1>24. browse.skipCount = FALSE /\ browse.total \in Nat
       /\ browse.total >= Cardinality({id \in 1 .. browse.counted : Matches(id, browse.filter)})
       /\ (Undisturbed => browse.total = Cardinality(M))
  BY <1>1, BrowseTypes DEF ByPage, M
<1>25. CASE more
  <2>1. browse'.pc = "count"
    BY <1>8, <1>25
  <2>2. \A id : WasThere(id)' => IsShown(id)' \/ Cardinality(NewerMatching(id))' >= Offset'
    BY <1>12, <1>18, <1>19, <1>20, <1>21
  <2>3. Undisturbed => Beginning'
    <3> SUFFICES ASSUME Undisturbed PROVE Beginning'
        OBVIOUS
    <3>1. Len(after) = n /\ \A i \in 1 .. n : after[i] = s[i]
      BY <1>22
    <3>2. Beginning' <=> /\ Len(after) <= late /\ Len(after) <= Len(s)
                         /\ Len(after) = late \/ Len(after) = Len(s)
                         /\ \A i \in 1 .. Len(after) : after[i] = s[i]
      BY <1>8, <1>18, <1>23 DEF Beginning
    <3> QED BY <1>6, <3>1, <3>2
  <2>4. ByPage'
    BY <1>8, <1>12, <1>24, <2>1, <2>2, <2>3 DEF ByPage
  <2> QED BY <1>13, <1>14, <1>16, <1>17, <2>4
<1>26. CASE ~more
  <2>1. browse'.pc = "done"
    BY <1>8, <1>26
  <2>2. late >= browse.total
    <3>1. ~(browse.page < IF browse.total > 0 THEN (browse.total + browse.size - 1) \div browse.size
                          ELSE 0)
      BY <1>26 DEF more, TotalPages
    <3>2. browse.page \in Nat /\ browse.size \in Nat \ {0}
      BY <1>1, BrowseTypes
    <3> QED BY <1>24, <3>1, <3>2, PagesHold DEF late
  <2>3. Undisturbed => after = s
    <3> SUFFICES ASSUME Undisturbed PROVE after = s
        OBVIOUS
    <3>1. n = Len(s)
      BY <1>3, <1>5, <1>6, <1>24, <2>2
    <3>2. Len(after) = Len(s) /\ \A i \in 1 .. Len(after) : after[i] = s[i]
      BY <1>22, <3>1
    <3>3. s \in Seq(Nat)
      <4>1. M \subseteq Nat
        BY <1>1
      <4> QED BY <1>3, <4>1, Widened
    <3> QED BY <1>10, <3>2, <3>3, SeqEqual
  <2> DEFINE T == {id \in 1 .. browse.known :
                    WasThere(id) /\ ~\E i \in DOMAIN after : after[i] = id}
  <2>4. Cardinality(T) <= Len(listedRows) - browse.counted
    <3>1. late >= Cardinality({id \in 1 .. browse.counted : Matches(id, browse.filter)})
      <4> DEFINE c == Cardinality({id \in 1 .. browse.counted : Matches(id, browse.filter)})
      <4>1. browse.total >= c
        BY <1>24
      <4>2. c \in Nat
        <5>1. 1 .. browse.counted \subseteq ListedIds /\ IsFiniteSet(ListedIds)
          BY BrowseTypes, BrowseFinite
        <5>2. IsFiniteSet({id \in 1 .. browse.counted : Matches(id, browse.filter)})
          BY <5>1, FS_Subset
        <5> QED BY <5>2, FS_CardinalityType
      <4> HIDE DEF c
      <4>3. late >= c
        BY <1>5, <1>24, <2>2, <4>1, <4>2
      <4> QED BY <4>3 DEF c
    <3>2. \A id \in T : id \in MatchingIds(browse.filter) /\ Cardinality(NewerMatching(id)) >= late
      BY <1>19 DEF M
    <3> HIDE DEF T
    <3> QED BY <1>5, <3>1, <3>2, LittleIsMissed
  <2>5. {id \in 1 .. browse'.known : WasThere(id)' /\ ~IsShown(id)'} = T
    BY <1>8, <1>12, <1>21
  <2>6. browse'.shown = after /\ browse'.filter = browse.filter
        /\ Len(listedRows)' = Len(listedRows)
    BY <1>8
  <2> HIDE DEF T
  <2>7. ByPage'
    BY <1>8, <1>12, <1>23, <1>24, <2>1, <2>3, <2>4, <2>5, <2>6 DEF ByPage, Reading
  <2> QED BY <1>13, <1>14, <1>16, <1>17, <2>7
<1> QED BY <1>25, <1>26

LEMMA ListKeeps == ListInv /\ [ListNext]_listVars => ListInv'
<1> SUFFICES ASSUME ListInv, [ListNext]_listVars PROVE ListInv'
    OBVIOUS
<1>1. CASE StoreListed
  BY <1>1, StoreElsewhere, ElsewhereKeeps
<1>2. CASE RangeMovesOn
  BY <1>2, RangeElsewhere, ElsewhereKeeps
<1>3. CASE BeginBrowse
  BY <1>3, BeginKeeps
<1>4. CASE CountListed
  BY <1>4, CountKeeps
<1>5. CASE ReadListed
  BY <1>5, ReadByCursor, ReadByPage
<1>6. CASE UNCHANGED listVars
  <2>1. UNCHANGED <<listedRows, listFrom, browse>>
    BY <1>6 DEF listVars
  <2>2. /\ (Undisturbed' <=> Undisturbed) /\ Offset' = Offset
        /\ \A id, f : Matches(id, f)' <=> Matches(id, f)
        /\ \A id : WasThere(id)' <=> WasThere(id)
        /\ \A id : IsShown(id)' <=> IsShown(id)
        /\ \A f : MatchingIds(f)' = MatchingIds(f)
        /\ \A a, b : NewerThan(a, b)' <=> NewerThan(a, b)
        /\ \A c, id : BeyondCursor(c, id)' <=> BeyondCursor(c, id)
        /\ (Reading' <=> Reading)
    BY <2>1 DEF Undisturbed, WasThere, IsShown, MatchingIds, Matches, NewerThan, BeyondCursor, Offset,
                Reading
  <2>3. \A id : NewerMatching(id)' = NewerMatching(id)
    BY <2>1, <2>2 DEF NewerMatching
  <2>4. EventsOf(browse.filter)' = EventsOf(browse.filter)
    BY <2>1, <2>2, SameRowsSameOrder DEF EventsOf
  <2>5. Beginning' <=> Beginning
    BY <2>1, <2>2, <2>4 DEF Beginning
  <2>6. ListTyped' /\ Unbegun' /\ ShownAsAsked'
    BY <2>1 DEF ListInv, ListTyped, RowsTyped, Unbegun, ShownAsAsked, ListedIds
  <2>7. ByCursor'
    BY <2>1, <2>2 DEF ListInv, ByCursor
  <2>8. ByPage'
    BY <2>1, <2>2, <2>3, <2>4, <2>5 DEF ListInv, ByPage
  <2> QED BY <2>6, <2>7, <2>8 DEF ListInv
<1> QED BY <1>1, <1>2, <1>3, <1>4, <1>5, <1>6 DEF ListNext

LEMMA ListFits == ListInv => ListSkipsNothing
<1> SUFFICES ASSUME ListInv, browse.pc = "done" PROVE ListSkipsNothing
    BY DEF ListSkipsNothing
<1> USE DEF ListInv
<1> DEFINE there == {id \in 1 .. browse.known : Matches(id, browse.filter)}
           missed == there \ ToSet(browse.shown)
<1>1. \A id : id \in missed <=> WasThere(id) /\ ~IsShown(id)
  BY DEF WasThere, IsShown, ToSet
<1>2. browse.cursorMode => missed = {}
  BY <1>1 DEF ByCursor
<1>3. ~browse.cursorMode => Cardinality(missed) <= Len(listedRows) - browse.counted
  <2>1. missed = {id \in 1 .. browse.known : WasThere(id) /\ ~IsShown(id)}
    BY <1>1 DEF WasThere
  <2> HIDE DEF missed
  <2> QED BY <2>1 DEF ByPage
<1>4. browse.cursorMode => \A i, j \in DOMAIN browse.shown :
                              i < j => NewerThan(browse.shown[i], browse.shown[j])
  BY DEF ByCursor
<1>5. Undisturbed => browse.shown = EventsOf(browse.filter)
  <2>1. CASE ~browse.cursorMode
    BY <2>1 DEF ByPage
  <2>2. ASSUME browse.cursorMode, Undisturbed PROVE browse.shown = EventsOf(browse.filter)
    <3> DEFINE M == MatchingIds(browse.filter)
               g == NewestFirst(M)
               f == browse.shown
    <3>1. /\ RowsTyped /\ M \in SUBSET ListedIds /\ f \in Seq(Nat) /\ DOMAIN f = 1 .. Len(f)
          /\ DOMAIN listedRows = ListedIds
      BY BrowseTypes, RowsHaveTimes DEF ListTyped
    <3>2. /\ g \in Seq(M)
          /\ \A i, j \in 1 .. Len(g) : i < j => NewerThan(g[i], g[j])
          /\ \A e \in M : \E i \in 1 .. Len(g) : g[i] = e
      <4>1. g = NewestFirst(M)
        OBVIOUS
      <4>2. RowsTyped /\ M \in SUBSET ListedIds
        BY <3>1
      <4> HIDE DEF g, M
      <4>3. g \in Seq(M)
        BY <4>1, <4>2, SortedListing
      <4>4. \A i, j \in 1 .. Len(g) : i < j => NewerThan(g[i], g[j])
        BY <4>1, <4>2, SortedListing
      <4>5. \A e \in M : \E i \in 1 .. Len(g) : g[i] = e
        BY <4>1, <4>2, SortedListing
      <4> QED BY <4>3, <4>4, <4>5
    <3> HIDE DEF g
    <3>3. \A i \in 1 .. Len(f) : f[i] \in M
      BY <2>2, <3>1 DEF ByCursor, ShownAsAsked, MatchingIds
    <3>4. f \in Seq(M)
      <4>1. Len(f) \in Nat /\ f = [i \in 1 .. Len(f) |-> f[i]]
        BY <3>1
      <4> HIDE DEF f, M
      <4> QED BY <3>3, <4>1
    <3>5. \A e \in M : \E i \in 1 .. Len(f) : f[i] = e
      <4> SUFFICES ASSUME NEW e \in M PROVE IsShown(e)
          BY <3>1 DEF IsShown
      <4>1. WasThere(e)
        BY <2>2, <3>1 DEF WasThere, MatchingIds, Undisturbed, ListedIds
      <4> QED BY <2>2, <4>1 DEF ByCursor
    <3>6. \A i, j \in 1 .. Len(f) : i < j => NewerThan(f[i], f[j])
      BY <1>4, <2>2, <3>1
    <3> HIDE DEF f, M
    <3>7. f = g
      BY <3>1, <3>2, <3>4, <3>5, <3>6, ListingIsUnique
    <3> QED BY <3>7 DEF f, g, M, EventsOf
  <2> QED BY <2>1, <2>2
<1>6. \A id \in ToSet(browse.shown) :
         id \in DOMAIN listedRows /\ browse.filter.model \in {Unfiltered, listedRows[id].kind.model}
  BY RowsHaveTimes DEF ToSet, ShownAsAsked, ListTyped
<1>7. browse.filter.model \notin ModelOptions \cup {Unfiltered} => browse.shown = <<>>
  <2> SUFFICES ASSUME browse.filter.model \notin ModelOptions \cup {Unfiltered},
                      browse.shown # <<>>
               PROVE  FALSE
      OBVIOUS
  <2>1. 1 \in DOMAIN browse.shown
    BY BrowseTypes
  <2>2. browse.shown[1] \in DOMAIN listedRows
        /\ browse.filter.model \in {Unfiltered, listedRows[browse.shown[1]].kind.model}
    BY <1>6, <2>1 DEF ToSet
  <2> QED BY <2>2 DEF ModelOptions
<1> HIDE DEF missed, there
<1>8. browse.known = Len(listedRows) /\ listFrom = Min(ListTimes)
        => browse.shown = ExportOf(browse.filter)
  BY <1>5 DEF ExportOf, Undisturbed
<1>9. IF browse.cursorMode THEN missed = {} ELSE Cardinality(missed) <= Len(listedRows) - browse.counted
  BY <1>2, <1>3
<1> QED BY <1>4, <1>6, <1>7, <1>8, <1>9 DEF ListSkipsNothing, missed, there

(* Who goes through the pages of the event list, by cursor or by number, while *)
(* events arrive and the range moves on, misses nothing that was there, except  *)
(* by number as many as were stored since the last count; nothing is shown twice*)
(* by cursor, and undisturbed pages are the export                              *)
(* (repository/usage.go, ListUsageEventsWithFilter).                            *)
THEOREM ListStaysComplete == ListSpec => []ListSkipsNothing
<1>1. ListSpec => []ListInv
  BY ListStarts, ListKeeps, PTL DEF ListSpec
<1> QED BY <1>1, ListFits, PTL

-----------------------------------------------------------------------------
(* The cache of recent events. First, what taking some entries out of a       *)
(* sequence does, and that a set can be listed in an order.                    *)

\* Whoever has fewer before it comes first: no two have as many.
LEMMA AnyOrderLists ==
    ASSUME NEW S, IsFiniteSet(S), NEW R,
           \A a \in S : <<a, a>> \notin R,
           \A a, b \in S : a # b => <<a, b>> \in R \/ <<b, a>> \in R,
           \A a, b, c \in S : <<a, b>> \in R /\ <<b, c>> \in R => <<a, c>> \in R
    PROVE  \E s \in [1 .. Cardinality(S) -> S] : \A i, j \in DOMAIN s : i < j => <<s[i], s[j]>> \in R
<1> DEFINE n == Cardinality(S)
           before(e) == {a \in S : <<a, e>> \in R}
           place == [e \in S |-> Cardinality(before(e)) + 1]
<1>0. n \in Nat
  BY FS_CardinalityType
<1>1. \A e \in S : /\ IsFiniteSet(before(e)) /\ Cardinality(before(e)) \in Nat
                   /\ Cardinality(before(e)) < n
  <2> TAKE e \in S
  <2>1. IsFiniteSet(S \ {e}) /\ Cardinality(S \ {e}) = n - 1
    BY FS_RemoveElement
  <2>2. before(e) \in SUBSET (S \ {e})
    OBVIOUS
  <2> HIDE DEF n, before
  <2>3. IsFiniteSet(before(e)) /\ Cardinality(before(e)) <= n - 1
    BY <2>1, <2>2, FS_Subset
  <2>4. Cardinality(before(e)) \in Nat
    BY <2>3, FS_CardinalityType
  <2> QED BY <1>0, <2>3, <2>4
<1>2. ASSUME NEW a \in S, NEW b \in S, <<a, b>> \in R PROVE place[a] < place[b]
  <2>1. before(a) \in SUBSET before(b) /\ a \in before(b) /\ a \notin before(a)
    BY <1>2
  <2>2. place[a] = Cardinality(before(a)) + 1 /\ place[b] = Cardinality(before(b)) + 1
    OBVIOUS
  <2>3. before(a) # before(b) /\ IsFiniteSet(before(b))
        /\ Cardinality(before(a)) \in Nat /\ Cardinality(before(b)) \in Nat
    BY <1>1, <2>1
  <2> HIDE DEF before, place
  <2>4. Cardinality(before(a)) <= Cardinality(before(b))
        /\ (Cardinality(before(b)) = Cardinality(before(a)) => before(b) = before(a))
    BY <2>1, <2>3, FS_Subset
  <2> QED BY <2>2, <2>3, <2>4
<1> HIDE DEF n
<1>3. place \in [S -> 1 .. n]
  <2> HIDE DEF before
  <2>1. \A e \in S : Cardinality(before(e)) + 1 \in 1 .. n
    BY <1>0, <1>1
  <2> QED BY <2>1
<1> HIDE DEF place, before
<1>4. place \in Injection(S, 1 .. n)
  <2>1. \A a, b \in S : place[a] = place[b] => a = b
    <3> SUFFICES ASSUME NEW a \in S, NEW b \in S, a # b PROVE place[a] # place[b]
        OBVIOUS
    <3>1. place[a] \in Int /\ place[b] \in Int
      BY <1>3
    <3>2. place[a] < place[b] \/ place[b] < place[a]
      BY <1>2
    <3> QED BY <3>1, <3>2
  <2> QED BY <1>3, <2>1 DEF Injection, IsInjective
<1>5. IsFiniteSet(1 .. n) /\ Cardinality(1 .. n) = n
  <2>1. IsFiniteSet(1 .. n) /\ Cardinality(1 .. n) = IF 1 > n THEN 0 ELSE n - 1 + 1
    BY <1>0, FS_Interval
  <2> QED BY <1>0, <2>1
<1>6. place \in Surjection(S, 1 .. n)
  BY <1>4, <1>5, FS_Injection DEF n
<1>7. \A i \in 1 .. n : \E e \in S : place[e] = i
  BY <1>6 DEF Surjection
<1> DEFINE s == [i \in 1 .. n |-> CHOOSE e \in S : place[e] = i]
<1>8. s \in [1 .. n -> S] /\ \A i \in 1 .. n : place[s[i]] = i
  BY <1>7
<1> HIDE DEF s
<1>9. ASSUME NEW i \in 1 .. n, NEW j \in 1 .. n, i < j PROVE <<s[i], s[j]>> \in R
  <2>1. s[i] \in S /\ s[j] \in S /\ place[s[i]] = i /\ place[s[j]] = j
    BY <1>8
  <2>2. s[i] # s[j] /\ ~(j < i)
    BY <1>9, <2>1
  <2>3. ~(<<s[j], s[i]>> \in R)
    BY <1>2, <2>1, <2>2
  <2> QED BY <2>1, <2>2, <2>3
<1>10. DOMAIN s = 1 .. n
  BY <1>8
<1> QED BY <1>8, <1>9, <1>10 DEF n

Distinct(s) == \A i, j \in DOMAIN s : s[i] = s[j] => i = j

\* A listing without repetition has everything in it.
LEMMA DistinctShowsAll ==
    ASSUME NEW S, IsFiniteSet(S), NEW s \in [1 .. Cardinality(S) -> S], Distinct(s)
    PROVE  s \in Seq(S) /\ Len(s) = Cardinality(S) /\ ToSet(s) = S
<1> DEFINE n == Cardinality(S)
<1>0. n \in Nat
  BY FS_CardinalityType
<1>1. IsFiniteSet(1 .. n) /\ Cardinality(1 .. n) = n
  <2>1. IsFiniteSet(1 .. n) /\ Cardinality(1 .. n) = IF 1 > n THEN 0 ELSE n - 1 + 1
    BY <1>0, FS_Interval
  <2> QED BY <1>0, <2>1
<1>2. s \in Injection(1 .. n, S)
  BY DEF Injection, IsInjective, Distinct
<1>3. s \in Surjection(1 .. n, S)
  BY <1>1, <1>2, FS_Injection
<1>4. \A e \in S : \E i \in 1 .. n : s[i] = e
  BY <1>3 DEF Surjection
<1>5. DOMAIN s = 1 .. n
  OBVIOUS
<1>6. ToSet(s) = S
  BY <1>4, <1>5 DEF ToSet
<1> HIDE DEF n
<1>7. s \in Seq(S) /\ Len(s) = n
  BY <1>0, <1>5 DEF n
<1> QED BY <1>6, <1>7 DEF n

Increasing(f) == \A i, j \in DOMAIN f : i < j => f[i] < f[j]

LEMMA PlacesInOrder ==
    ASSUME NEW P \in SUBSET Nat, IsFiniteSet(P)
    PROVE  LET order == CHOOSE f \in [1 .. Cardinality(P) -> P] :
                           \A i, j \in DOMAIN f : i < j => f[i] < f[j]
           IN order \in Seq(P) /\ Len(order) = Cardinality(P) /\ ToSet(order) = P /\ Distinct(order)
<1> DEFINE n == Cardinality(P)
           R == {p \in Nat \X Nat : p[1] < p[2]}
           order == CHOOSE f \in [1 .. n -> P] : Increasing(f)
<1>1. \A a, b \in Nat : <<a, b>> \in R <=> a < b
  OBVIOUS
<1> HIDE DEF R
<1>2. \A a \in P : <<a, a>> \notin R
  BY <1>1
<1>3. \A a, b \in P : a # b => <<a, b>> \in R \/ <<b, a>> \in R
  BY <1>1
<1>4. \A a, b, c \in P : <<a, b>> \in R /\ <<b, c>> \in R => <<a, c>> \in R
  BY <1>1
<1>5. PICK s \in [1 .. n -> P] : \A i, j \in DOMAIN s : i < j => <<s[i], s[j]>> \in R
  BY <1>2, <1>3, <1>4, AnyOrderLists
<1>6. Increasing(s)
  <2>1. \A i \in DOMAIN s : s[i] \in Nat
    BY <1>5
  <2> QED BY <1>1, <1>5, <2>1 DEF Increasing
<1>7. order \in [1 .. n -> P] /\ Increasing(order)
  BY <1>5, <1>6
<1> HIDE DEF order
<1>8. Distinct(order)
  <2>1. \A i, j \in DOMAIN order : i < j => order[i] < order[j]
    BY <1>7 DEF Increasing
  <2>0. n \in Nat
    BY FS_CardinalityType
  <2> HIDE DEF n
  <2>2. \A i \in DOMAIN order : order[i] \in Nat /\ i \in Int
    <3>1. DOMAIN order = 1 .. n /\ \A i \in 1 .. n : order[i] \in P
      BY <1>7
    <3>2. \A i \in 1 .. n : i \in Int
      BY <2>0
    <3>3. \A x \in P : x \in Nat
      OBVIOUS
    <3> QED BY <3>1, <3>2, <3>3
  <2> SUFFICES ASSUME NEW i \in DOMAIN order, NEW j \in DOMAIN order, i # j PROVE order[i] # order[j]
      BY DEF Distinct
  <2>3. i < j \/ j < i
    BY <2>2
  <2> QED BY <2>1, <2>2, <2>3
<1>9. order \in Seq(P) /\ Len(order) = n /\ ToSet(order) = P
  BY <1>7, <1>8, DistinctShowsAll
<1> QED BY <1>8, <1>9 DEF order, n, Increasing

LEMMA EntriesFit ==
    ASSUME NEW S, NEW s \in Seq(S), NEW P \in SUBSET DOMAIN s, NEW z, z = EntriesAt(s, P)
    PROVE  /\ z \in Seq(S) /\ ToSet(z) = {s[i] : i \in P}
           /\ Len(z) = Cardinality(P)
           /\ Distinct(s) => Distinct(z)
<1> DEFINE n == Cardinality(P)
           order == CHOOSE f \in [1 .. n -> P] : \A i, j \in DOMAIN f : i < j => f[i] < f[j]
<1>1. DOMAIN s = 1 .. Len(s) /\ Len(s) \in Nat /\ \A i \in DOMAIN s : s[i] \in S
  OBVIOUS
<1>2. P \in SUBSET Nat /\ IsFiniteSet(P)
  <2>1. IsFiniteSet(1 .. Len(s))
    BY <1>1, FS_Interval
  <2> QED BY <1>1, <2>1, FS_Subset
<1>3. order \in Seq(P) /\ Len(order) = n /\ ToSet(order) = P /\ Distinct(order)
  BY <1>2, PlacesInOrder
<1>4. n \in Nat
  BY <1>2, FS_CardinalityType
<1>5. z = [i \in 1 .. n |-> s[order[i]]]
  BY DEF EntriesAt
<1> HIDE DEF order, n
<1>6. DOMAIN order = 1 .. n /\ \A i \in 1 .. n : order[i] \in P
  BY <1>3, <1>4
<1>7. z \in Seq(S) /\ Len(z) = n /\ DOMAIN z = 1 .. n /\ \A i \in 1 .. n : z[i] = s[order[i]]
  BY <1>1, <1>4, <1>5, <1>6
<1>8. ToSet(z) = {s[i] : i \in P}
  <2>1. \A p \in P : \E i \in 1 .. n : order[i] = p
    BY <1>3, <1>6 DEF ToSet
  <2>2. ASSUME NEW p \in P PROVE s[p] \in ToSet(z)
    <3>1. PICK i \in 1 .. n : order[i] = p
      BY <2>1
    <3>2. z[i] = s[p]
      BY <1>7, <3>1
    <3> QED BY <1>7, <3>2 DEF ToSet
  <2>3. ASSUME NEW i \in 1 .. n PROVE z[i] \in {s[p] : p \in P}
    BY <1>6, <1>7
  <2>4. \A e \in ToSet(z) : e \in {s[p] : p \in P}
    BY <1>7, <2>3 DEF ToSet
  <2> QED BY <2>2, <2>4
<1>9. ASSUME Distinct(s) PROVE Distinct(z)
  <2> SUFFICES ASSUME NEW i \in 1 .. n, NEW j \in 1 .. n, z[i] = z[j] PROVE i = j
      BY <1>7 DEF Distinct
  <2>1. order[i] = order[j]
    BY <1>6, <1>7, <1>9 DEF Distinct
  <2> QED BY <1>3, <1>6, <2>1 DEF Distinct
<1> QED BY <1>7, <1>8, <1>9 DEF n

\* Without repetitions, places and entries are as many.
LEMMA PlacesCount ==
    ASSUME NEW S, NEW s \in Seq(S), Distinct(s), NEW T
    PROVE  LET P == {i \in DOMAIN s : s[i] \in T}
           IN /\ IsFiniteSet(P) /\ IsFiniteSet(ToSet(s) \cap T)
              /\ Cardinality(P) = Cardinality(ToSet(s) \cap T) /\ Cardinality(P) \in Nat
<1> DEFINE P == {i \in DOMAIN s : s[i] \in T}
           Q == ToSet(s) \cap T
           f == [i \in P |-> s[i]]
<1>1. IsFiniteSet(P)
  <2>1. IsFiniteSet(1 .. Len(s))
    BY FS_Interval
  <2>2. P \in SUBSET (1 .. Len(s))
    OBVIOUS
  <2> QED BY <2>1, <2>2, FS_Subset
<1>2. f \in Bijection(P, Q)
  <2>1. f \in [P -> Q]
    BY DEF ToSet
  <2>2. \A i, j \in P : f[i] = f[j] => i = j
    BY DEF Distinct
  <2>3. \A e \in Q : \E i \in P : f[i] = e
    BY DEF ToSet
  <2> QED BY <2>1, <2>2, <2>3 DEF Bijection, Injection, Surjection, IsInjective
<1>3. IsFiniteSet(Q) /\ Cardinality(Q) = Cardinality(P)
  <2>1. ExistsBijection(P, Q)
    BY <1>2 DEF ExistsBijection
  <2> QED BY <1>1, <2>1, FS_Bijection
<1> QED BY <1>1, <1>3, FS_CardinalityType

LEMMA EntriesCount ==
    ASSUME NEW S, NEW s \in Seq(S), Distinct(s)
    PROVE  IsFiniteSet(ToSet(s)) /\ Cardinality(ToSet(s)) = Len(s)
<1> DEFINE P == {i \in DOMAIN s : s[i] \in ToSet(s)}
<1>1. P = 1 .. Len(s) /\ ToSet(s) \cap ToSet(s) = ToSet(s)
  BY DEF ToSet
<1>2. IsFiniteSet(ToSet(s)) /\ Cardinality(P) = Cardinality(ToSet(s))
  BY <1>1, PlacesCount
<1>3. Cardinality(1 .. Len(s)) = IF 1 > Len(s) THEN 0 ELSE Len(s) - 1 + 1
  BY FS_Interval
<1>4. Len(s) \in Nat
  OBVIOUS
<1>5. Cardinality(1 .. Len(s)) = Len(s)
  BY <1>3, <1>4
<1> QED BY <1>1, <1>2, <1>5

LEMMA JoinedEntries ==
    ASSUME NEW S, NEW s \in Seq(S), NEW t \in Seq(S)
    PROVE  /\ s \o t \in Seq(S) /\ ToSet(s \o t) = ToSet(s) \cup ToSet(t)
           /\ Distinct(s) /\ Distinct(t) /\ ToSet(s) \cap ToSet(t) = {} => Distinct(s \o t)
<1> DEFINE m == Len(s) n == Len(t) z == s \o t
<1>1. m \in Nat /\ n \in Nat /\ DOMAIN s = 1 .. m /\ DOMAIN t = 1 .. n
  OBVIOUS
<1>5. \A k \in 1 .. n : z[m + k] = t[k] /\ m + k \in 1 .. m + n
  <2> TAKE k \in 1 .. n
  <2>1. m + k \in 1 .. m + n /\ ~(m + k <= m) /\ m + k - m = k
    BY <1>1
  <2> QED BY <2>1
<1>2. /\ z \in Seq(S) /\ Len(z) = m + n
      /\ \A i \in 1 .. m + n : z[i] = IF i <= m THEN s[i] ELSE t[i - m]
  BY ConcatProperties
<1>3. DOMAIN z = 1 .. m + n
  BY <1>2
<1>4. \A i \in 1 .. m : i \in 1 .. m + n /\ z[i] = s[i]
  <2> TAKE i \in 1 .. m
  <2>1. i \in 1 .. m + n /\ i <= m
    BY <1>1
  <2> QED BY <1>2, <2>1
<1> HIDE DEF m, n, z
<1>6. \A i \in 1 .. m + n : i \in 1 .. m \/ \E k \in 1 .. n : i = m + k
  <2> TAKE i \in 1 .. m + n
  <2>1. CASE i <= m
    BY <1>1, <2>1
  <2>2. CASE ~(i <= m)
    <3>1. i - m \in 1 .. n /\ i = m + (i - m)
      BY <1>1, <2>2
    <3> QED BY <3>1
  <2> QED BY <2>1, <2>2
<1>7. ToSet(z) = ToSet(s) \cup ToSet(t)
  <2>1. \A i \in 1 .. m + n : z[i] \in ToSet(s) \cup ToSet(t)
    <3>1. ASSUME NEW i \in 1 .. m PROVE z[i] \in ToSet(s)
      <4>1. z[i] = s[i] /\ i \in DOMAIN s
        BY <1>1, <1>4
      <4> QED BY <4>1 DEF ToSet
    <3>2. \A k \in 1 .. n : z[m + k] \in ToSet(t)
      BY <1>1, <1>5 DEF ToSet
    <3> QED BY <1>6, <3>1, <3>2
  <2>2. \A i \in 1 .. m : s[i] \in ToSet(z)
    BY <1>3, <1>4 DEF ToSet
  <2>3. \A k \in 1 .. n : t[k] \in ToSet(z)
    BY <1>3, <1>5 DEF ToSet
  <2>4. ToSet(z) \subseteq ToSet(s) \cup ToSet(t)
    BY <1>3, <2>1 DEF ToSet
  <2>5. ToSet(s) \subseteq ToSet(z) /\ ToSet(t) \subseteq ToSet(z)
    BY <1>1, <2>2, <2>3 DEF ToSet
  <2> QED BY <2>4, <2>5
<1>8. ASSUME Distinct(s), Distinct(t), ToSet(s) \cap ToSet(t) = {} PROVE Distinct(z)
  <2> SUFFICES ASSUME NEW i \in 1 .. m + n, NEW j \in 1 .. m + n, z[i] = z[j] PROVE i = j
      BY <1>3 DEF Distinct
  <2>1. \A x \in 1 .. m, k \in 1 .. n : s[x] # t[k]
    BY <1>1, <1>8 DEF ToSet
  <2>2. CASE i \in 1 .. m /\ j \in 1 .. m
    BY <1>1, <1>4, <1>8, <2>2 DEF Distinct
  <2>3. CASE i \in 1 .. m /\ j \notin 1 .. m
    BY <1>4, <1>5, <1>6, <2>1, <2>3
  <2>4. CASE i \notin 1 .. m /\ j \in 1 .. m
    BY <1>4, <1>5, <1>6, <2>1, <2>4
  <2>5. CASE i \notin 1 .. m /\ j \notin 1 .. m
    <3>1. PICK k \in 1 .. n, l \in 1 .. n : i = m + k /\ j = m + l
      BY <1>6, <2>5
    <3>2. t[k] = t[l]
      BY <1>5, <3>1
    <3>3. k = l
      BY <1>1, <1>8, <3>2 DEF Distinct
    <3> QED BY <3>1, <3>3
  <2> QED BY <2>2, <2>3, <2>4, <2>5
<1> QED BY <1>2, <1>7, <1>8 DEF z

-----------------------------------------------------------------------------
(* What the cache rests on: an event that was committed is in one place, on   *)
(* its way, lost, or counted by all that the cache keeps.                      *)

EventRecords == [id : Nat, at : Nat, label : Credentials \cup {NoLabel}, failed : BOOLEAN]

TableTyped ==
    /\ usageTable \in SUBSET EventRecords /\ IsFiniteSet(usageTable) /\ recentClock \in Nat
    /\ \A e \in usageTable : e.id < Cardinality(usageTable) /\ e.at <= recentClock
    /\ \A e, f \in usageTable : e.id = f.id => e = f

Batches == {<<e>> : e \in usageTable}
TableIds == {e.id : e \in usageTable}

BatchesTyped ==
    /\ offer \in [pc : {"none"}, batch : {<<>>}] \cup [pc : {"committed", "slot"}, batch : Batches]
    /\ receiver \in [pc : {"waiting", "done"}, batch : {<<>>}]
                      \cup [pc : {"received", "appending"}, batch : Batches]
    /\ appendQueue \in Seq(Batches)
    /\ lostBatches \subseteq TableIds
    /\ recentStopped \in BOOLEAN
    /\ appendSlots \in Nat /\ SlotsMeanRoom

QueuedIds == UNION {Ids(appendQueue[i]) : i \in DOMAIN appendQueue}

\* No event is in two of the places on its way.
Apart ==
    /\ Ids(offer.batch) \cap (Ids(receiver.batch) \cup QueuedIds \cup lostBatches) = {}
    /\ Ids(receiver.batch) \cap (QueuedIds \cup lostBatches) = {}
    /\ QueuedIds \cap lostBatches = {}
    /\ \A i, j \in DOMAIN appendQueue : i # j => Ids(appendQueue[i]) \cap Ids(appendQueue[j]) = {}

Labelled(T, l) == {e \in T : e.label = l}

\* The pool and the events, when the cache was told of these.
CacheFits ==
    /\ recentEvents \in Seq(EventRecords) /\ Distinct(recentEvents)
    /\ ToSet(recentEvents) \subseteq Seen
    /\ \A e \in Seen : InWindow(e, recentClock) => e \in ToSet(recentEvents)
    /\ stringRefs = [l \in Credentials |-> Cardinality(Labelled(ToSet(recentEvents), l))]

\* Events of a credential in a bucket.
BucketEvents(T, c, b, failed) ==
    {e \in T : e.label = c /\ e.failed = failed /\ Bucket(e.at) = b}

CountsAre(counts, T, c, b) ==
    counts = [success |-> Cardinality(BucketEvents(T, c, b, FALSE)),
              failure |-> Cardinality(BucketEvents(T, c, b, TRUE))]

HealthSpan == BucketSpan * HealthBuckets

HealthRight(buckets, last, T, now) ==
    /\ DOMAIN buckets = Credentials
    /\ \A c \in Credentials : \A b \in DOMAIN buckets[c] : b \in Int /\ b >= last - HealthSpan /\ b < last
    /\ \A c \in Credentials : \A b \in Int :
          b >= HealthStart(now) => CountsAre(CountsOf(buckets[c], b), T, c, b)
    /\ \E t \in 0 .. now : last = HealthEnd(t)

HealthFits == HealthRight(health, lastFullPrune, Seen, recentClock)

RecentInv == TableTyped /\ BatchesTyped /\ Apart /\ CacheFits /\ HealthFits

-----------------------------------------------------------------------------
(* The events and the pool, after an append and a prune                      *)

LEMMA LabelledCount ==
    ASSUME NEW s \in Seq(EventRecords), Distinct(s), NEW l
    PROVE  /\ Quantify(DOMAIN s, LAMBDA i : s[i].label = l) = Cardinality(Labelled(ToSet(s), l))
           /\ Cardinality(Labelled(ToSet(s), l)) \in Nat /\ IsFiniteSet(Labelled(ToSet(s), l))
<1> DEFINE T == Labelled(ToSet(s), l)
<1>1. {i \in DOMAIN s : s[i].label = l} = {i \in DOMAIN s : s[i] \in T}
  BY DEF Labelled, ToSet
<1>2. ToSet(s) \cap T = T
  BY DEF Labelled
<1>3. /\ IsFiniteSet(T) /\ Cardinality({i \in DOMAIN s : s[i] \in T}) = Cardinality(T)
      /\ Cardinality({i \in DOMAIN s : s[i] \in T}) \in Nat
  <2> HIDE DEF T
  <2> QED BY <1>2, PlacesCount
<1> HIDE DEF T
<1>4. Quantify(DOMAIN s, LAMBDA i : s[i].label = l) = Cardinality({i \in DOMAIN s : s[i].label = l})
  BY DEF Quantify
<1> QED BY <1>1, <1>3, <1>4 DEF T

LEMMA AppendingDoes ==
    ASSUME NEW kept \in Seq(EventRecords), Distinct(kept),
           NEW events \in Seq(EventRecords), Distinct(events),
           ToSet(kept) \cap ToSet(events) = {},
           NEW refs, refs = [l \in Credentials |-> Cardinality(Labelled(ToSet(kept), l))],
           NEW now \in Int, AppendRecent(kept, refs, events, now)
    PROVE  /\ recentEvents' \in Seq(EventRecords) /\ Distinct(recentEvents')
           /\ ToSet(recentEvents') = {e \in ToSet(kept) \cup ToSet(events) : InWindow(e, now)}
           /\ stringRefs' = [l \in Credentials |-> Cardinality(Labelled(ToSet(recentEvents'), l))]
<1> DEFINE all == kept \o events
           inside == {i \in DOMAIN all : InWindow(all[i], now)}
           outside == DOMAIN all \ inside
           old == EntriesAt(all, outside)
           new == EntriesAt(all, inside)
<1>1. recentEvents' = new /\ stringRefs' = Released(Interned(refs, events), old)
  BY DEF AppendRecent
<1>2. all \in Seq(EventRecords) /\ ToSet(all) = ToSet(kept) \cup ToSet(events) /\ Distinct(all)
  BY JoinedEntries
<1>3. inside \in SUBSET DOMAIN all /\ outside \in SUBSET DOMAIN all
  OBVIOUS
<1>4. \A i \in DOMAIN all : i \in inside <=> InWindow(all[i], now)
  OBVIOUS
<1> HIDE DEF all, inside
<1>5. new \in Seq(EventRecords) /\ Distinct(new) /\ ToSet(new) = {all[i] : i \in inside}
  BY <1>2, <1>3, EntriesFit
<1>6. old \in Seq(EventRecords) /\ Distinct(old) /\ ToSet(old) = {all[i] : i \in outside}
  BY <1>2, <1>3, EntriesFit
<1> HIDE DEF old, new
<1>7. ToSet(new) = {e \in ToSet(all) : InWindow(e, now)}
  BY <1>3, <1>4, <1>5 DEF ToSet
<1>8. ToSet(old) = {e \in ToSet(all) : ~InWindow(e, now)}
  BY <1>3, <1>4, <1>6 DEF ToSet
<1>9. ASSUME NEW l \in Credentials
      PROVE  (Cardinality(Labelled(ToSet(kept), l)) + Cardinality(Labelled(ToSet(events), l)))
               - Cardinality(Labelled(ToSet(old), l)) = Cardinality(Labelled(ToSet(new), l))
  <2> DEFINE K == Labelled(ToSet(kept), l) E == Labelled(ToSet(events), l)
             O == Labelled(ToSet(old), l) N == Labelled(ToSet(new), l)
  <2>1. IsFiniteSet(K) /\ IsFiniteSet(E) /\ IsFiniteSet(O) /\ IsFiniteSet(N)
    BY <1>5, <1>6, LabelledCount
  <2>2. K \cap E = {} /\ O \cap N = {} /\ K \cup E = O \cup N
    BY <1>2, <1>7, <1>8 DEF Labelled
  <2> HIDE DEF K, E, O, N
  <2>3. Cardinality(K \cup E) = Cardinality(K) + Cardinality(E) - Cardinality({})
    BY <2>1, <2>2, FS_Union
  <2>4. Cardinality(O \cup N) = Cardinality(O) + Cardinality(N) - Cardinality({})
    BY <2>1, <2>2, FS_Union
  <2>5. /\ Cardinality(K) \in Nat /\ Cardinality(E) \in Nat /\ Cardinality(O) \in Nat
        /\ Cardinality(N) \in Nat /\ Cardinality({}) = 0
    BY <2>1, FS_CardinalityType, FS_EmptySet
  <2>6. (Cardinality(K) + Cardinality(E)) - Cardinality(O) = Cardinality(N)
    <3>1. Cardinality(K \cup E) = Cardinality(O \cup N)
      BY <2>2
    <3>2. Cardinality(K \cup E) = Cardinality(K) + Cardinality(E)
      BY <2>3, <2>5
    <3>3. Cardinality(O \cup N) = Cardinality(O) + Cardinality(N)
      BY <2>4, <2>5
    <3> DEFINE k == Cardinality(K) e == Cardinality(E) o == Cardinality(O) n == Cardinality(N)
    <3>4. k + e = o + n
      BY <3>1, <3>2, <3>3, Zenon
    <3>5. k \in Nat /\ e \in Nat /\ o \in Nat /\ n \in Nat
      BY <2>5, Zenon
    <3> HIDE DEF k, e, o, n
    <3>6. (k + e) - o = n
      BY <3>4, <3>5
    <3> QED BY <3>6, Zenon DEF k, e, o, n
  <2> QED BY <2>6 DEF K, E, O, N
<1>10. \A l \in Credentials : Quantify(DOMAIN events, LAMBDA i : events[i].label = l)
                                = Cardinality(Labelled(ToSet(events), l))
  BY LabelledCount
<1>11. \A l \in Credentials : Quantify(DOMAIN old, LAMBDA i : old[i].label = l)
                                = Cardinality(Labelled(ToSet(old), l))
  BY <1>6, LabelledCount
<1>12. stringRefs' = [l \in Credentials |-> Cardinality(Labelled(ToSet(new), l))]
  <2> DEFINE in == Interned(refs, events)
  <2>1. in = [l \in Credentials |-> refs[l] + Quantify(DOMAIN events, LAMBDA i : events[i].label = l)]
    BY DEF Interned
  <2>2. Released(in, old) = [l \in Credentials |-> in[l] - Quantify(DOMAIN old, LAMBDA i : old[i].label = l)]
    BY DEF Released
  <2> HIDE DEF in
  <2>3. ASSUME NEW l \in Credentials PROVE Released(in, old)[l] = Cardinality(Labelled(ToSet(new), l))
    <3>1. in[l] = Cardinality(Labelled(ToSet(kept), l)) + Cardinality(Labelled(ToSet(events), l))
      BY <1>10, <2>1
    <3>2. Released(in, old)[l] = in[l] - Cardinality(Labelled(ToSet(old), l))
      BY <1>11, <2>2
    <3>3. (Cardinality(Labelled(ToSet(kept), l)) + Cardinality(Labelled(ToSet(events), l)))
            - Cardinality(Labelled(ToSet(old), l)) = Cardinality(Labelled(ToSet(new), l))
      BY <1>9
    <3> QED BY <3>1, <3>2, <3>3, Zenon
  <2>4. Released(in, old) = [l \in Credentials |-> Released(in, old)[l]]
    BY <2>2
  <2>5. Released(in, old) = [l \in Credentials |-> Cardinality(Labelled(ToSet(new), l))]
    BY <2>3, <2>4
  <2>6. stringRefs' = Released(in, old)
    BY <1>1 DEF in
  <2> QED BY <2>5, <2>6
<1> QED BY <1>1, <1>2, <1>5, <1>7, <1>12 DEF new

-----------------------------------------------------------------------------
(* Buckets                                                                   *)

LEMMA BucketConstants == BucketSpan \in Nat \ {0} /\ HealthBuckets \in Nat \ {0} /\ RecentWindow \in Nat
BY RecentAssumption

LEMMA Buckets ==
    ASSUME NEW t \in Nat
    PROVE  /\ Bucket(t) \in Int /\ Bucket(t) <= t /\ t < Bucket(t) + BucketSpan
           /\ HealthEnd(t) = Bucket(t) + BucketSpan /\ HealthEnd(t) \in Int
           /\ HealthSpan \in Nat /\ HealthStart(t) = HealthEnd(t) - HealthSpan
<1> DEFINE q == t \div BucketSpan
<1>1. /\ q \in Nat /\ t % BucketSpan \in 0 .. BucketSpan - 1
      /\ t = BucketSpan * q + (t % BucketSpan)
  BY BucketConstants
<1>2. Bucket(t) = q * BucketSpan
  BY DEF Bucket
<1> HIDE DEF q
<1>3. q * BucketSpan \in Int /\ q * BucketSpan = BucketSpan * q
  BY <1>1, BucketConstants
<1>4. HealthSpan \in Nat
  BY BucketConstants DEF HealthSpan
<1>5. HealthEnd(t) = Bucket(t) + BucketSpan /\ HealthStart(t) = HealthEnd(t) - HealthSpan
  BY DEF HealthEnd, HealthStart, HealthSpan
<1>6. Bucket(t) \in Int /\ Bucket(t) <= t /\ t < Bucket(t) + BucketSpan
  BY <1>1, <1>2, <1>3, BucketConstants
<1> QED BY <1>4, <1>5, <1>6, BucketConstants

LEMMA BucketsGrow ==
    ASSUME NEW s \in Nat, NEW t \in Nat, s <= t
    PROVE  /\ Bucket(s) <= Bucket(t) /\ HealthEnd(s) <= HealthEnd(t) /\ HealthStart(s) <= HealthStart(t)
           /\ HealthEnd(t) - HealthEnd(s) < BucketSpan => HealthEnd(s) = HealthEnd(t)
<1> DEFINE p == s \div BucketSpan q == t \div BucketSpan
<1>1. p \in Nat /\ q \in Nat /\ p <= q
  BY BucketConstants
<1>2. Bucket(s) = p * BucketSpan /\ Bucket(t) = q * BucketSpan
  BY DEF Bucket
<1> HIDE DEF p, q
<1>3. p * BucketSpan <= q * BucketSpan
  BY <1>1, BucketConstants
<1>4. Bucket(s) <= Bucket(t)
  BY <1>2, <1>3
<1>5. ASSUME p # q PROVE ~(Bucket(t) - Bucket(s) < BucketSpan)
  <2>1. q >= p + 1
    BY <1>1, <1>5
  <2>2. q * BucketSpan >= (p + 1) * BucketSpan
    BY <1>1, <2>1, BucketConstants
  <2>3. (p + 1) * BucketSpan = p * BucketSpan + BucketSpan
    BY <1>1, BucketConstants
  <2>4. p * BucketSpan \in Int /\ q * BucketSpan \in Int
    BY <1>1, BucketConstants
  <2> QED BY <1>2, <2>2, <2>3, <2>4, BucketConstants
<1>6. Bucket(t) - Bucket(s) < BucketSpan => Bucket(s) = Bucket(t)
  BY <1>2, <1>5
<1>7. /\ Bucket(s) \in Int /\ HealthEnd(s) = Bucket(s) + BucketSpan /\ HealthStart(s) = HealthEnd(s) - HealthSpan
      /\ Bucket(t) \in Int /\ HealthEnd(t) = Bucket(t) + BucketSpan /\ HealthStart(t) = HealthEnd(t) - HealthSpan
      /\ HealthSpan \in Nat
  BY Buckets
<1> QED BY <1>4, <1>6, <1>7, BucketConstants

-----------------------------------------------------------------------------
(* The health of the credentials, after some events                          *)

LEMMA CountedInBucket ==
    ASSUME NEW events \in Seq(EventRecords), Distinct(events), NEW c, NEW b, NEW failed
    PROVE  LET mine == EventsOfCredential(events, c)
           IN /\ Quantify(DOMAIN mine, LAMBDA i : Bucket(mine[i].at) = b /\ mine[i].failed = failed)
                   = Cardinality(BucketEvents(ToSet(events), c, b, failed))
              /\ IsFiniteSet(BucketEvents(ToSet(events), c, b, failed))
              /\ {Bucket(mine[i].at) : i \in DOMAIN mine}
                   = {Bucket(e.at) : e \in Labelled(ToSet(events), c)}
              /\ mine = <<>> <=> Labelled(ToSet(events), c) = {}
<1> DEFINE mine == EventsOfCredential(events, c)
           T == BucketEvents(ToSet(events), c, b, failed)
           P == {i \in DOMAIN events : events[i].label = c}
<1>1. P \in SUBSET DOMAIN events /\ mine = EntriesAt(events, P)
  BY DEF EventsOfCredential
<1> HIDE DEF mine
<1>2. mine \in Seq(EventRecords) /\ Distinct(mine) /\ ToSet(mine) = {events[i] : i \in P}
  BY <1>1, EntriesFit
<1>3. ToSet(mine) = Labelled(ToSet(events), c)
  BY <1>2 DEF Labelled, ToSet
<1>4. {i \in DOMAIN mine : Bucket(mine[i].at) = b /\ mine[i].failed = failed} = {i \in DOMAIN mine : mine[i] \in T}
  <2>1. \A i \in DOMAIN mine : mine[i] \in Labelled(ToSet(events), c)
    BY <1>3 DEF ToSet
  <2> QED BY <2>1 DEF BucketEvents, Labelled
<1>5. ToSet(mine) \cap T = T
  BY <1>3 DEF Labelled, BucketEvents
<1> HIDE DEF T
<1>6. /\ IsFiniteSet(T) /\ Cardinality({i \in DOMAIN mine : mine[i] \in T}) = Cardinality(T)
  <2>1. /\ IsFiniteSet(ToSet(mine) \cap T)
        /\ Cardinality({i \in DOMAIN mine : mine[i] \in T}) = Cardinality(ToSet(mine) \cap T)
    BY <1>2, PlacesCount
  <2> QED BY <1>5, <2>1, Zenon
<1>7. Quantify(DOMAIN mine, LAMBDA i : Bucket(mine[i].at) = b /\ mine[i].failed = failed) = Cardinality(T)
  <2>1. Quantify(DOMAIN mine, LAMBDA i : Bucket(mine[i].at) = b /\ mine[i].failed = failed)
          = Cardinality({i \in DOMAIN mine : Bucket(mine[i].at) = b /\ mine[i].failed = failed})
    BY DEF Quantify
  <2> QED BY <1>4, <1>6, <2>1
<1>8. {Bucket(mine[i].at) : i \in DOMAIN mine} = {Bucket(e.at) : e \in Labelled(ToSet(events), c)}
  <2>1. {Bucket(mine[i].at) : i \in DOMAIN mine} = {Bucket(e.at) : e \in ToSet(mine)}
    BY DEF ToSet
  <2> QED BY <1>3, <2>1
<1>9. mine = <<>> <=> ToSet(mine) = {}
  <2>1. mine = <<>> <=> DOMAIN mine = {}
    BY <1>2
  <2> QED BY <2>1 DEF ToSet
<1> QED BY <1>3, <1>6, <1>7, <1>8, <1>9 DEF mine, T

\* Two disjoint sets of events and what is counted of both.
LEMMA CountsAdd ==
    ASSUME NEW T, NEW U, T \cap U = {}, NEW c, NEW b, NEW failed,
           IsFiniteSet(BucketEvents(T, c, b, failed)), IsFiniteSet(BucketEvents(U, c, b, failed))
    PROVE  Cardinality(BucketEvents(T \cup U, c, b, failed))
             = Cardinality(BucketEvents(T, c, b, failed)) + Cardinality(BucketEvents(U, c, b, failed))
<1> DEFINE A == BucketEvents(T, c, b, failed) B == BucketEvents(U, c, b, failed)
<1>1. BucketEvents(T \cup U, c, b, failed) = A \cup B /\ A \cap B = {}
  BY DEF BucketEvents
<1> HIDE DEF A, B
<1>2. Cardinality(A \cup B) = Cardinality(A) + Cardinality(B) - Cardinality({})
  BY <1>1, FS_Union DEF A, B
<1>3. Cardinality(A) \in Nat /\ Cardinality(B) \in Nat /\ Cardinality({}) = 0
  BY FS_CardinalityType, FS_EmptySet DEF A, B
<1> DEFINE a == Cardinality(A) d == Cardinality(B) u == Cardinality(A \cup B)
<1>4. u = a + d
  <2>1. a \in Nat /\ d \in Nat
    BY <1>3
  <2>2. u = a + d - 0
    BY <1>2, <1>3, Zenon
  <2> HIDE DEF a, d, u
  <2> QED BY <2>1, <2>2
<1> QED BY <1>1, <1>4, Zenon DEF A, B

LEMMA LoadedFits ==
    ASSUME TableTyped, NEW from
    PROVE  /\ LoadedFrom(from) \in Seq(EventRecords) /\ Distinct(LoadedFrom(from))
           /\ ToSet(LoadedFrom(from)) = {e \in usageTable : e.at >= from}
<1> DEFINE due == {e \in usageTable : e.at >= from}
           n == Cardinality(due)
           R == {p \in EventRecords \X EventRecords : EarlierEvent(p[1], p[2])}
<1>1. due \in SUBSET EventRecords /\ IsFiniteSet(due) /\ \A e, f \in due : e.id = f.id => e = f
  BY FS_Subset DEF TableTyped
<1>2. \A e, f \in EventRecords : <<e, f>> \in R <=> EarlierEvent(e, f)
  OBVIOUS
<1>3. \A e \in EventRecords : e.at \in Nat /\ e.id \in Nat
  BY DEF EventRecords
<1> HIDE DEF due, R
<1>4. \A a \in due : <<a, a>> \notin R
  BY <1>1, <1>2, <1>3 DEF EarlierEvent
<1>5. \A a, b \in due : a # b => <<a, b>> \in R \/ <<b, a>> \in R
  BY <1>1, <1>2, <1>3 DEF EarlierEvent
<1>6. \A a, b, c \in due : <<a, b>> \in R /\ <<b, c>> \in R => <<a, c>> \in R
  BY <1>1, <1>2, <1>3 DEF EarlierEvent
<1>7. PICK s \in [1 .. n -> due] : \A i, j \in DOMAIN s : i < j => <<s[i], s[j]>> \in R
  BY <1>1, <1>4, <1>5, <1>6, AnyOrderLists
<1>8. \A i, j \in DOMAIN s : i < j => EarlierEvent(s[i], s[j])
  <2>1. \A i \in DOMAIN s : s[i] \in EventRecords
    BY <1>1, <1>7
  <2> QED BY <1>2, <1>7, <2>1
<1> DEFINE z == CHOOSE f \in [1 .. n -> due] : \A i, j \in DOMAIN f : i < j => EarlierEvent(f[i], f[j])
<1>9. z \in [1 .. n -> due] /\ \A i, j \in DOMAIN z : i < j => EarlierEvent(z[i], z[j])
  <2>1. \E f \in [1 .. n -> due] : \A i, j \in DOMAIN f : i < j => EarlierEvent(f[i], f[j])
    BY <1>7, <1>8
  <2> QED BY <2>1
<1>10. LoadedFrom(from) = z
  BY DEF LoadedFrom, due
<1> HIDE DEF z
<1>11. Distinct(z)
  <2>0. n \in Nat
    BY <1>1, FS_CardinalityType
  <2>1. DOMAIN z = 1 .. n /\ \A i \in 1 .. n : z[i] \in EventRecords
    BY <1>1, <1>9
  <2> HIDE DEF n
  <2> SUFFICES ASSUME NEW i \in 1 .. n, NEW j \in 1 .. n, i # j PROVE z[i] # z[j]
      BY <2>1 DEF Distinct
  <2>2. i < j \/ j < i
    BY <2>0
  <2>3. EarlierEvent(z[i], z[j]) \/ EarlierEvent(z[j], z[i])
    BY <1>9, <2>1, <2>2
  <2> QED BY <1>3, <2>1, <2>3 DEF EarlierEvent
<1>12. z \in Seq(due) /\ ToSet(z) = due
  BY <1>1, <1>9, <1>11, DistinctShowsAll
<1>13. z \in Seq(EventRecords)
  <2>1. Len(z) \in Nat /\ z \in [1 .. Len(z) -> due]
    BY <1>12
  <2>2. z \in [1 .. Len(z) -> EventRecords]
    BY <1>1, <2>1
  <2> QED BY <2>1, <2>2
<1> QED BY <1>10, <1>11, <1>12, <1>13 DEF due

LEMMA CredentialCounted ==
    ASSUME NEW events \in Seq(EventRecords), Distinct(events), NEW c, NEW b, NEW buckets,
           NEW T, T \cap ToSet(events) = {}, IsFiniteSet(T), CountsAre(CountsOf(buckets, b), T, c, b)
    PROVE  LET after == Counted(buckets, EventsOfCredential(events, c))
           IN CountsAre(CountsOf(after, b), T \cup ToSet(events), c, b)
<1> DEFINE mine == EventsOfCredential(events, c)
           after == Counted(buckets, mine)
           E == ToSet(events)
           count(failed) == Quantify(DOMAIN mine, LAMBDA i : Bucket(mine[i].at) = b /\ mine[i].failed = failed)
           touched == {Bucket(mine[i].at) : i \in DOMAIN mine}
<1> SUFFICES CountsAre(CountsOf(after, b), T \cup E, c, b)
    OBVIOUS
<1>1. /\ \A failed \in BOOLEAN : /\ count(failed) = Cardinality(BucketEvents(E, c, b, failed))
                                 /\ IsFiniteSet(BucketEvents(E, c, b, failed))
      /\ touched = {Bucket(e.at) : e \in Labelled(E, c)}
  BY CountedInBucket
<1>2. \A failed : IsFiniteSet(BucketEvents(T, c, b, failed))
  <2> TAKE failed
  <2>1. BucketEvents(T, c, b, failed) \in SUBSET T
    BY DEF BucketEvents
  <2> QED BY <2>1, FS_Subset
<1>3. \A failed \in BOOLEAN : Cardinality(BucketEvents(T \cup E, c, b, failed))
                      = Cardinality(BucketEvents(T, c, b, failed)) + Cardinality(BucketEvents(E, c, b, failed))
  <2> TAKE failed \in BOOLEAN
  <2>1. IsFiniteSet(BucketEvents(T, c, b, failed)) /\ IsFiniteSet(BucketEvents(E, c, b, failed))
    BY <1>1, <1>2
  <2> HIDE DEF count, touched
  <2> QED BY <2>1, CountsAdd
<1>4. CASE b \in DOMAIN buckets \cup touched
  <2>1. b \in DOMAIN after /\ after[b] = [success |-> CountsOf(buckets, b).success + count(FALSE),
                                          failure |-> CountsOf(buckets, b).failure + count(TRUE)]
    BY <1>4 DEF Counted
  <2> HIDE DEF after, count, E
  <2>2. CountsOf(after, b) = after[b]
    BY <2>1 DEF CountsOf
  <2> DEFINE n(X, failed) == Cardinality(BucketEvents(X, c, b, failed))
  <2>3. CountsOf(buckets, b) = [success |-> n(T, FALSE), failure |-> n(T, TRUE)]
    BY DEF CountsAre
  <2>4. /\ count(FALSE) = n(E, FALSE) /\ count(TRUE) = n(E, TRUE)
        /\ n(T \cup E, FALSE) = n(T, FALSE) + n(E, FALSE) /\ n(T \cup E, TRUE) = n(T, TRUE) + n(E, TRUE)
    BY <1>1, <1>3
  <2>5. CountsAre(CountsOf(after, b), T \cup E, c, b)
           <=> CountsOf(after, b) = [success |-> n(T \cup E, FALSE), failure |-> n(T \cup E, TRUE)]
    BY DEF CountsAre
  <2> HIDE DEF n
  <2>6. CountsOf(after, b) = [success |-> n(T \cup E, FALSE), failure |-> n(T \cup E, TRUE)]
    <3>1. CountsOf(buckets, b).success = n(T, FALSE) /\ CountsOf(buckets, b).failure = n(T, TRUE)
      BY <2>3
    <3> QED BY <2>1, <2>2, <2>4, <3>1, Zenon
  <2> QED BY <2>5, <2>6
<1>5. CASE b \notin DOMAIN buckets \cup touched
  <2>1. b \notin DOMAIN after
    BY <1>5 DEF Counted
  <2>2. CountsOf(after, b) = NoCounts /\ CountsOf(buckets, b) = NoCounts
    BY <1>5, <2>1 DEF CountsOf
  <2>3. \A failed : BucketEvents(E, c, b, failed) = {}
    BY <1>1, <1>5 DEF BucketEvents, Labelled
  <2>4. \A failed : BucketEvents(T \cup E, c, b, failed) = BucketEvents(T, c, b, failed)
    BY <2>3 DEF BucketEvents
  <2>5. CountsAre(CountsOf(after, b), T, c, b)
    BY <2>2
  <2>6. /\ BucketEvents(T \cup E, c, b, TRUE) = BucketEvents(T, c, b, TRUE)
        /\ BucketEvents(T \cup E, c, b, FALSE) = BucketEvents(T, c, b, FALSE)
    BY <2>4
  <2> HIDE DEF after, count
  <2>7. CountsAre(CountsOf(after, b), T \cup E, c, b)
    BY <2>5, <2>6, Zenon DEF CountsAre
  <2> QED BY <2>7
<1> QED BY <1>4, <1>5

LEMMA HealthDoes ==
    ASSUME NEW events \in Seq(EventRecords), Distinct(events), NEW now \in Nat,
           \A e \in ToSet(events) : e.at <= now,
           NEW before, NEW T, IsFiniteSet(T), T \cap ToSet(events) = {},
           HealthRight(before, lastFullPrune, T, now),
           NEW full \in BOOLEAN, full \/ lastFullPrune = HealthEnd(now),
           AppendHealth(before, events, now, full),
           NEW U, \A c \in Credentials, b \in Int, failed \in BOOLEAN : b >= HealthStart(now) =>
                     BucketEvents(U, c, b, failed) = BucketEvents(T \cup ToSet(events), c, b, failed)
    PROVE  HealthRight(health', lastFullPrune', U, now)
<1> DEFINE mine(c) == EventsOfCredential(events, c)
           after == [c \in Credentials |-> Counted(before[c], mine(c))]
           E == ToSet(events)
<1>1. health' = [c \in Credentials |->
             IF full \/ mine(c) # <<>> THEN Pruned(after[c], now) ELSE after[c]]
  BY DEF AppendHealth
<1>2. lastFullPrune' = HealthEnd(now)
  BY DEF AppendHealth
<1>3. /\ HealthStart(now) = HealthEnd(now) - HealthSpan /\ HealthEnd(now) \in Int /\ HealthSpan \in Nat
      /\ HealthStart(now) \in Int /\ lastFullPrune \in Int /\ lastFullPrune <= HealthEnd(now)
  <2>1. PICK t \in 0 .. now : lastFullPrune = HealthEnd(t)
    BY DEF HealthRight
  <2>2. t \in Nat /\ t <= now
    OBVIOUS
  <2>3. HealthEnd(t) <= HealthEnd(now) /\ HealthEnd(t) \in Int
    BY <2>2, BucketsGrow, Buckets
  <2> QED BY <2>1, <2>3, Buckets
<1>4. \A e \in E : Bucket(e.at) \in Int /\ Bucket(e.at) < HealthEnd(now)
  <2> TAKE e \in E
  <2>1. e.at \in Nat /\ e.at <= now
    <3>1. e \in EventRecords
      BY DEF ToSet
    <3> QED BY <3>1 DEF EventRecords
  <2>2. Bucket(e.at) \in Int /\ Bucket(e.at) <= Bucket(now) /\ Bucket(now) \in Int
        /\ HealthEnd(now) = Bucket(now) + BucketSpan
    BY <2>1, Buckets, BucketsGrow
  <2> QED BY <2>2, BucketConstants
<1>5. ASSUME NEW c \in Credentials
      PROVE  /\ DOMAIN after[c] = DOMAIN before[c] \cup {Bucket(e.at) : e \in Labelled(E, c)}
             /\ mine(c) = <<>> <=> Labelled(E, c) = {}
             /\ \A b \in DOMAIN after[c] : b \in Int /\ b < HealthEnd(now)
  <2>1. after[c] = Counted(before[c], mine(c))
    OBVIOUS
  <2>2. DOMAIN after[c] = DOMAIN before[c] \cup {Bucket(mine(c)[i].at) : i \in DOMAIN mine(c)}
    BY <2>1 DEF Counted
  <2>3. /\ {Bucket(mine(c)[i].at) : i \in DOMAIN mine(c)} = {Bucket(e.at) : e \in Labelled(E, c)}
        /\ mine(c) = <<>> <=> Labelled(E, c) = {}
    BY CountedInBucket
  <2>4. \A b \in DOMAIN before[c] : b \in Int /\ b < lastFullPrune
    BY DEF HealthRight
  <2> HIDE DEF after, mine, E
  <2>5. \A b \in DOMAIN before[c] : b \in Int /\ b < HealthEnd(now)
    BY <1>3, <2>4
  <2>6. \A b \in {Bucket(e.at) : e \in Labelled(E, c)} : b \in Int /\ b < HealthEnd(now)
    BY <1>4 DEF Labelled
  <2> QED BY <2>2, <2>3, <2>5, <2>6
<1>6. ASSUME NEW c \in Credentials, NEW b \in Int, b >= HealthStart(now)
      PROVE  CountsAre(CountsOf(after[c], b), U, c, b)
  <2>1. CountsAre(CountsOf(before[c], b), T, c, b)
    BY <1>6 DEF HealthRight
  <2>2. CountsAre(CountsOf(after[c], b), T \cup E, c, b)
    BY <2>1, CredentialCounted
  <2>3. \A failed \in BOOLEAN : BucketEvents(U, c, b, failed) = BucketEvents(T \cup E, c, b, failed)
    BY <1>6
  <2> HIDE DEF after, E
  <2> QED BY <2>2, <2>3 DEF CountsAre
<1> HIDE DEF after, mine, E
<1>7. ASSUME NEW c \in Credentials
      PROVE  \/ health'[c] = Pruned(after[c], now)
             \/ health'[c] = after[c] /\ Labelled(E, c) = {} /\ lastFullPrune = HealthEnd(now)
  BY <1>1, <1>5
<1>8. ASSUME NEW c \in Credentials, NEW b \in DOMAIN health'[c]
      PROVE  b \in Int /\ b >= HealthEnd(now) - HealthSpan /\ b < HealthEnd(now)
  <2>1. CASE health'[c] = Pruned(after[c], now)
    <3>1. b \in DOMAIN after[c] /\ b >= HealthStart(now)
      BY <2>1 DEF Pruned
    <3> QED BY <1>3, <1>5, <3>1
  <2>2. CASE health'[c] = after[c] /\ Labelled(E, c) = {} /\ lastFullPrune = HealthEnd(now)
    <3>1. b \in DOMAIN before[c]
      BY <1>5, <2>2
    <3> QED BY <2>2, <3>1 DEF HealthRight
  <2> QED BY <1>7, <2>1, <2>2
<1>9. ASSUME NEW c \in Credentials, NEW b \in Int, b >= HealthStart(now)
      PROVE  CountsAre(CountsOf(health'[c], b), U, c, b)
  <2>1. CASE health'[c] = Pruned(after[c], now)
    <3>1. b \in DOMAIN health'[c] <=> b \in DOMAIN after[c]
      BY <1>9, <2>1 DEF Pruned
    <3>2. b \in DOMAIN after[c] => health'[c][b] = after[c][b]
      BY <1>9, <2>1 DEF Pruned
    <3>3. CountsOf(health'[c], b) = CountsOf(after[c], b)
      BY <3>1, <3>2 DEF CountsOf
    <3> QED BY <1>6, <1>9, <3>3
  <2>2. CASE health'[c] = after[c]
    BY <1>6, <1>9, <2>2
  <2> QED BY <1>7, <2>1, <2>2
<1>10. DOMAIN health' = Credentials
  BY <1>1
<1>11. \E t \in 0 .. now : lastFullPrune' = HealthEnd(t)
  BY <1>2
<1> QED BY <1>2, <1>8, <1>9, <1>10, <1>11 DEF HealthRight

-----------------------------------------------------------------------------
(* The way of the batches                                                    *)

LEMMA BatchIds ==
    /\ Ids(<<>>) = {}
    /\ \A e : Ids(<<e>>) = {e.id}
<1>1. Ids(<<>>) = {}
  BY DEF Ids
<1>2. ASSUME NEW e PROVE Ids(<<e>>) = {e.id}
  <2>1. DOMAIN <<e>> = {1} /\ <<e>>[1] = e
    OBVIOUS
  <2> QED BY <2>1 DEF Ids
<1> QED BY <1>1, <1>2

\* What is on its way was committed.
LEMMA WayOfBatches ==
    ASSUME BatchesTyped
    PROVE  /\ OnTheirWay = Ids(offer.batch) \cup Ids(receiver.batch) \cup QueuedIds
           /\ OnTheirWay \subseteq TableIds
           /\ \A i \in DOMAIN appendQueue : appendQueue[i] \in Batches
           /\ DOMAIN appendQueue = 1 .. Len(appendQueue) /\ Len(appendQueue) \in Nat
           /\ offer.batch \in Batches \cup {<<>>} /\ receiver.batch \in Batches \cup {<<>>}
<1>1. \A q \in Batches : Ids(q) \subseteq TableIds
  BY BatchIds DEF Batches, TableIds
<1>2. /\ \A i \in DOMAIN appendQueue : appendQueue[i] \in Batches
      /\ DOMAIN appendQueue = 1 .. Len(appendQueue) /\ Len(appendQueue) \in Nat
  BY DEF BatchesTyped
<1>3. offer.batch \in Batches \cup {<<>>} /\ receiver.batch \in Batches \cup {<<>>}
  BY DEF BatchesTyped
<1>4. OnTheirWay = Ids(offer.batch) \cup Ids(receiver.batch) \cup QueuedIds
  BY DEF OnTheirWay, QueuedIds
<1>5. QueuedIds \subseteq TableIds
  BY <1>1, <1>2 DEF QueuedIds
<1>6. Ids(offer.batch) \subseteq TableIds /\ Ids(receiver.batch) \subseteq TableIds
  BY <1>1, <1>3, BatchIds
<1> QED BY <1>2, <1>3, <1>4, <1>5, <1>6

LEMMA QueueGrows ==
    ASSUME NEW S, NEW q \in Seq(S), NEW x \in S, NEW z, z = Append(q, x)
    PROVE  /\ z \in Seq(S) /\ Len(z) = Len(q) + 1
           /\ DOMAIN z = 1 .. Len(q) + 1 /\ DOMAIN q = 1 .. Len(q)
           /\ \A i \in 1 .. Len(q) : i \in 1 .. Len(q) + 1 /\ z[i] = q[i]
           /\ Len(q) + 1 \in 1 .. Len(q) + 1 /\ z[Len(q) + 1] = x
           /\ \A i \in 1 .. Len(q) + 1 : i \in 1 .. Len(q) \/ i = Len(q) + 1
<1>1. Len(q) \in Nat
  OBVIOUS
<1>2. \A i \in 1 .. Len(q) + 1 : i \in 1 .. Len(q) \/ i = Len(q) + 1
  BY <1>1
<1>3. \A i \in 1 .. Len(q) : i \in 1 .. Len(q) + 1 /\ z[i] = q[i]
  BY <1>1
<1> QED BY <1>1, <1>2, <1>3

LEMMA QueueShrinks ==
    ASSUME NEW S, NEW q \in Seq(S), q # <<>>, NEW z, z = Tail(q)
    PROVE  /\ z \in Seq(S) /\ Len(z) = Len(q) - 1 /\ Len(q) \in Nat \ {0} /\ Head(q) = q[1] /\ Head(q) \in S
           /\ DOMAIN z = 1 .. Len(q) - 1 /\ DOMAIN q = 1 .. Len(q)
           /\ \A i \in 1 .. Len(q) - 1 : i + 1 \in 1 .. Len(q) /\ i + 1 # 1 /\ z[i] = q[i + 1]
           /\ \A i \in 1 .. Len(q) : i = 1 \/ \E k \in 1 .. Len(q) - 1 : i = k + 1
<1>1. Len(q) \in Nat \ {0} /\ DOMAIN q = 1 .. Len(q) /\ Head(q) = q[1] /\ Head(q) \in S
  OBVIOUS
<1>2. z \in Seq(S) /\ Len(z) = Len(q) - 1 /\ DOMAIN z = 1 .. Len(q) - 1
  BY <1>1
<1>3. \A i \in 1 .. Len(q) - 1 : i + 1 \in 1 .. Len(q) /\ i + 1 # 1 /\ z[i] = q[i + 1]
  BY <1>1
<1>4. \A i \in 1 .. Len(q) : i = 1 \/ \E k \in 1 .. Len(q) - 1 : i = k + 1
  <2> TAKE i \in 1 .. Len(q)
  <2>1. CASE i # 1
    <3>1. i - 1 \in 1 .. Len(q) - 1 /\ i = (i - 1) + 1
      BY <1>1, <2>1
    <3> QED BY <3>1
  <2> QED BY <2>1
<1> QED BY <1>1, <1>2, <1>3, <1>4

-----------------------------------------------------------------------------
(* Each step keeps the invariant                                             *)

LEMMA RecentStarts == RecentInit => RecentInv
<1> SUFFICES ASSUME RecentInit PROVE RecentInv
    OBVIOUS
<1> USE DEF RecentInit
<1>1. TableTyped
  <2>1. IsFiniteSet({})
    BY FS_EmptySet
  <2> QED BY <2>1 DEF TableTyped
<1>2. offer = NoOffer /\ receiver = Waiting /\ appendQueue = <<>> /\ lostBatches = {}
  OBVIOUS
<1>3. SlotsMeanRoom /\ appendSlots \in Nat
  BY RecentAssumption DEF SlotsMeanRoom, NoOffer, Waiting
<1>4. BatchesTyped
  <2>1. offer \in [pc : {"none"}, batch : {<<>>}] /\ receiver \in [pc : {"waiting", "done"}, batch : {<<>>}]
    BY <1>2 DEF NoOffer, Waiting
  <2>2. appendQueue \in Seq(Batches) /\ lostBatches \subseteq TableIds
    BY <1>2
  <2>3. recentStopped \in BOOLEAN
    BY Zenon
  <2> HIDE DEF RecentInit
  <2> QED BY <1>3, <2>1, <2>2, <2>3 DEF BatchesTyped
<1>5. Ids(offer.batch) = {} /\ Ids(receiver.batch) = {} /\ QueuedIds = {}
  BY <1>2, BatchIds DEF NoOffer, Waiting, QueuedIds
<1>6. Apart
  BY <1>2, <1>5 DEF Apart
<1>7. Seen = {} /\ ToSet(recentEvents) = {}
  BY DEF Seen, ToSet
<1>8. CacheFits
  <2>1. \A l : Labelled({}, l) = {}
    BY DEF Labelled
  <2>2. stringRefs = [l \in Credentials |-> Cardinality(Labelled(ToSet(recentEvents), l))]
    BY <1>7, <2>1, FS_EmptySet
  <2> QED BY <1>7, <2>2 DEF CacheFits, Distinct
<1>9. HealthFits
  <2>1. \A c \in Credentials : DOMAIN health[c] = {}
    OBVIOUS
  <2>2. \A c, b, failed : BucketEvents({}, c, b, failed) = {}
    BY DEF BucketEvents
  <2>3. \A c, b : CountsAre(NoCounts, {}, c, b)
    BY <2>2, FS_EmptySet DEF CountsAre, NoCounts
  <2>4. \A c \in Credentials : \A b : CountsOf(health[c], b) = NoCounts
    BY <2>1 DEF CountsOf
  <2>5. lastFullPrune = HealthEnd(0)
    <3>1. 0 \div BucketSpan = 0
      BY BucketConstants
    <3>2. Bucket(0) = 0
      BY <3>1, BucketConstants DEF Bucket
    <3> QED BY <3>2, BucketConstants DEF HealthEnd
  <2>6. recentClock = 0 /\ 0 \in 0 .. 0
    OBVIOUS
  <2> HIDE DEF RecentInit
  <2>7. HealthRight(health, lastFullPrune, {}, recentClock)
    <3>1. DOMAIN health = Credentials
      BY DEF RecentInit
    <3> QED BY <2>1, <2>3, <2>4, <2>5, <2>6, <3>1 DEF HealthRight
  <2> QED BY <1>7, <2>7 DEF HealthFits
<1> QED BY <1>1, <1>4, <1>6, <1>8, <1>9 DEF RecentInv

\* The cache as it was, with no event more that it should know.
LEMMA CacheRests ==
    ASSUME RecentInv, UNCHANGED cacheVars, Seen' = Seen, recentClock' \in Nat, recentClock <= recentClock'
    PROVE  CacheFits' /\ HealthFits'
<1>1. recentClock \in Nat /\ usageTable \in SUBSET EventRecords
  BY DEF RecentInv, TableTyped
<1>2. UNCHANGED <<recentEvents, stringRefs, health, lastFullPrune>>
  BY DEF cacheVars
<1>3. CacheFits'
  <2>1. \A e \in Seen : InWindow(e, recentClock') => InWindow(e, recentClock)
    <3> TAKE e \in Seen
    <3>1. e \in EventRecords
      BY <1>1 DEF Seen
    <3>2. e.at \in Nat
      BY <3>1 DEF EventRecords
    <3> QED BY <1>1, <3>2, BucketConstants DEF InWindow
  <2>2. CacheFits
    BY DEF RecentInv
  <2>3. \A e \in Seen' : InWindow(e, recentClock') => e \in ToSet(recentEvents')
    BY <1>2, <2>1, <2>2 DEF CacheFits
  <2> QED BY <1>2, <2>2, <2>3 DEF CacheFits
<1>4. HealthFits'
  <2>1. HealthRight(health, lastFullPrune, Seen, recentClock)
    BY DEF RecentInv, HealthFits
  <2>2. HealthStart(recentClock) <= HealthStart(recentClock')
        /\ HealthStart(recentClock) \in Int /\ HealthStart(recentClock') \in Int
    <3>1. \A s, t \in Nat : s <= t => HealthStart(s) <= HealthStart(t)
      BY BucketsGrow
    <3>2. \A t \in Nat : HealthStart(t) \in Int
      BY Buckets
    <3> QED BY <1>1, <3>1, <3>2
  <2>3. \A b \in Int : b >= HealthStart(recentClock') => b >= HealthStart(recentClock)
    BY <2>2
  <2>4. \A t \in 0 .. recentClock : t \in 0 .. recentClock'
    BY <1>1
  <2>5. HealthRight(health, lastFullPrune, Seen, recentClock')
    BY <2>1, <2>3, <2>4 DEF HealthRight
  <2> QED BY <1>2, <2>5 DEF HealthFits
<1> QED BY <1>3, <1>4

LEMMA CommitBatchKeeps == RecentInv /\ CommitBatch => RecentInv'
<1> SUFFICES ASSUME RecentInv, CommitBatch PROVE RecentInv'
    OBVIOUS
<1>1. PICK age \in EventAges, label \in Credentials \cup {NoLabel}, failed \in BOOLEAN :
        LET event == [id |-> Cardinality(usageTable), at |-> recentClock - age,
                      label |-> label, failed |-> failed]
        IN /\ event.at >= 0
           /\ usageTable' = usageTable \cup {event}
           /\ offer' = [pc |-> "committed", batch |-> <<event>>]
  BY DEF CommitBatch
<1> DEFINE event == [id |-> Cardinality(usageTable), at |-> recentClock - age,
                     label |-> label, failed |-> failed]
<1>2. usageTable' = usageTable \cup {event} /\ offer' = [pc |-> "committed", batch |-> <<event>>]
      /\ event.at >= 0 /\ event.at = recentClock - age
      /\ event.id = Cardinality(usageTable)
  BY <1>1
<1>3. /\ offer.pc = "none"
      /\ UNCHANGED <<recentClock, appendSlots, appendQueue, receiver, recentStopped, cacheVars, lostBatches>>
  BY DEF CommitBatch
<1>4. TableTyped /\ BatchesTyped /\ Apart
  BY DEF RecentInv
<1>5. Cardinality(usageTable) \in Nat /\ recentClock \in Nat /\ age \in Nat
  BY <1>4, FS_CardinalityType, RecentAssumption DEF TableTyped
<1>6. event \in EventRecords /\ event.at <= recentClock
  <2>1. recentClock - age \in Nat /\ recentClock - age <= recentClock
    BY <1>2, <1>5
  <2> QED BY <1>5, <2>1 DEF EventRecords
<1> HIDE DEF event
<1>7. \A e \in usageTable : e.id < Cardinality(usageTable) /\ e.id \in Nat /\ e.at <= recentClock
  BY <1>4 DEF TableTyped, EventRecords
<1>8. event \notin usageTable /\ event.id \notin TableIds
  BY <1>2, <1>5, <1>7 DEF TableIds
<1>9. TableTyped'
  <2>1. IsFiniteSet(usageTable') /\ Cardinality(usageTable') = Cardinality(usageTable) + 1
    BY <1>2, <1>4, <1>8, FS_AddElement DEF TableTyped
  <2>2. \A e \in usageTable' : e.id < Cardinality(usageTable') /\ e.at <= recentClock'
    BY <1>2, <1>3, <1>5, <1>6, <1>7, <2>1
  <2>3. \A e, f \in usageTable' : e.id = f.id => e = f
    BY <1>2, <1>4, <1>8 DEF TableTyped, TableIds
  <2>4. usageTable' \in SUBSET EventRecords
    BY <1>2, <1>4, <1>6 DEF TableTyped
  <2> QED BY <1>3, <1>5, <2>1, <2>2, <2>3, <2>4 DEF TableTyped
<1>10. Batches \subseteq Batches' /\ <<event>> \in Batches' /\ TableIds \subseteq TableIds'
  BY <1>2 DEF Batches, TableIds
<1>11. BatchesTyped'
  <2>1. appendQueue' \in Seq(Batches')
    BY <1>3, <1>4, <1>10, Widened DEF BatchesTyped
  <2>2. offer' \in [pc : {"committed", "slot"}, batch : Batches']
    BY <1>2, <1>10
  <2>3. receiver' \in [pc : {"waiting", "done"}, batch : {<<>>}]
                      \cup [pc : {"received", "appending"}, batch : Batches']
    BY <1>3, <1>4, <1>10 DEF BatchesTyped
  <2>4. SlotsMeanRoom'
    BY <1>2, <1>3, <1>4 DEF SlotsMeanRoom, BatchesTyped
  <2> QED BY <1>3, <1>4, <1>10, <2>1, <2>2, <2>3, <2>4 DEF BatchesTyped
<1>12. Ids(offer.batch) = {} /\ Ids(offer'.batch) = {event.id}
  <2>1. offer.batch = <<>> /\ offer'.batch = <<event>>
    BY <1>2, <1>3, <1>4 DEF BatchesTyped
  <2> QED BY <2>1, BatchIds
<1>13. QueuedIds' = QueuedIds /\ receiver' = receiver /\ lostBatches' = lostBatches
  BY <1>3 DEF QueuedIds
<1>14. event.id \notin Ids(receiver.batch) \cup QueuedIds \cup lostBatches
  BY <1>4, <1>8, WayOfBatches DEF BatchesTyped
<1>15. Apart'
  BY <1>3, <1>4, <1>12, <1>13, <1>14 DEF Apart
<1>16. OnTheirWay' = OnTheirWay \cup {event.id}
  <2>1. OnTheirWay' = Ids(offer'.batch) \cup Ids(receiver'.batch) \cup QueuedIds'
    BY DEF OnTheirWay, QueuedIds
  <2>2. OnTheirWay = Ids(offer.batch) \cup Ids(receiver.batch) \cup QueuedIds
    BY DEF OnTheirWay, QueuedIds
  <2> QED BY <1>12, <1>13, <2>1, <2>2
<1>17. Seen' = Seen
  BY <1>2, <1>8, <1>13, <1>16 DEF Seen, TableIds
<1>18. CacheFits' /\ HealthFits'
  <2>1. UNCHANGED cacheVars /\ recentClock' = recentClock
    BY <1>3
  <2> QED BY <1>5, <1>17, <2>1, CacheRests
<1> QED BY <1>9, <1>11, <1>15, <1>18 DEF RecentInv

LEMMA WayKeeps ==
    ASSUME RecentInv, UNCHANGED <<usageTable, cacheVars>>, recentClock' \in Nat, recentClock <= recentClock',
           BatchesTyped', Apart', lostBatches' \cup OnTheirWay' = lostBatches \cup OnTheirWay
    PROVE  RecentInv'
<1>1. TableTyped'
  <2>1. TableTyped
    BY DEF RecentInv
  <2>2. \A e \in usageTable : e.at <= recentClock'
    <3> TAKE e \in usageTable
    <3>1. e \in EventRecords /\ e.at <= recentClock /\ recentClock \in Nat
      BY <2>1 DEF TableTyped
    <3>2. e.at \in Nat
      BY <3>1 DEF EventRecords
    <3> QED BY <3>1, <3>2
  <2> QED BY <2>1, <2>2 DEF TableTyped
<1>2. Seen' = Seen
  BY DEF Seen
<1>3. CacheFits' /\ HealthFits'
  BY <1>2, CacheRests
<1> QED BY <1>1, <1>3 DEF RecentInv

LEMMA PlacesOfIds ==
    ASSUME RecentInv
    PROVE  /\ BatchesTyped /\ Apart /\ recentClock \in Nat /\ appendQueue \in Seq(Batches)
           /\ appendSlots \in Nat /\ Len(appendQueue) \in Nat /\ BatchSlots \in Nat
BY RecentAssumption DEF RecentInv, BatchesTyped, TableTyped

LEMMA AcquireKeeps == RecentInv /\ AcquireSlot => RecentInv'
<1> SUFFICES ASSUME RecentInv, AcquireSlot PROVE RecentInv'
    OBVIOUS
<1>1. UNCHANGED <<usageTable, recentClock, appendQueue, receiver, recentStopped, cacheVars>>
      /\ offer.pc = "committed"
  BY DEF AcquireSlot
<1>2. Batches' = Batches /\ TableIds' = TableIds /\ QueuedIds' = QueuedIds
  BY <1>1 DEF Batches, TableIds, QueuedIds
<1>3. OnTheirWay' = Ids(offer'.batch) \cup Ids(receiver.batch) \cup QueuedIds
  BY <1>1, <1>2 DEF OnTheirWay, QueuedIds
<1>4. offer.batch \in Batches /\ offer = [pc |-> "committed", batch |-> offer.batch]
  BY <1>1, PlacesOfIds DEF BatchesTyped
<1>5. Ids(offer.batch) \subseteq TableIds
  BY <1>4, PlacesOfIds, WayOfBatches
<1>6. CASE recentStopped \/ appendSlots = 0
  <2>1. lostBatches' = lostBatches \cup Ids(offer.batch) /\ offer' = NoOffer /\ appendSlots' = appendSlots
    BY <1>6 DEF AcquireSlot, Lose
  <2>2. Ids(offer'.batch) = {} /\ offer'.pc = "none" /\ offer'.batch = <<>>
    BY <2>1, BatchIds DEF NoOffer
  <2>3. Apart'
    BY <1>1, <1>2, <2>1, <2>2, PlacesOfIds DEF Apart
  <2>4. SlotsMeanRoom'
    BY <1>1, <2>1, <2>2, PlacesOfIds DEF SlotsMeanRoom, BatchesTyped
  <2>5. offer' \in [pc : {"none"}, batch : {<<>>}]
    BY <2>1 DEF NoOffer
  <2>6. lostBatches' \subseteq TableIds'
    BY <1>2, <1>5, <2>1, PlacesOfIds DEF BatchesTyped
  <2>7. BatchesTyped'
    BY <1>1, <1>2, <2>1, <2>4, <2>5, <2>6, PlacesOfIds DEF BatchesTyped
  <2>8. lostBatches' \cup OnTheirWay' = lostBatches \cup OnTheirWay
    BY <1>3, <2>1, <2>2, PlacesOfIds, WayOfBatches
  <2> QED BY <1>1, <2>3, <2>7, <2>8, PlacesOfIds, WayKeeps
<1>7. CASE ~(recentStopped \/ appendSlots = 0)
  <2>1. appendSlots' = appendSlots - 1 /\ offer' = [offer EXCEPT !.pc = "slot"] /\ lostBatches' = lostBatches
    BY <1>7 DEF AcquireSlot
  <2>2. offer'.batch = offer.batch /\ offer'.pc = "slot" /\ offer' \in [pc : {"slot"}, batch : Batches]
    BY <1>4, <2>1
  <2>3. Apart'
    BY <1>1, <1>2, <2>1, <2>2, PlacesOfIds DEF Apart
  <2>4. appendSlots' \in Nat
    BY <1>7, <2>1, PlacesOfIds
  <2>5. SlotsMeanRoom'
    BY <1>1, <2>1, <2>2, PlacesOfIds DEF SlotsMeanRoom, BatchesTyped
  <2>6. BatchesTyped'
    BY <1>1, <1>2, <2>1, <2>2, <2>4, <2>5, PlacesOfIds DEF BatchesTyped
  <2>7. lostBatches' \cup OnTheirWay' = lostBatches \cup OnTheirWay
    BY <1>3, <2>1, <2>2, PlacesOfIds, WayOfBatches
  <2> QED BY <1>1, <2>3, <2>6, <2>7, PlacesOfIds, WayKeeps
<1> QED BY <1>6, <1>7

LEMMA SendKeeps == RecentInv /\ Send => RecentInv'
<1> SUFFICES ASSUME RecentInv, Send PROVE RecentInv'
    OBVIOUS
<1>1. UNCHANGED <<usageTable, recentClock, receiver, recentStopped, cacheVars>> /\ offer.pc = "slot"
  BY DEF Send
<1>2. Batches' = Batches /\ TableIds' = TableIds
  BY <1>1 DEF Batches, TableIds
<1>3. OnTheirWay' = Ids(offer'.batch) \cup Ids(receiver.batch) \cup QueuedIds'
  BY <1>1 DEF OnTheirWay, QueuedIds
<1>4. offer.batch \in Batches
  BY <1>1, PlacesOfIds DEF BatchesTyped
<1>5. Ids(offer.batch) \subseteq TableIds
  BY <1>4, PlacesOfIds, WayOfBatches
<1>6. ASSUME offer' = NoOffer
      PROVE  /\ Ids(offer'.batch) = {} /\ offer'.pc = "none" /\ offer'.batch = <<>>
             /\ offer' \in [pc : {"none"}, batch : {<<>>}]
  BY <1>6, BatchIds DEF NoOffer
<1>7. CASE /\ recentStopped \/ Len(appendQueue) = BatchSlots
           /\ Lose
           /\ appendSlots' = appendSlots + 1
           /\ UNCHANGED appendQueue
  <2>1. /\ lostBatches' = lostBatches \cup Ids(offer.batch) /\ offer' = NoOffer
        /\ appendSlots' = appendSlots + 1 /\ appendQueue' = appendQueue /\ QueuedIds' = QueuedIds
    BY <1>7 DEF Lose, QueuedIds
  <2>2. Apart'
    BY <1>1, <1>6, <2>1, PlacesOfIds DEF Apart
  <2>3. SlotsMeanRoom'
    BY <1>1, <1>6, <2>1, PlacesOfIds DEF SlotsMeanRoom, BatchesTyped
  <2>4. lostBatches' \subseteq TableIds' /\ appendSlots' \in Nat
    BY <1>2, <1>5, <2>1, PlacesOfIds DEF BatchesTyped
  <2>5. BatchesTyped'
    BY <1>1, <1>2, <1>6, <2>1, <2>3, <2>4, PlacesOfIds DEF BatchesTyped
  <2>6. lostBatches' \cup OnTheirWay' = lostBatches \cup OnTheirWay
    BY <1>3, <1>6, <2>1, PlacesOfIds, WayOfBatches
  <2> QED BY <1>1, <2>2, <2>5, <2>6, PlacesOfIds, WayKeeps
<1>8. CASE /\ Len(appendQueue) < BatchSlots /\ appendQueue' = Append(appendQueue, offer.batch)
           /\ offer' = NoOffer /\ UNCHANGED <<appendSlots, lostBatches>>
  <2> DEFINE q == appendQueue n == Len(appendQueue)
  <2>1. /\ appendQueue' \in Seq(Batches) /\ Len(appendQueue') = n + 1 /\ DOMAIN appendQueue' = 1 .. n + 1
        /\ DOMAIN q = 1 .. n
        /\ \A i \in 1 .. n : i \in 1 .. n + 1 /\ appendQueue'[i] = q[i]
        /\ n + 1 \in 1 .. n + 1 /\ appendQueue'[n + 1] = offer.batch
        /\ \A i \in 1 .. n + 1 : i \in 1 .. n \/ i = n + 1
    BY <1>4, <1>8, PlacesOfIds, QueueGrows
  <2>2. offer' = NoOffer /\ UNCHANGED <<appendSlots, lostBatches>>
    BY <1>8
  <2> HIDE DEF n, q
  <2>3. QueuedIds' = QueuedIds \cup Ids(offer.batch)
    <3>1. QueuedIds' = UNION {Ids(appendQueue'[i]) : i \in 1 .. n + 1}
      BY <2>1 DEF QueuedIds
    <3>2. QueuedIds = UNION {Ids(q[i]) : i \in 1 .. n}
      BY <2>1 DEF QueuedIds, q
    <3>3. \A x : x \in QueuedIds' <=> \E i \in 1 .. n + 1 : x \in Ids(appendQueue'[i])
      BY <3>1
    <3>4. \A x : x \in QueuedIds <=> \E i \in 1 .. n : x \in Ids(q[i])
      BY <3>2
    <3>5. ASSUME NEW x \in QueuedIds' PROVE x \in QueuedIds \cup Ids(offer.batch)
      BY <2>1, <3>3, <3>4
    <3>6. ASSUME NEW x \in QueuedIds \cup Ids(offer.batch) PROVE x \in QueuedIds'
      BY <2>1, <3>3, <3>4
    <3> QED BY <3>5, <3>6
  <2>4. \A i \in 1 .. n : Ids(q[i]) \cap Ids(offer.batch) = {}
    BY <2>1, PlacesOfIds DEF Apart, QueuedIds, q
  <2>5. ASSUME NEW i \in 1 .. n + 1, NEW j \in 1 .. n + 1, i # j
        PROVE  Ids(appendQueue'[i]) \cap Ids(appendQueue'[j]) = {}
    <3>1. CASE i \in 1 .. n /\ j \in 1 .. n
      <4>1. \A k, l \in 1 .. n : k # l => Ids(q[k]) \cap Ids(q[l]) = {}
        BY <2>1, PlacesOfIds DEF Apart, q
      <4> QED BY <2>1, <2>5, <3>1, <4>1
    <3>2. CASE i = n + 1 /\ j \in 1 .. n
      BY <2>1, <2>4, <3>2
    <3>3. CASE i \in 1 .. n /\ j = n + 1
      BY <2>1, <2>4, <3>3
    <3> QED BY <2>1, <2>5, <3>1, <3>2, <3>3
  <2>6. Apart'
    BY <1>1, <1>6, <2>1, <2>2, <2>3, <2>5, PlacesOfIds DEF Apart
  <2>7. SlotsMeanRoom'
    BY <1>1, <1>6, <2>1, <2>2, PlacesOfIds DEF SlotsMeanRoom, BatchesTyped, n
  <2>8. BatchesTyped'
    BY <1>1, <1>2, <1>6, <2>1, <2>2, <2>7, PlacesOfIds DEF BatchesTyped
  <2>9. lostBatches' \cup OnTheirWay' = lostBatches \cup OnTheirWay
    BY <1>3, <1>6, <2>2, <2>3, PlacesOfIds, WayOfBatches
  <2> QED BY <1>1, <2>6, <2>8, <2>9, PlacesOfIds, WayKeeps
<1> QED BY <1>7, <1>8 DEF Send

LEMMA ReceiveKeeps == RecentInv /\ ReceiveBatch => RecentInv'
<1> SUFFICES ASSUME RecentInv, ReceiveBatch PROVE RecentInv'
    OBVIOUS
<1> DEFINE q == appendQueue n == Len(appendQueue)
<1>1. /\ UNCHANGED <<usageTable, recentClock, appendSlots, offer, recentStopped, cacheVars, lostBatches>>
      /\ receiver.pc = "waiting" /\ q # <<>> /\ appendQueue' = Tail(q)
      /\ receiver' = [pc |-> "received", batch |-> Head(q)]
  BY DEF ReceiveBatch
<1>2. Batches' = Batches /\ TableIds' = TableIds
  BY <1>1 DEF Batches, TableIds
<1>3. OnTheirWay' = Ids(offer.batch) \cup Ids(receiver'.batch) \cup QueuedIds'
  BY <1>1 DEF OnTheirWay, QueuedIds
<1>4. /\ appendQueue' \in Seq(Batches) /\ Len(appendQueue') = n - 1 /\ n \in Nat \ {0}
      /\ Head(q) = q[1] /\ Head(q) \in Batches
      /\ DOMAIN appendQueue' = 1 .. n - 1 /\ DOMAIN q = 1 .. n
      /\ \A i \in 1 .. n - 1 : i + 1 \in 1 .. n /\ i + 1 # 1 /\ appendQueue'[i] = q[i + 1]
      /\ \A i \in 1 .. n : i = 1 \/ \E k \in 1 .. n - 1 : i = k + 1
  BY <1>1, PlacesOfIds, QueueShrinks
<1>5. receiver.batch = <<>> /\ Ids(receiver.batch) = {} /\ Ids(receiver'.batch) = Ids(Head(q))
      /\ receiver' \in [pc : {"received"}, batch : Batches] /\ receiver'.pc = "received"
  <2>1. receiver.batch = <<>>
    BY <1>1, PlacesOfIds DEF BatchesTyped
  <2>2. receiver'.batch = Head(q)
    BY <1>1
  <2> QED BY <1>1, <1>4, <2>1, <2>2, BatchIds
<1>6. \A k, l \in 1 .. n : k # l => Ids(q[k]) \cap Ids(q[l]) = {}
  BY <1>4, PlacesOfIds DEF Apart
<1>7. QueuedIds = UNION {Ids(q[i]) : i \in 1 .. n}
  BY <1>4 DEF QueuedIds
<1> HIDE DEF n, q
<1>8. 1 \in 1 .. n
  BY <1>4
<1>9. QueuedIds = QueuedIds' \cup Ids(Head(q)) /\ QueuedIds' \cap Ids(Head(q)) = {}
  <2>1. QueuedIds' = UNION {Ids(appendQueue'[i]) : i \in 1 .. n - 1}
    BY <1>4 DEF QueuedIds
  <2>2. \A x : x \in QueuedIds' <=> \E i \in 1 .. n - 1 : x \in Ids(q[i + 1])
    BY <1>4, <2>1
  <2>3. \A x : x \in QueuedIds <=> \E i \in 1 .. n : x \in Ids(q[i])
    BY <1>7
  <2>4. ASSUME NEW x \in QueuedIds' PROVE x \in QueuedIds /\ x \notin Ids(Head(q))
    <3>1. PICK i \in 1 .. n - 1 : x \in Ids(q[i + 1])
      BY <2>2
    <3>2. i + 1 \in 1 .. n /\ i + 1 # 1
      BY <1>4
    <3>3. Ids(q[i + 1]) \cap Ids(q[1]) = {}
      BY <1>6, <1>8, <3>2
    <3> QED BY <1>4, <2>3, <3>1, <3>2, <3>3
  <2>5. ASSUME NEW x \in QueuedIds PROVE x \in QueuedIds' \cup Ids(Head(q))
    <3>1. PICK i \in 1 .. n : x \in Ids(q[i])
      BY <2>3
    <3>2. CASE i = 1
      BY <1>4, <3>1, <3>2
    <3>3. CASE i # 1
      <4>1. PICK k \in 1 .. n - 1 : i = k + 1
        BY <1>4, <3>3
      <4> QED BY <2>2, <3>1, <4>1
    <3> QED BY <3>2, <3>3
  <2>6. ASSUME NEW x \in Ids(Head(q)) PROVE x \in QueuedIds
    BY <1>4, <1>8, <2>3
  <2> QED BY <2>4, <2>5, <2>6
<1>10. ASSUME NEW i \in 1 .. n - 1, NEW j \in 1 .. n - 1, i # j
       PROVE  Ids(appendQueue'[i]) \cap Ids(appendQueue'[j]) = {}
  <2>1. i + 1 \in 1 .. n /\ j + 1 \in 1 .. n /\ i + 1 # j + 1
    BY <1>4, <1>10
  <2>2. Ids(q[i + 1]) \cap Ids(q[j + 1]) = {}
    BY <1>6, <2>1
  <2> QED BY <1>4, <2>2
<1>11. Apart'
  BY <1>1, <1>4, <1>5, <1>9, <1>10, PlacesOfIds DEF Apart
<1>12. SlotsMeanRoom'
  BY <1>1, <1>4, <1>5, PlacesOfIds DEF SlotsMeanRoom, BatchesTyped, n
<1>13. BatchesTyped'
  BY <1>1, <1>2, <1>4, <1>5, <1>12, PlacesOfIds DEF BatchesTyped
<1>14. lostBatches' \cup OnTheirWay' = lostBatches \cup OnTheirWay
  BY <1>1, <1>3, <1>5, <1>9, PlacesOfIds, WayOfBatches
<1> QED BY <1>1, <1>11, <1>13, <1>14, PlacesOfIds, WayKeeps

\* Where the goroutine is changes, and whether the cache was closed.
LEMMA QuietRecentKeeps ==
    RecentInv /\ (ReleaseSlot \/ CloseRecent \/ EndReceiver \/ RecentTick) => RecentInv'
<1> SUFFICES ASSUME RecentInv, ReleaseSlot \/ CloseRecent \/ EndReceiver \/ RecentTick PROVE RecentInv'
    OBVIOUS
<1>1. UNCHANGED <<usageTable, appendQueue, offer, cacheVars, lostBatches>>
  BY DEF ReleaseSlot, CloseRecent, EndReceiver, RecentTick
<1>2. recentClock' \in Nat /\ recentClock <= recentClock'
  <2>1. recentClock' = recentClock \/ recentClock' = recentClock + 1
    BY DEF ReleaseSlot, CloseRecent, EndReceiver, RecentTick
  <2> QED BY <2>1, PlacesOfIds
<1>3. recentStopped' \in BOOLEAN
  <2>1. recentStopped' = recentStopped \/ recentStopped' = TRUE
    BY Zenon DEF ReleaseSlot, CloseRecent, EndReceiver, RecentTick
  <2> QED BY <2>1, PlacesOfIds, Zenon DEF BatchesTyped
<1>4. receiver'.batch = receiver.batch /\ appendSlots' \in Nat /\ SlotsMeanRoom'
      /\ receiver' \in [pc : {"waiting", "done"}, batch : {<<>>}]
                      \cup [pc : {"received", "appending"}, batch : Batches]
  <2>1. CASE ReleaseSlot
    <3>1. receiver.pc = "received" /\ receiver' = [receiver EXCEPT !.pc = "appending"]
          /\ appendSlots' = IF appendSlots < BatchSlots THEN appendSlots + 1 ELSE appendSlots
      BY <2>1 DEF ReleaseSlot
    <3>2. receiver \in [pc : {"received"}, batch : Batches]
      BY <3>1, PlacesOfIds DEF BatchesTyped
    <3>3. receiver' \in [pc : {"appending"}, batch : Batches] /\ receiver'.batch = receiver.batch
          /\ receiver'.pc = "appending"
      BY <3>1, <3>2
    <3>4. appendSlots < BatchSlots
      BY <3>1, PlacesOfIds DEF BatchesTyped, SlotsMeanRoom
    <3>5. appendSlots' = appendSlots + 1
      BY <3>1, <3>4
    <3>6. SlotsMeanRoom'
      BY <1>1, <3>1, <3>3, <3>5, PlacesOfIds DEF BatchesTyped, SlotsMeanRoom
    <3>7. appendSlots' \in Nat
      BY <3>5, PlacesOfIds
    <3> QED BY <3>3, <3>6, <3>7
  <2>2. CASE EndReceiver
    <3>1. receiver.pc = "waiting" /\ receiver' = [receiver EXCEPT !.pc = "done"] /\ appendSlots' = appendSlots
      BY <2>2 DEF EndReceiver
    <3>2. receiver \in [pc : {"waiting"}, batch : {<<>>}]
      BY <3>1, PlacesOfIds DEF BatchesTyped
    <3>3. receiver' \in [pc : {"done"}, batch : {<<>>}] /\ receiver'.batch = receiver.batch
          /\ receiver'.pc = "done"
      BY <3>1, <3>2
    <3>4. appendSlots' \in Nat /\ SlotsMeanRoom'
      BY <1>1, <3>1, <3>3, PlacesOfIds DEF BatchesTyped, SlotsMeanRoom
    <3> QED BY <3>3, <3>4
  <2>3. CASE CloseRecent \/ RecentTick
    <3>1. receiver' = receiver /\ appendSlots' = appendSlots
      BY <2>3 DEF CloseRecent, RecentTick
    <3> QED BY <1>1, <3>1, PlacesOfIds DEF BatchesTyped, SlotsMeanRoom
  <2> QED BY <2>1, <2>2, <2>3
<1>5. Batches' = Batches /\ TableIds' = TableIds /\ QueuedIds' = QueuedIds
  BY <1>1 DEF Batches, TableIds, QueuedIds
<1>6. Apart'
  BY <1>1, <1>4, <1>5, PlacesOfIds DEF Apart
<1>7. BatchesTyped'
  BY <1>1, <1>3, <1>4, <1>5, PlacesOfIds DEF BatchesTyped
<1>8. OnTheirWay' = OnTheirWay
  BY <1>1, <1>4 DEF OnTheirWay
<1> QED BY <1>1, <1>2, <1>6, <1>7, <1>8, WayKeeps

LEMMA AppendEventsKeeps == RecentInv /\ AppendEvents => RecentInv'
<1> SUFFICES ASSUME RecentInv, AppendEvents PROVE RecentInv'
    OBVIOUS
<1>1. /\ UNCHANGED <<usageTable, recentClock, appendSlots, appendQueue, offer, recentStopped, lostBatches>>
      /\ receiver.pc = "appending" /\ receiver' = Waiting
      /\ AppendRecent(recentEvents, stringRefs, receiver.batch, recentClock)
      /\ AppendHealth(health, receiver.batch, recentClock, FullPruneDue(recentClock))
  BY DEF AppendEvents
<1>2. TableTyped /\ BatchesTyped /\ Apart /\ CacheFits /\ HealthFits /\ recentClock \in Nat
  BY PlacesOfIds DEF RecentInv
<1>3. PICK e \in usageTable : receiver.batch = <<e>>
  BY <1>1, <1>2 DEF BatchesTyped, Batches
<1>4. /\ <<e>> \in Seq(EventRecords) /\ Distinct(<<e>>) /\ ToSet(<<e>>) = {e}
      /\ e \in EventRecords /\ e.at <= recentClock /\ e.at \in Nat
  <2>1. e \in EventRecords /\ e.at <= recentClock
    BY <1>2 DEF TableTyped
  <2>2. DOMAIN <<e>> = {1} /\ <<e>>[1] = e
    OBVIOUS
  <2> QED BY <2>1, <2>2 DEF ToSet, Distinct, EventRecords
<1>5. Ids(receiver.batch) = {e.id} /\ Ids(receiver'.batch) = {} /\ receiver'.batch = <<>>
      /\ receiver'.pc = "waiting" /\ receiver' \in [pc : {"waiting", "done"}, batch : {<<>>}]
  BY <1>1, <1>3, BatchIds DEF Waiting
<1>6. Batches' = Batches /\ TableIds' = TableIds /\ QueuedIds' = QueuedIds
  BY <1>1 DEF Batches, TableIds, QueuedIds
<1>7. Apart'
  BY <1>1, <1>2, <1>5, <1>6 DEF Apart
<1>8. BatchesTyped'
  <2>1. SlotsMeanRoom'
    BY <1>1, <1>2, <1>5 DEF BatchesTyped, SlotsMeanRoom
  <2> QED BY <1>1, <1>2, <1>5, <1>6, <2>1 DEF BatchesTyped
<1>9. TableTyped'
  BY <1>1, <1>2 DEF TableTyped
<1>10. e.id \notin Ids(offer.batch) \cup QueuedIds \cup lostBatches
  BY <1>2, <1>5 DEF Apart
<1>11. OnTheirWay = OnTheirWay' \cup {e.id} /\ e.id \notin lostBatches \cup OnTheirWay'
  <2>1. OnTheirWay' = Ids(offer.batch) \cup Ids(receiver'.batch) \cup QueuedIds
    BY <1>1, <1>6 DEF OnTheirWay, QueuedIds
  <2>2. OnTheirWay = Ids(offer.batch) \cup Ids(receiver.batch) \cup QueuedIds
    BY DEF OnTheirWay, QueuedIds
  <2> QED BY <1>5, <1>10, <2>1, <2>2
<1>12. Seen' = Seen \cup {e} /\ e \notin Seen /\ Seen \in SUBSET usageTable
  <2>1. \A f \in usageTable : f.id = e.id => f = e
    BY <1>2 DEF TableTyped
  <2> QED BY <1>1, <1>11, <2>1 DEF Seen
<1>13. CacheFits'
  <2>1. ToSet(recentEvents) \cap ToSet(<<e>>) = {}
    BY <1>2, <1>4, <1>12 DEF CacheFits
  <2>2. /\ recentEvents' \in Seq(EventRecords) /\ Distinct(recentEvents')
        /\ ToSet(recentEvents') = {f \in ToSet(recentEvents) \cup ToSet(<<e>>) : InWindow(f, recentClock)}
        /\ stringRefs' = [l \in Credentials |-> Cardinality(Labelled(ToSet(recentEvents'), l))]
    <3>1. recentEvents \in Seq(EventRecords) /\ Distinct(recentEvents)
          /\ stringRefs = [l \in Credentials |-> Cardinality(Labelled(ToSet(recentEvents), l))]
      BY <1>2 DEF CacheFits
    <3>2. recentClock \in Int /\ AppendRecent(recentEvents, stringRefs, <<e>>, recentClock)
      BY <1>1, <1>2, <1>3
    <3> QED BY <1>4, <2>1, <3>1, <3>2, AppendingDoes
  <2>3. ToSet(recentEvents') \subseteq Seen'
    BY <1>2, <1>4, <1>12, <2>2 DEF CacheFits
  <2>4. \A f \in Seen' : InWindow(f, recentClock) => f \in ToSet(recentEvents')
    BY <1>2, <1>4, <1>12, <2>2 DEF CacheFits
  <2> QED BY <1>1, <2>2, <2>3, <2>4 DEF CacheFits
<1>14. HealthFits'
  <2>1. HealthRight(health, lastFullPrune, Seen, recentClock) /\ IsFiniteSet(Seen)
    BY <1>2, <1>12, FS_Subset DEF HealthFits, TableTyped
  <2>2. FullPruneDue(recentClock) \in BOOLEAN
    BY DEF FullPruneDue
  <2>3. FullPruneDue(recentClock) \/ lastFullPrune = HealthEnd(recentClock)
    <3>1. PICK t \in 0 .. recentClock : lastFullPrune = HealthEnd(t)
      BY <2>1 DEF HealthRight
    <3>2. t \in Nat /\ t <= recentClock
      BY <1>2
    <3>3. HealthEnd(recentClock) - HealthEnd(t) < BucketSpan => HealthEnd(t) = HealthEnd(recentClock)
      BY <1>2, <3>2, BucketsGrow
    <3>4. HealthEnd(t) \in Int /\ HealthEnd(recentClock) \in Int
      BY <1>2, <3>2, Buckets
    <3> QED BY <3>1, <3>3, <3>4, BucketConstants DEF FullPruneDue
  <2>4. AppendHealth(health, <<e>>, recentClock, FullPruneDue(recentClock))
    BY <1>1, <1>3
  <2>5. Seen \cap ToSet(<<e>>) = {} /\ Seen' = Seen \cup ToSet(<<e>>)
        /\ \A f \in ToSet(<<e>>) : f.at <= recentClock
    BY <1>4, <1>12
  <2> DEFINE full == FullPruneDue(recentClock)
  <2> HIDE DEF full
  <2>6. HealthRight(health', lastFullPrune', Seen', recentClock)
    BY <1>2, <1>4, <2>1, <2>2, <2>3, <2>4, <2>5, HealthDoes DEF full
  <2> QED BY <1>1, <2>6 DEF HealthFits
<1> QED BY <1>7, <1>8, <1>9, <1>13, <1>14 DEF RecentInv

\* A new process knows the table.
LEMMA RecentRestartKeeps == RecentInv /\ RecentRestart => RecentInv'
<1> SUFFICES ASSUME RecentInv, RecentRestart PROVE RecentInv'
    OBVIOUS
<1> DEFINE recent == LoadedFrom(recentClock - RecentWindow)
           longer == LoadedFrom(recentClock - BucketSpan * HealthBuckets)
           nothing == [c \in Credentials |-> <<>>]
           none == [l \in Credentials |-> 0]
<1>1. /\ UNCHANGED <<usageTable, recentClock, offer>> /\ offer.pc = "none"
      /\ appendSlots' = BatchSlots /\ appendQueue' = <<>> /\ receiver' = Waiting
      /\ recentStopped' = FALSE /\ lostBatches' = {}
      /\ AppendRecent(<<>>, none, recent, recentClock)
      /\ AppendHealth(nothing, longer, recentClock, TRUE)
  BY DEF RecentRestart
<1>2. TableTyped /\ BatchesTyped /\ HealthFits /\ recentClock \in Nat /\ BatchSlots \in Nat
  BY PlacesOfIds DEF RecentInv
<1>3. /\ offer.batch = <<>> /\ Ids(offer.batch) = {} /\ Ids(receiver'.batch) = {} /\ receiver'.pc = "waiting"
      /\ receiver' \in [pc : {"waiting", "done"}, batch : {<<>>}]
  BY <1>1, <1>2, BatchIds DEF BatchesTyped, Waiting
<1>4. Batches' = Batches /\ TableIds' = TableIds /\ QueuedIds' = {}
  BY <1>1 DEF Batches, TableIds, QueuedIds
<1>5. Apart'
  BY <1>1, <1>3, <1>4 DEF Apart
<1>6. BatchesTyped'
  <2>1. SlotsMeanRoom'
    BY <1>1, <1>2, <1>3 DEF BatchesTyped, SlotsMeanRoom
  <2>2. appendQueue' \in Seq(Batches) /\ lostBatches' \subseteq TableIds /\ appendSlots' \in Nat
    BY <1>1, <1>2
  <2>3. recentStopped' \in BOOLEAN
    BY <1>1, Zenon
  <2> QED BY <1>1, <1>2, <1>3, <1>4, <2>1, <2>2, <2>3 DEF BatchesTyped
<1>7. TableTyped'
  BY <1>1, <1>2 DEF TableTyped
<1>8. Seen' = usageTable
  <2>1. OnTheirWay' = Ids(offer'.batch) \cup Ids(receiver'.batch) \cup QueuedIds'
    BY DEF OnTheirWay, QueuedIds
  <2>2. OnTheirWay' = {} /\ lostBatches' = {}
    BY <1>1, <1>3, <1>4, <2>1
  <2> QED BY <1>1, <2>2 DEF Seen
<1>9. /\ recent \in Seq(EventRecords) /\ Distinct(recent)
      /\ ToSet(recent) = {e \in usageTable : e.at >= recentClock - RecentWindow}
      /\ longer \in Seq(EventRecords) /\ Distinct(longer)
      /\ ToSet(longer) = {e \in usageTable : e.at >= recentClock - BucketSpan * HealthBuckets}
  BY <1>2, LoadedFits
<1> HIDE DEF recent, longer
<1>10. CacheFits'
  <2>1. <<>> \in Seq(EventRecords) /\ Distinct(<<>>) /\ ToSet(<<>>) = {}
    BY DEF Distinct, ToSet
  <2>2. none = [l \in Credentials |-> Cardinality(Labelled(ToSet(<<>>), l))]
    <3>1. \A l : Labelled(ToSet(<<>>), l) = {}
      BY <2>1 DEF Labelled
    <3> QED BY <3>1, FS_EmptySet
  <2>3. recentClock \in Int /\ ToSet(<<>>) \cap ToSet(recent) = {}
    BY <1>2, <2>1
  <2> HIDE DEF none
  <2>4. /\ recentEvents' \in Seq(EventRecords) /\ Distinct(recentEvents')
        /\ ToSet(recentEvents') = {f \in ToSet(<<>>) \cup ToSet(recent) : InWindow(f, recentClock)}
        /\ stringRefs' = [l \in Credentials |-> Cardinality(Labelled(ToSet(recentEvents'), l))]
    BY <1>1, <1>9, <2>1, <2>2, <2>3, AppendingDoes
  <2>5. ToSet(recentEvents') = {f \in usageTable : InWindow(f, recentClock)}
    BY <1>9, <2>1, <2>4 DEF InWindow
  <2> QED BY <1>1, <1>8, <2>4, <2>5 DEF CacheFits
<1>11. HealthFits'
  <2>1. HealthRight(nothing, lastFullPrune, {}, recentClock)
    <3>1. \A c \in Credentials : DOMAIN nothing[c] = {}
      OBVIOUS
    <3>2. \A c, b, failed : BucketEvents({}, c, b, failed) = {}
      BY DEF BucketEvents
    <3>3. \A c, b : CountsAre(NoCounts, {}, c, b)
      BY <3>2, FS_EmptySet DEF CountsAre, NoCounts
    <3>4. \A c \in Credentials : \A b : CountsOf(nothing[c], b) = NoCounts
      BY <3>1 DEF CountsOf
    <3>5. DOMAIN nothing = Credentials
      OBVIOUS
    <3>6. \E t \in 0 .. recentClock : lastFullPrune = HealthEnd(t)
      BY <1>2 DEF HealthFits, HealthRight
    <3> HIDE DEF nothing
    <3> QED BY <3>1, <3>3, <3>4, <3>5, <3>6 DEF HealthRight
  <2>2. ASSUME NEW c \in Credentials, NEW b \in Int, NEW failed \in BOOLEAN, b >= HealthStart(recentClock)
        PROVE  BucketEvents(usageTable, c, b, failed) = BucketEvents({} \cup ToSet(longer), c, b, failed)
    <3>1. ASSUME NEW e \in usageTable, Bucket(e.at) = b PROVE e \in ToSet(longer)
      <4>1. e.at \in Nat
        <5>1. e \in EventRecords
          BY <1>2 DEF TableTyped
        <5> QED BY <5>1 DEF EventRecords
      <4>2. Bucket(e.at) <= e.at
        BY <4>1, Buckets
      <4>3. /\ Bucket(recentClock) \in Int /\ recentClock < Bucket(recentClock) + BucketSpan
            /\ HealthEnd(recentClock) = Bucket(recentClock) + BucketSpan
            /\ HealthSpan \in Nat /\ HealthStart(recentClock) = HealthEnd(recentClock) - HealthSpan
        BY <1>2, Buckets
      <4>4. e.at >= recentClock - HealthSpan
        BY <1>2, <2>2, <3>1, <4>1, <4>2, <4>3, BucketConstants
      <4> QED BY <1>9, <4>4 DEF HealthSpan
    <3> QED BY <1>9, <3>1 DEF BucketEvents
  <2>3. \A e \in ToSet(longer) : e.at <= recentClock
    BY <1>2, <1>9 DEF TableTyped
  <2>4. IsFiniteSet({}) /\ {} \cap ToSet(longer) = {} /\ TRUE \in BOOLEAN
    BY FS_EmptySet
  <2> HIDE DEF nothing
  <2>5. HealthRight(health', lastFullPrune', usageTable, recentClock)
    BY <1>1, <1>2, <1>9, <2>1, <2>2, <2>3, <2>4, HealthDoes
  <2> QED BY <1>1, <1>8, <2>5 DEF HealthFits
<1> QED BY <1>5, <1>6, <1>7, <1>10, <1>11 DEF RecentInv

LEMMA RecentKeeps == RecentInv /\ [RecentNext]_recentVars => RecentInv'
<1> SUFFICES ASSUME RecentInv, [RecentNext]_recentVars PROVE RecentInv'
    OBVIOUS
<1>1. CASE CommitBatch
  BY <1>1, CommitBatchKeeps
<1>2. CASE AcquireSlot
  BY <1>2, AcquireKeeps
<1>3. CASE Send
  BY <1>3, SendKeeps
<1>4. CASE ReceiveBatch
  BY <1>4, ReceiveKeeps
<1>5. CASE ReleaseSlot \/ CloseRecent \/ EndReceiver \/ RecentTick
  BY <1>5, QuietRecentKeeps
<1>6. CASE AppendEvents
  BY <1>6, AppendEventsKeeps
<1>7. CASE RecentRestart
  BY <1>7, RecentRestartKeeps
<1>8. CASE UNCHANGED recentVars
  <2>1. UNCHANGED <<usageTable, recentClock, appendSlots, appendQueue, offer, receiver,
                    recentStopped, cacheVars, lostBatches>>
    BY <1>8 DEF recentVars, cacheVars
  <2>2. recentClock' \in Nat /\ recentClock <= recentClock'
    BY <2>1, PlacesOfIds
  <2>3. BatchesTyped' /\ Apart'
    BY <2>1, PlacesOfIds DEF BatchesTyped, Batches, TableIds, SlotsMeanRoom, Apart, QueuedIds
  <2>4. OnTheirWay' = OnTheirWay
    BY <2>1 DEF OnTheirWay
  <2> QED BY <2>1, <2>2, <2>3, <2>4, WayKeeps
<1> QED BY <1>1, <1>2, <1>3, <1>4, <1>5, <1>6, <1>7, <1>8 DEF RecentNext

LEMMA RecentFits == RecentInv => RecentCacheIsHonest
<1> SUFFICES ASSUME RecentInv PROVE RecentCacheIsHonest
    OBVIOUS
<1>1. TableTyped /\ BatchesTyped /\ CacheFits /\ recentClock \in Nat
  BY PlacesOfIds DEF RecentInv
<1>2. HealthRight(health, lastFullPrune, Seen, recentClock)
  BY DEF RecentInv, HealthFits
<1>3. recentEvents \in Seq(EventRecords) /\ Distinct(recentEvents) /\ Seen \in SUBSET EventRecords
  BY <1>1 DEF CacheFits, TableTyped, Seen
<1>4. RecentAnswersLikeTheTable
  <2> SUFFICES ASSUME NEW start \in recentClock - RecentWindow .. recentClock,
                      NEW end \in recentClock - RecentWindow .. recentClock,
                      NEW includeEnd \in BOOLEAN, NEW label \in Credentials \cup {NoLabel},
                      NEW found, found = RecentBetween(start, end, includeEnd, label)
               PROVE  /\ ToSet(found) = {e \in Seen : /\ Between(e, start, end, includeEnd)
                                                      /\ label \in {NoLabel, e.label}}
                      /\ Cardinality(ToSet(found)) = Len(found)
      BY DEF RecentAnswersLikeTheTable
  <2> DEFINE P == {i \in DOMAIN recentEvents : /\ Between(recentEvents[i], start, end, includeEnd)
                                               /\ label \in {NoLabel, recentEvents[i].label}}
  <2>1. P \in SUBSET DOMAIN recentEvents /\ found = EntriesAt(recentEvents, P)
    BY DEF RecentBetween
  <2>2. /\ found \in Seq(EventRecords) /\ ToSet(found) = {recentEvents[i] : i \in P}
        /\ Distinct(found)
    <3> HIDE DEF P
    <3> QED BY <1>3, <2>1, EntriesFit
  <2>3. ASSUME NEW e \in Seen, Between(e, start, end, includeEnd) PROVE e \in ToSet(recentEvents)
    <3>1. e.at \in Nat
      BY <1>3 DEF EventRecords
    <3>2. e.at >= start
      BY <2>3 DEF Between
    <3>3. InWindow(e, recentClock)
      BY <1>1, <3>1, <3>2, BucketConstants DEF InWindow
    <3> QED BY <1>1, <3>3 DEF CacheFits
  <2>4. ToSet(found) = {e \in ToSet(recentEvents) : /\ Between(e, start, end, includeEnd)
                                                    /\ label \in {NoLabel, e.label}}
    BY <2>2 DEF ToSet
  <2>5. ToSet(recentEvents) \subseteq Seen
    BY <1>1 DEF CacheFits
  <2> QED BY <2>2, <2>3, <2>4, <2>5, EntriesCount
<1>5. SlotsMeanRoom
  BY <1>1 DEF BatchesTyped
<1>6. PoolCountsReferences
  <2> SUFFICES ASSUME NEW l \in Credentials
               PROVE  stringRefs[l] = Quantify(DOMAIN recentEvents, LAMBDA i : recentEvents[i].label = l)
      BY DEF PoolCountsReferences
  <2>1. stringRefs[l] = Cardinality(Labelled(ToSet(recentEvents), l))
    BY <1>1 DEF CacheFits
  <2>2. Quantify(DOMAIN recentEvents, LAMBDA i : recentEvents[i].label = l)
          = Cardinality(Labelled(ToSet(recentEvents), l))
    BY <1>3, LabelledCount
  <2> QED BY <2>1, <2>2
<1>7. HealthCountsTheWindow
  <2> DEFINE window == {HealthStart(recentClock) + k * BucketSpan : k \in 0 .. HealthBuckets - 1}
  <2>1. \A b \in window : b \in Int /\ b >= HealthStart(recentClock)
    <3> TAKE b \in window
    <3>1. PICK k \in 0 .. HealthBuckets - 1 : b = HealthStart(recentClock) + k * BucketSpan
      OBVIOUS
    <3>2. k \in Nat
      BY BucketConstants
    <3>3. k * BucketSpan \in Nat
      BY <3>2, BucketConstants
    <3>4. HealthStart(recentClock) \in Int
      BY <1>1, Buckets
    <3> QED BY <3>1, <3>3, <3>4
  <2> SUFFICES ASSUME NEW c \in Credentials
               PROVE  CredentialHealth(c, recentClock) = [b \in window |->
                          [success |-> Cardinality({e \in Seen : /\ e.label = c /\ e.failed = FALSE
                                                                 /\ Bucket(e.at) = b}),
                           failure |-> Cardinality({e \in Seen : /\ e.label = c /\ e.failed = TRUE
                                                                 /\ Bucket(e.at) = b})]]
      BY DEF HealthCountsTheWindow, CredentialHealth
  <2>2. \A b \in window : CountsAre(CountsOf(health[c], b), Seen, c, b)
    BY <1>2, <2>1 DEF HealthRight
  <2>3. CredentialHealth(c, recentClock) = [b \in window |-> CountsOf(health[c], b)]
    BY DEF CredentialHealth
  <2> HIDE DEF window
  <2> QED BY <2>2, <2>3 DEF CountsAre, BucketEvents
<1>8. OldBucketsGo
  <2> SUFFICES ASSUME NEW c \in Credentials, NEW d \in Credentials,
                      NEW b \in DOMAIN health[c], NEW latest \in DOMAIN health[d]
               PROVE  latest - b < BucketSpan * HealthBuckets
      BY DEF OldBucketsGo
  <2>1. /\ b \in Int /\ b >= lastFullPrune - HealthSpan
        /\ latest \in Int /\ latest < lastFullPrune
    BY <1>2 DEF HealthRight
  <2>2. lastFullPrune \in Int /\ HealthSpan \in Nat
    <3>1. PICK t \in 0 .. recentClock : lastFullPrune = HealthEnd(t)
      BY <1>2 DEF HealthRight
    <3>2. t \in Nat
      BY <1>1
    <3> QED BY <3>1, <3>2, Buckets
  <2>3. latest - b < HealthSpan
    BY <2>1, <2>2
  <2> QED BY <2>3 DEF HealthSpan
<1> QED BY <1>4, <1>5, <1>6, <1>7, <1>8 DEF RecentCacheIsHonest, RecentBooksBalance

(* The cache of recent events answers what the table would have answered, and *)
(* keeps its health buckets in step, whatever batches are lost, queued or     *)
(* sent while it loads and prunes (repository/usage_recent_event_cache.go).   *)
THEOREM RecentStaysHonest == RecentSpec => []RecentCacheIsHonest
<1>1. RecentSpec => []RecentInv
  BY RecentStarts, RecentKeeps, PTL DEF RecentSpec
<1> QED BY <1>1, RecentFits, PTL

-----------------------------------------------------------------------------
(* The prices. Saved multipliers and rules keep what any event can cost within *)
(* the numbers, so a cost is a sum of products that can be taken apart and put *)
(* together again; a page computes with the snapshot it began with, by groups *)
(* of events that this snapshot prices the same.                              *)


RuleSets == {rules \in RuleInputs \cup {{}} : AcceptedRules(rules)}
PriceModels == {i.model : i \in PriceInputs}
PriceRecords == [prices : [Segments4 -> Nat], multiplier : Nat, rules : RuleSets]
PriceTables == UNION {[M -> PriceRecords] : M \in SUBSET PriceModels}

\* A table has records of models that were asked for.
LEMMA TablesAre ==
    ASSUME NEW t
    PROVE  t \in PriceTables <=> \E M \in SUBSET PriceModels : t \in [M -> PriceRecords]
BY DEF PriceTables

\* What was accepted as a set of rules.
LEMMA RulesRight ==
    ASSUME NEW rules \in RuleSets
    PROVE  /\ IsFiniteSet(rules)
           /\ \A r \in rules : r.field \in AllFields /\ r.multiplier \in Nat
           /\ \A r, q \in rules : r.field = q.field /\ r.value = q.value => r = q
<1>1. AcceptedRules(rules) /\ (rules \in RuleInputs \/ rules = {})
  BY DEF RuleSets
<1>2. IsFiniteSet(rules)
  BY <1>1, PricingAssumption, FS_EmptySet DEF PricingAssumption
<1>3. \A r \in rules : r.multiplier \in Int
  BY <1>1, PricingAssumption DEF PricingAssumption
<1>4. \A r \in rules : r.field \in AllFields /\ r.multiplier >= 0
  BY <1>1 DEF AcceptedRules
<1>5. \A r \in rules : r.multiplier \in Nat
  BY <1>3, <1>4
<1>6. \A r, q \in rules : r.field = q.field /\ r.value = q.value => r = q
  BY <1>1 DEF AcceptedRules
<1> QED BY <1>2, <1>4, <1>5, <1>6

\* Of one price that is saved.
LEMMA UpsertRight ==
    ASSUME NEW table \in PriceTables, NEW i \in PriceInputs, AcceptedPrice(i)
    PROVE  UpsertPrice(table, i) \in PriceTables
<1> DEFINE rules == IF i.model \in DOMAIN table THEN table[i.model].rules ELSE {}
           row == [prices |-> i.prices, rules |-> rules,
                   multiplier |-> IF i.multiplier = <<>> THEN 1 ELSE i.multiplier[1]]
<1>1. PICK M \in SUBSET PriceModels : table \in [M -> PriceRecords]
  BY TablesAre
<1>2. rules \in RuleSets
  BY <1>1 DEF PriceRecords, RuleSets, AcceptedRules
<1>3. i.prices \in [Segments4 -> Nat]
  <2>1. i.prices \in [Segments4 -> Int] /\ \A s \in Segments4 : i.prices[s] >= 0
    BY PricingAssumption DEF PricingAssumption, AcceptedPrice
  <2> QED BY <2>1
<1>4. (IF i.multiplier = <<>> THEN 1 ELSE i.multiplier[1]) \in Nat
  <2>1. i.multiplier \in Seq(Int) /\ (i.multiplier # <<>> => i.multiplier[1] >= 0)
    BY PricingAssumption DEF PricingAssumption, AcceptedPrice
  <2>2. i.multiplier # <<>> => i.multiplier[1] \in Int
    BY <2>1
  <2> QED BY <2>1, <2>2
<1> HIDE DEF rules
<1>5. row \in PriceRecords
  BY <1>2, <1>3, <1>4 DEF PriceRecords
<1> DEFINE K == M \cup {i.model}
<1>6. K \in SUBSET PriceModels
  BY DEF PriceModels
<1> HIDE DEF row
<1>7. DOMAIN table = M
  BY <1>1
<1>8. UpsertPrice(table, i) = [m \in K |-> IF m = i.model THEN row ELSE table[m]]
  BY <1>7 DEF UpsertPrice, row, rules
<1>9. [m \in K |-> IF m = i.model THEN row ELSE table[m]] \in [K -> PriceRecords]
  BY <1>1, <1>5
<1> QED BY <1>6, <1>8, <1>9, TablesAre

\* Of all that are saved together, whatever their order.
LEMMA BatchRight ==
    ASSUME NEW base \in PriceTables, NEW S \in SUBSET PriceInputs, \A i \in S : AcceptedPrice(i)
    PROVE  FoldSet(LAMBDA i, table : UpsertPrice(table, i), base, S) \in PriceTables
<1> DEFINE Small(n) == {s \in SUBSET S : Cardinality(s) <= n}
           Value(g, s) == IF s = {} THEN base ELSE UpsertPrice(g[s \ {First(s)}], First(s))
           Good(n, g) == /\ g \in [Small(n) -> PriceTables]
                         /\ \A s \in Small(n) : g[s] = Value(g, s)
           Bad == {n \in Nat : ~\E g : Good(n, g)}
<1>0. IsFiniteSet(S)
  BY PricingAssumption, FS_Subset DEF PricingAssumption
<1>1. \A s \in SUBSET S : IsFiniteSet(s) /\ Cardinality(s) \in Nat
  BY <1>0, FS_Subset, FS_CardinalityType
<1>2. \A s \in SUBSET S : s # {} => /\ First(s) \in s /\ First(s) \in PriceInputs /\ AcceptedPrice(First(s))
                                    /\ s \ {First(s)} \in SUBSET S
                                    /\ Cardinality(s \ {First(s)}) = Cardinality(s) - 1
  BY <1>1, FirstIsIn, FS_RemoveElement
<1>3. 0 \notin Bad
  <2> DEFINE g == [s \in Small(0) |-> base]
  <2>1. \A s \in Small(0) : s = {}
    BY <1>1, FS_EmptySet
  <2>2. Good(0, g)
    BY <2>1
  <2> QED BY <2>2
<1>4. ASSUME NEW n \in Nat, n + 1 \in Bad PROVE n \in Bad
  <2> SUFFICES ASSUME NEW g, Good(n, g) PROVE FALSE
    OBVIOUS
  <2> DEFINE h == [s \in Small(n + 1) |-> Value(g, s)]
  <2>1. ASSUME NEW s \in Small(n + 1), s # {} PROVE s \ {First(s)} \in Small(n)
    BY <1>1, <1>2, <2>1
  <2>2. h \in [Small(n + 1) -> PriceTables]
    <3>1. ASSUME NEW s \in Small(n + 1) PROVE Value(g, s) \in PriceTables
      <4>1. CASE s = {}
        BY <4>1
      <4>2. CASE s # {}
        <5>1. g[s \ {First(s)}] \in PriceTables /\ First(s) \in PriceInputs /\ AcceptedPrice(First(s))
          BY <1>2, <2>1, <4>2
        <5>2. UpsertPrice(g[s \ {First(s)}], First(s)) \in PriceTables
          BY <5>1, UpsertRight
        <5> QED BY <4>2, <5>2
      <4> QED BY <4>1, <4>2
    <3> HIDE DEF Value, Small
    <3> QED BY <3>1
  <2>3. \A s \in Small(n) : s \in Small(n + 1) /\ h[s] = g[s]
    BY <1>1
  <2>4. \A s \in Small(n + 1) : h[s] = Value(h, s)
    BY <2>1, <2>3
  <2>5. Good(n + 1, h)
    BY <2>2, <2>4
  <2> QED BY <2>5, <1>4
<1>5. Bad = {}
  <2> SUFFICES ASSUME Bad # {} PROVE FALSE
    OBVIOUS
  <2>1. PICK n \in Bad : \A m \in Bad : n <= m
    BY NaturalsHaveLeast
  <2>2. n \in Nat /\ n # 0
    BY <1>3
  <2>3. n - 1 \in Nat /\ (n - 1) + 1 = n
    BY <2>2
  <2>4. n - 1 \in Bad
    BY <1>4, <2>3
  <2>5. n <= n - 1
    BY <2>1, <2>4
  <2> HIDE DEF Bad
  <2> QED BY <2>2, <2>5
<1> DEFINE IsIt(f) == f = [s \in SUBSET S |-> Value(f, s)]
<1>6. \E f : IsIt(f)
  <2>1. PICK g : Good(Cardinality(S), g)
    BY <1>0, <1>1, <1>5
  <2>2. Small(Cardinality(S)) = SUBSET S
    BY <1>0, FS_Subset
  <2> HIDE DEF Value
  <2>3. IsIt(g)
    BY <2>1, <2>2
  <2> QED BY <2>3
<1> DEFINE w == CHOOSE f : IsIt(f)
<1>7. IsIt(w)
  <2> HIDE DEF IsIt
  <2> QED BY <1>6
<1>8. FoldSet(LAMBDA i, table : UpsertPrice(table, i), base, S) = w[S]
  BY DEF FoldSet, MapThenFoldSet, First
<1> HIDE DEF w
<1> DEFINE B == {s \in SUBSET S : w[s] \notin PriceTables}
<1>9. ASSUME B # {} PROVE FALSE
  <2>1. PICK s \in B : \A x \in s : s \ {x} \notin B
    BY <1>0, <1>9, SmallestIsThere
  <2>2. w[s] = Value(w, s)
    <3> HIDE DEF Value
    <3> QED BY <1>7
  <2>3. CASE s = {}
    BY <2>1, <2>2, <2>3
  <2>4. CASE s # {}
    <3>1. First(s) \in s /\ First(s) \in PriceInputs /\ AcceptedPrice(First(s)) /\ s \ {First(s)} \in SUBSET S
      BY <1>2, <2>4
    <3>2. w[s \ {First(s)}] \in PriceTables
      BY <2>1, <3>1
    <3>3. UpsertPrice(w[s \ {First(s)}], First(s)) \in PriceTables
      BY <3>1, <3>2, UpsertRight
    <3> QED BY <2>1, <2>2, <2>4, <3>3
  <2> QED BY <2>3, <2>4
<1>10. S \in SUBSET S
  OBVIOUS
<1> QED BY <1>8, <1>9, <1>10

\* No empty table is missing.
LEMMA NothingPriced == NoPrices \in PriceTables /\ Compilable(NoPrices) /\ DOMAIN NoPrices = {}
<1>1. DOMAIN NoPrices = {} /\ NoPrices \in [{} -> PriceRecords]
  BY DEF NoPrices
<1> QED BY <1>1, TablesAre DEF Compilable

\* A row less, and other rules.
LEMMA FewerPrices ==
    ASSUME NEW t \in PriceTables, NEW m
    PROVE  [n \in DOMAIN t \ {m} |-> t[n]] \in PriceTables
<1>1. PICK M \in SUBSET PriceModels : t \in [M -> PriceRecords]
  BY TablesAre
<1>2. [n \in DOMAIN t \ {m} |-> t[n]] \in [M \ {m} -> PriceRecords]
  BY <1>1
<1>3. M \ {m} \in SUBSET PriceModels
  OBVIOUS
<1> QED BY <1>2, <1>3, TablesAre

\* A table with other rules for one of its models is a table.
LEMMA OtherRules ==
    ASSUME NEW t \in PriceTables, NEW m \in DOMAIN t, NEW rules \in RuleInputs, AcceptedRules(rules)
    PROVE  [t EXCEPT ![m].rules = rules] \in PriceTables
<1>1. PICK M \in SUBSET PriceModels : t \in [M -> PriceRecords]
  BY TablesAre
<1>2. rules \in RuleSets
  BY DEF RuleSets
<1>3. [t EXCEPT ![m].rules = rules] \in [M -> PriceRecords]
  BY <1>1, <1>2 DEF PriceRecords
<1> QED BY <1>1, <1>3, TablesAre

\* The largest multiplier of a field.
LEMMA LargestRight ==
    ASSUME NEW rules \in RuleSets, NEW f
    PROVE  /\ LargestOf(rules, f) \in Nat /\ LargestOf(rules, f) >= 1
           /\ \A r \in rules : r.field = f => r.multiplier <= LargestOf(rules, f)
<1> DEFINE of == {q \in rules : q.field = f}
           S == {1} \cup {r.multiplier : r \in of}
<1>1. IsFiniteSet(rules) /\ \A r \in rules : r.multiplier \in Nat
  BY RulesRight
<1>2. IsFiniteSet({r.multiplier : r \in of})
  <2>1. IsFiniteSet(of)
    BY <1>1, FS_Subset
  <2> DEFINE m == [r \in of |-> r.multiplier]
  <2>2. m \in Surjection(of, {r.multiplier : r \in of})
    BY DEF Surjection
  <2> HIDE DEF m
  <2> QED BY <2>1, <2>2, FS_Surjection
<1>3. IsFiniteSet(S)
  BY <1>2, FS_Union, FS_Singleton
<1>4. S \in SUBSET Nat /\ 1 \in S
  BY <1>1
<1>5. \A r \in rules : r.field = f => r.multiplier \in S
  OBVIOUS
<1>6. LargestOf(rules, f) = Max(S)
  BY DEF LargestOf
<1> HIDE DEF S
<1>7. Max(S) \in S /\ \A x \in S : x <= Max(S)
  BY <1>3, <1>4, LargestOfFew
<1> QED BY <1>4, <1>5, <1>6, <1>7

\* Rules have finitely many fields.
LEMMA FieldsAreFew == IsFiniteSet(AllFields)
<1>1. IsFiniteSet({"model", "model_alias"})
  <2>1. IsFiniteSet({"model"}) /\ IsFiniteSet({"model_alias"})
    BY FS_Singleton
  <2>2. {"model", "model_alias"} = {"model"} \cup {"model_alias"}
    OBVIOUS
  <2> QED BY <2>1, <2>2, FS_Union
<1> QED BY <1>1, PricingAssumption, FS_Union DEF AllFields, PricingAssumption

\* The bound of rules as a product.
LEMMA BoundIsProduct ==
    ASSUME NEW rules \in RuleSets
    PROVE  RuleBound(rules) = ProductOf([f \in AllFields |-> LargestOf(rules, f)], AllFields)
<1> DEFINE g == [f \in AllFields |-> LargestOf(rules, f)]
           D == SUBSET AllFields
           e(h, s) == IF s = {} THEN 1 ELSE LargestOf(rules, First(s)) * h[s \ {First(s)}]
           w == CHOOSE h : h = [s \in D |-> e(h, s)]
<1>1. RuleBound(rules) = w[AllFields]
  BY DEF RuleBound, FoldSet, MapThenFoldSet, First
<1>2. g \in [AllFields -> Nat] /\ \A f \in AllFields : g[f] = LargestOf(rules, f)
  BY LargestRight
<1> HIDE DEF w, g
<1>3. ASSUME NEW s \in D, s # {} PROVE g[First(s)] = LargestOf(rules, First(s))
  BY <1>2, <1>3, FirstIsIn
<1>4. ASSUME NEW h PROVE IsProduct(g, AllFields, h) <=> h = [s \in D |-> e(h, s)]
  <2> DEFINE d(s) == IF s = {} THEN 1 ELSE g[First(s)] * h[s \ {First(s)}]
  <2>1. \A s \in D : d(s) = e(h, s)
    BY <1>3
  <2>2. IsProduct(g, AllFields, h) <=> h = [s \in D |-> d(s)]
    BY DEF IsProduct
  <2> HIDE DEF d, e, D
  <2>3. [s \in D |-> d(s)] = [s \in D |-> e(h, s)]
    BY <2>1
  <2> QED BY <2>2, <2>3
<1>5. IsFiniteSet(AllFields) /\ AllFields \in SUBSET AllFields
  BY FieldsAreFew
<1>6. \E h : IsProduct(g, AllFields, h)
  BY <1>2, <1>5, ProductIsThere
<1>7. IsProduct(g, AllFields, w)
  <2> HIDE DEF D, e
  <2>1. w = [s \in D |-> e(w, s)]
    BY <1>4, <1>6 DEF w
  <2> QED BY <1>4, <2>1
<1>8. w[AllFields] = ProductOf(g, AllFields)
  BY <1>2, <1>5, <1>7, ProductFound
<1> QED BY <1>1, <1>8 DEF g

\* The multiplier of the rules that match as a product.
LEMMA MultiplierIsProduct ==
    ASSUME NEW rules, IsFiniteSet(rules), \A r \in rules : r.multiplier \in Nat, NEW dims
    PROVE  RuleMultiplier(rules, dims)
             = ProductOf([r \in rules |-> r.multiplier], {r \in rules : dims[r.field] = r.value})
<1> DEFINE g == [r \in rules |-> r.multiplier]
           T == {r \in rules : dims[r.field] = r.value}
           D == SUBSET T
           e(h, s) == IF s = {} THEN 1 ELSE First(s).multiplier * h[s \ {First(s)}]
           w == CHOOSE h : h = [s \in D |-> e(h, s)]
<1>1. RuleMultiplier(rules, dims) = w[T]
  BY DEF RuleMultiplier, FoldSet, MapThenFoldSet, First
<1>2. g \in [rules -> Nat] /\ \A r \in rules : g[r] = r.multiplier
  OBVIOUS
<1>5. IsFiniteSet(T) /\ T \in SUBSET rules
  BY FS_Subset
<1> HIDE DEF w, g, T
<1>3. ASSUME NEW s \in D, s # {} PROVE g[First(s)] = First(s).multiplier
  BY <1>2, <1>3, <1>5, FirstIsIn
<1>4. ASSUME NEW h PROVE IsProduct(g, T, h) <=> h = [s \in D |-> e(h, s)]
  <2> DEFINE d(s) == IF s = {} THEN 1 ELSE g[First(s)] * h[s \ {First(s)}]
  <2>1. \A s \in D : d(s) = e(h, s)
    BY <1>3
  <2>2. IsProduct(g, T, h) <=> h = [s \in D |-> d(s)]
    BY DEF IsProduct
  <2> HIDE DEF d, e, D
  <2>3. [s \in D |-> d(s)] = [s \in D |-> e(h, s)]
    BY <2>1
  <2> QED BY <2>2, <2>3
<1>6. \E h : IsProduct(g, T, h)
  BY <1>2, <1>5, ProductIsThere
<1>7. IsProduct(g, T, w)
  <2> HIDE DEF D, e
  <2>1. w = [s \in D |-> e(w, s)]
    BY <1>4, <1>6 DEF w
  <2> QED BY <1>4, <2>1
<1>8. w[T] = ProductOf(g, T)
  BY <1>2, <1>5, <1>7, ProductFound
<1> QED BY <1>1, <1>8 DEF g, T

\* Whatever rules of a model match, their product keeps its bound.
LEMMA MultiplierBound ==
    ASSUME NEW rules \in RuleSets, NEW some \in SUBSET rules, NEW dims
    PROVE  /\ RuleMultiplier(some, dims) \in Nat /\ RuleBound(rules) \in Nat
           /\ RuleMultiplier(some, dims) <= RuleBound(rules)
<1> DEFINE c == [r \in some |-> r.multiplier]
           T == {r \in some : dims[r.field] = r.value}
           d == [f \in AllFields |-> LargestOf(rules, f)]
           g == [r \in T |-> r.field]
<1>1. /\ IsFiniteSet(some) /\ \A r \in some : r.field \in AllFields /\ r.multiplier \in Nat
      /\ \A r, q \in some : r.field = q.field /\ r.value = q.value => r = q
  BY RulesRight, FS_Subset
<1>2. RuleMultiplier(some, dims) = ProductOf(c, T)
  BY <1>1, MultiplierIsProduct
<1>3. RuleBound(rules) = ProductOf(d, AllFields)
  BY BoundIsProduct
<1>4. c \in [some -> Nat] /\ T \in SUBSET some /\ IsFiniteSet(T)
  BY <1>1, FS_Subset
<1>5. d \in [AllFields -> Nat] /\ (\A f \in AllFields : d[f] >= 1) /\ IsFiniteSet(AllFields)
  BY LargestRight, FieldsAreFew
<1>6. g \in [T -> AllFields] /\ (\A x, y \in T : g[x] = g[y] => x = y)
  BY <1>1
<1>7. \A x \in T : c[x] <= d[g[x]]
  BY <1>1, LargestRight
<1> HIDE DEF c, T, d, g
<1>8. ProductOf(c, T) \in Nat
  BY <1>4, ProductStep
<1>9. ProductOf(d, AllFields) \in Nat
  <2>1. AllFields \in SUBSET AllFields
    OBVIOUS
  <2> QED BY <1>5, <2>1, ProductStep
<1>10. ProductOf(c, T) <= ProductOf(d, AllFields)
  BY <1>4, <1>5, <1>6, <1>7, ProductBound
<1> QED BY <1>2, <1>3, <1>8, <1>9, <1>10

\* The worst case is the sum of four.
LEMMA WorstCaseIs ==
    ASSUME NEW c \in PriceRecords
    PROVE  WorstCase(c) = c.prices["input"] * MaxSegment + c.prices["output"] * MaxSegment
                            + c.prices["read"] * MaxSegment + c.prices["write"] * MaxSegment
<1> DEFINE g == [s \in Segments4 |-> c.prices[s] * MaxSegment]
           D == SUBSET Segments4
           e(h, s) == IF s = {} THEN 0 ELSE c.prices[First(s)] * MaxSegment + h[s \ {First(s)}]
           w == CHOOSE h : h = [s \in D |-> e(h, s)]
<1>1. WorstCase(c) = w[Segments4]
  BY DEF WorstCase, MapThenSumSet, MapThenFoldSet, First
<1>2. g \in [Segments4 -> Nat] /\ \A s \in Segments4 : g[s] = c.prices[s] * MaxSegment
  <2>1. \A s \in Segments4 : c.prices[s] \in Nat
    BY DEF PriceRecords
  <2>2. MaxSegment \in Nat
    BY PricingAssumption DEF PricingAssumption
  <2>3. \A s \in Segments4 : c.prices[s] * MaxSegment \in Nat
    BY <2>1, <2>2, Times
  <2> QED BY <2>3
<1> HIDE DEF w, g
<1>3. ASSUME NEW s \in D, s # {} PROVE g[First(s)] = c.prices[First(s)] * MaxSegment
  BY <1>2, <1>3, FirstIsIn
<1>4. ASSUME NEW h PROVE IsSum(g, Segments4, h) <=> h = [s \in D |-> e(h, s)]
  <2> DEFINE d(s) == IF s = {} THEN 0 ELSE g[First(s)] + h[s \ {First(s)}]
  <2>1. \A s \in D : d(s) = e(h, s)
    BY <1>3
  <2>2. IsSum(g, Segments4, h) <=> h = [s \in D |-> d(s)]
    BY DEF IsSum
  <2> HIDE DEF d, e, D
  <2>3. [s \in D |-> d(s)] = [s \in D |-> e(h, s)]
    BY <2>1
  <2> QED BY <2>2, <2>3
<1>5. IsFiniteSet(Segments4) /\ Segments4 \in SUBSET Segments4
  <2>1. Segments4 = (({"input"} \cup {"output"}) \cup {"read"}) \cup {"write"}
    BY DEF Segments4
  <2> QED BY <2>1, FS_Singleton, FS_Union
<1>6. \E h : IsSum(g, Segments4, h)
  BY <1>2, <1>5, SumIsThere
<1>7. IsSum(g, Segments4, w)
  <2> HIDE DEF D, e
  <2>1. w = [s \in D |-> e(w, s)]
    BY <1>4, <1>6 DEF w
  <2> QED BY <1>4, <2>1
<1>8. w[Segments4] = SumOf(g, Segments4)
  BY <1>2, <1>5, <1>7, SumFound
<1> DEFINE S3 == Segments4 \ {"input"}
           S2 == S3 \ {"output"}
           S1 == S2 \ {"read"}
           S0 == S1 \ {"write"}
<1>9. /\ S3 \in SUBSET Segments4 /\ S2 \in SUBSET Segments4 /\ S1 \in SUBSET Segments4 /\ S0 = {}
      /\ "input" \in Segments4 /\ "output" \in S3 /\ "read" \in S2 /\ "write" \in S1
      /\ {} \in SUBSET Segments4
  BY DEF Segments4
<1>10. IsFiniteSet(S3) /\ IsFiniteSet(S2) /\ IsFiniteSet(S1)
  BY <1>5, FS_Subset
<1> HIDE DEF S3
<1>11. SumOf(g, Segments4) = g["input"] + SumOf(g, S3)
  BY <1>2, <1>5, <1>9, SumWithout DEF S3
<1> HIDE DEF S2
<1>12. SumOf(g, S3) = g["output"] + SumOf(g, S2)
  BY <1>2, <1>9, <1>10, SumWithout DEF S2
<1> HIDE DEF S1
<1>13. SumOf(g, S2) = g["read"] + SumOf(g, S1)
  BY <1>2, <1>9, <1>10, SumWithout DEF S1
<1>14. SumOf(g, S1) = g["write"] + SumOf(g, S0)
  BY <1>2, <1>9, <1>10, SumWithout
<1>15. SumOf(g, S0) = 0
  BY <1>2, <1>9, FS_EmptySet, SumStep
<1> HIDE DEF S0
<1>16. /\ g["input"] = c.prices["input"] * MaxSegment /\ g["output"] = c.prices["output"] * MaxSegment
       /\ g["read"] = c.prices["read"] * MaxSegment /\ g["write"] = c.prices["write"] * MaxSegment
       /\ g["input"] \in Nat /\ g["output"] \in Nat /\ g["read"] \in Nat /\ g["write"] \in Nat
  BY <1>2, <1>9 DEF Segments4
<1> DEFINE i == g["input"]
           o == g["output"]
           r == g["read"]
           t == g["write"]
<1>17. w[Segments4] = i + (o + (r + (t + 0))) /\ i \in Nat /\ o \in Nat /\ r \in Nat /\ t \in Nat
  BY <1>8, <1>11, <1>12, <1>13, <1>14, <1>15, <1>16
<1> HIDE DEF i, o, r, t
<1>18. w[Segments4] = i + o + r + t
  BY <1>17
<1> QED BY <1>1, <1>16, <1>18 DEF i, o, r, t

\* What a configuration is once it is compiled.
LEMMA CompiledIs ==
    ASSUME NEW table \in PriceTables, NEW m \in DOMAIN table
    PROVE  LET c == CompileSnapshot(table).models[m]
           IN /\ DOMAIN CompileSnapshot(table).models = DOMAIN table
              /\ table[m] \in PriceRecords
              /\ c.prices = table[m].prices /\ c.multiplier = table[m].multiplier
              /\ c.rules = ActiveRules(table[m])
<1>1. PICK M \in SUBSET PriceModels : table \in [M -> PriceRecords]
  BY TablesAre
<1>2. table[m] \in PriceRecords
  BY <1>1
<1> DEFINE d == [k \in DOMAIN table |-> [table[k] EXCEPT !.rules = ActiveRules(table[k])]]
<1>3. CompileSnapshot(table).models = d
  BY DEF CompileSnapshot
<1>4. d[m] = [table[m] EXCEPT !.rules = ActiveRules(table[m])] /\ DOMAIN d = DOMAIN table
  OBVIOUS
<1> HIDE DEF d
<1>5. /\ [table[m] EXCEPT !.rules = ActiveRules(table[m])].prices = table[m].prices
      /\ [table[m] EXCEPT !.rules = ActiveRules(table[m])].multiplier = table[m].multiplier
      /\ [table[m] EXCEPT !.rules = ActiveRules(table[m])].rules = ActiveRules(table[m])
  BY <1>2 DEF PriceRecords
<1> QED BY <1>2, <1>3, <1>4, <1>5

\* The model that is matched is one of the table.
LEMMA MatchedIs ==
    ASSUME NEW s, NEW dims, MatchedModel(s, dims) # <<>>
    PROVE  MatchedModel(s, dims)[1] \in DOMAIN s.models
BY DEF MatchedModel

\* No segment costs more than the bound of its product.
LEMMA SegmentCost ==
    ASSUME NEW u \in Nat, NEW o \in Nat, NEW r \in Nat, NEW t \in Nat, NEW n \in Nat,
           u <= n, o <= n, r <= n, t <= n,
           NEW i1 \in Nat, NEW i2 \in Nat, NEW i3 \in Nat, NEW i4 \in Nat
    PROVE  /\ u * i1 + o * i2 + r * i3 + t * i4 \in Nat
           /\ u * i1 + o * i2 + r * i3 + t * i4 <= i1 * n + i2 * n + i3 * n + i4 * n
<1>1. ASSUME NEW a \in Nat, NEW b \in Nat, a <= n PROVE a * b \in Nat /\ b * n \in Nat /\ a * b <= b * n
  <2>1. a * b <= n * b
    BY <1>1, ProductsOrdered
  <2>2. n * b = b * n
    OBVIOUS
  <2> QED BY <2>1, <2>2, Times
<1>2. /\ u * i1 \in Nat /\ i1 * n \in Nat /\ u * i1 <= i1 * n
      /\ o * i2 \in Nat /\ i2 * n \in Nat /\ o * i2 <= i2 * n
      /\ r * i3 \in Nat /\ i3 * n \in Nat /\ r * i3 <= i3 * n
      /\ t * i4 \in Nat /\ i4 * n \in Nat /\ t * i4 <= i4 * n
  BY <1>1
<1> DEFINE a1 == u * i1
           a2 == o * i2
           a3 == r * i3
           a4 == t * i4
           b1 == i1 * n
           b2 == i2 * n
           b3 == i3 * n
           b4 == i4 * n
<1>3. /\ a1 \in Nat /\ a2 \in Nat /\ a3 \in Nat /\ a4 \in Nat
      /\ b1 \in Nat /\ b2 \in Nat /\ b3 \in Nat /\ b4 \in Nat
      /\ a1 <= b1 /\ a2 <= b2 /\ a3 <= b3 /\ a4 <= b4
  BY <1>2
<1> HIDE DEF a1, a2, a3, a4, b1, b2, b3, b4
<1>4. a1 + a2 + a3 + a4 \in Nat /\ a1 + a2 + a3 + a4 <= b1 + b2 + b3 + b4
  BY <1>3
<1> QED BY <1>4 DEF a1, a2, a3, a4, b1, b2, b3, b4

\* Nothing that can be counted costs more than a number can hold.
LEMMA CostBounded ==
    ASSUME NEW table \in PriceTables, Compilable(table), NEW dims,
           NEW t \in [Segments4 -> Nat], \A s \in Segments4 : t[s] <= MaxSegment
    PROVE  Calculate(CompileSnapshot(table), dims, t).cost <= MaxFinite
<1> DEFINE snapshot == CompileSnapshot(table)
           matched == MatchedModel(snapshot, dims)
           m == matched[1]
           c == snapshot.models[m]
           f == RuleMultiplier(c.rules, dims)
           b == BaseCost(c, t)
<1>0. MaxSegment \in Nat /\ MaxFinite \in Nat
  BY PricingAssumption DEF PricingAssumption
<1>1. CASE matched = <<>>
  BY <1>0, <1>1 DEF Calculate
<1>2. CASE matched # <<>> /\ c.multiplier = 0
  BY <1>0, <1>2 DEF Calculate
<1>3. CASE matched # <<>> /\ c.multiplier # 0
  <2>1. Calculate(snapshot, dims, t).cost = b * c.multiplier * f
    BY <1>3 DEF Calculate
  <2> HIDE DEF matched
  <2>2. DOMAIN snapshot.models = DOMAIN table /\ m \in DOMAIN table
    <3>1. m \in DOMAIN snapshot.models
      BY <1>3, MatchedIs DEF matched
    <3>2. DOMAIN snapshot.models = DOMAIN table
      BY DEF CompileSnapshot
    <3> QED BY <3>1, <3>2
  <2> HIDE DEF m
  <2> DEFINE p == table[m]
  <2>3. /\ p \in PriceRecords /\ c.prices = p.prices /\ c.multiplier = p.multiplier
        /\ c.rules = ActiveRules(p)
    BY <2>2, CompiledIs
  <2>4. WorstCaseFinite(p)
    BY <2>2 DEF Compilable
  <2> HIDE DEF p, c, snapshot
  <2>5. p.rules \in RuleSets /\ p.multiplier \in Nat /\ p.prices \in [Segments4 -> Nat]
    BY <2>3 DEF PriceRecords
  <2>6. c.rules \in SUBSET p.rules
    BY <2>3 DEF ActiveRules
  <2>7. f \in Nat /\ RuleBound(p.rules) \in Nat /\ f <= RuleBound(p.rules)
    BY <2>5, <2>6, MultiplierBound
  <2>8. /\ Uncached(t) \in Nat /\ Uncached(t) <= MaxSegment
        /\ Positive(t.output) \in Nat /\ Positive(t.output) <= MaxSegment
        /\ Positive(t.read) \in Nat /\ Positive(t.read) <= MaxSegment
        /\ Positive(t.write) \in Nat /\ Positive(t.write) <= MaxSegment
    <3>1. /\ t.input \in Nat /\ t.output \in Nat /\ t.read \in Nat /\ t.write \in Nat
          /\ t.input <= MaxSegment /\ t.output <= MaxSegment /\ t.read <= MaxSegment /\ t.write <= MaxSegment
      BY DEF Segments4
    <3> DEFINE ti == t.input
               to == t.output
               tr == t.read
               tw == t.write
    <3> HIDE DEF ti, to, tr, tw
    <3>2. /\ Positive(Positive(ti) - Positive(tr) - Positive(tw)) \in Nat
          /\ Positive(Positive(ti) - Positive(tr) - Positive(tw)) <= MaxSegment
          /\ Positive(to) \in Nat /\ Positive(to) <= MaxSegment
          /\ Positive(tr) \in Nat /\ Positive(tr) <= MaxSegment
          /\ Positive(tw) \in Nat /\ Positive(tw) <= MaxSegment
      BY <1>0, <3>1 DEF Positive, ti, to, tr, tw
    <3> QED BY <3>2 DEF Uncached, ti, to, tr, tw
  <2> DEFINE i1 == p.prices["input"]
             i2 == p.prices["output"]
             i3 == p.prices["read"]
             i4 == p.prices["write"]
             u1 == Uncached(t)
             u2 == Positive(t.output)
             u3 == Positive(t.read)
             u4 == Positive(t.write)
  <2>9. i1 \in Nat /\ i2 \in Nat /\ i3 \in Nat /\ i4 \in Nat
    BY <2>5 DEF Segments4
  <2>10. b = u1 * i1 + u2 * i2 + u3 * i3 + u4 * i4
    BY <2>3 DEF BaseCost
  <2>11. WorstCase(p) = i1 * MaxSegment + i2 * MaxSegment + i3 * MaxSegment + i4 * MaxSegment
    BY <2>3, WorstCaseIs
  <2>12. u1 \in Nat /\ u1 <= MaxSegment /\ u2 \in Nat /\ u2 <= MaxSegment
         /\ u3 \in Nat /\ u3 <= MaxSegment /\ u4 \in Nat /\ u4 <= MaxSegment
    BY <2>8
  <2> HIDE DEF i1, i2, i3, i4, u1, u2, u3, u4, b
  <2>13. b \in Nat /\ b <= WorstCase(p) /\ WorstCase(p) \in Nat
    <3>1. b \in Nat /\ b <= WorstCase(p)
      BY <1>0, <2>9, <2>10, <2>11, <2>12, SegmentCost
    <3>2. i1 * MaxSegment \in Nat /\ i2 * MaxSegment \in Nat /\ i3 * MaxSegment \in Nat /\ i4 * MaxSegment \in Nat
      BY <1>0, <2>9, Times
    <3>3. WorstCase(p) \in Nat
      BY <2>11, <3>2
    <3> QED BY <3>1, <3>3
  <2> DEFINE k == p.multiplier
             B == RuleBound(p.rules)
             W == WorstCase(p)
  <2>14. W * (k * B) <= MaxFinite
    BY <1>3, <2>3, <2>4, <2>5 DEF WorstCaseFinite
  <2>15. k \in Nat /\ B \in Nat /\ W \in Nat /\ f \in Nat /\ b \in Nat /\ f <= B /\ b <= W
    BY <2>5, <2>7, <2>13
  <2>16. Calculate(snapshot, dims, t).cost = b * k * f
    BY <2>1, <2>3
  <2> HIDE DEF k, B, W, f
  <2>17. k * f <= k * B /\ k * f \in Nat /\ k * B \in Nat
    BY <2>15, ProductsOrdered, Times
  <2>18. b * (k * f) <= W * (k * B)
    BY <2>15, <2>17, ProductsOrdered
  <2>19. b * k * f = b * (k * f)
    BY <2>15
  <2>20. b * (k * f) \in Int /\ W * (k * B) \in Int
    BY <2>15, <2>17, Times
  <2>21. b * k * f <= MaxFinite
    BY <1>0, <2>14, <2>18, <2>19, <2>20
  <2> QED BY <2>16, <2>21 DEF snapshot
<1> QED BY <1>1, <1>2, <1>3

Published(s) == \E table \in PriceTables : Compilable(table) /\ s = CompileSnapshot(table)
PricedRows == [id : Nat, kind : PricedKinds]

PageRight(p) ==
    /\ p = [stage |-> p.stage, resolver |-> p.resolver, groups |-> p.groups, read |-> p.read]
    /\ Published(p.resolver)
    /\ p.stage = "read" => /\ p.read \in SUBSET PricedRows /\ IsFiniteSet(p.read)
                           /\ p.groups = Projected(HourlyRows(p.read), p.resolver.fields)

PricingInv ==
    /\ priceTable \in PriceTables /\ Compilable(priceTable)
    /\ Published(priceCatalog)
    /\ priceChange = <<>> => priceCatalog = CompileSnapshot(priceTable)
    /\ priceChange # <<>> => priceChange = <<CompileSnapshot(priceTable)>>
    /\ pricedRows \in SUBSET PricedRows /\ IsFiniteSet(pricedRows)
    /\ PageRight(pricedPage)

\* A page that is not computed shows nothing wrong.
LEMMA EmptyPage == PageRight(NoPage)
<1>1. /\ NoPage.resolver = CompileSnapshot(NoPrices) /\ NoPage.stage = "closed"
      /\ NoPage = [stage |-> NoPage.stage, resolver |-> NoPage.resolver,
                  groups |-> NoPage.groups, read |-> NoPage.read]
  BY DEF NoPage
<1> QED BY <1>1, NothingPriced DEF PageRight, Published

\* At the start nothing is saved, and nothing is published or shown.
LEMMA PricingStarts == PricingInit => PricingInv
<1> SUFFICES ASSUME PricingInit PROVE PricingInv
  OBVIOUS
<1>1. /\ priceTable = NoPrices /\ priceCatalog = CompileSnapshot(NoPrices) /\ priceChange = <<>>
      /\ pricedRows = {} /\ pricedPage = NoPage
  BY DEF PricingInit
<1>2. Published(priceCatalog)
  BY <1>1, NothingPriced DEF Published
<1> QED BY <1>1, <1>2, NothingPriced, EmptyPage, FS_EmptySet DEF PricingInv

\* A change is one of the tables.
LEMMA MutationKeeps ==
    ASSUME PricingInv, NEW table \in PriceTables, MutatePricing(table)
    PROVE  PricingInv'
<1>1. /\ priceChange = <<>> /\ Compilable(table) /\ priceTable' = table
      /\ priceChange' = <<CompileSnapshot(table)>>
      /\ priceCatalog' = priceCatalog /\ pricedRows' = pricedRows /\ pricedPage' = pricedPage
  BY DEF MutatePricing
<1>2. /\ Published(priceCatalog) /\ pricedRows \in SUBSET PricedRows /\ IsFiniteSet(pricedRows)
      /\ PageRight(pricedPage)
  BY DEF PricingInv
<1>3. priceChange' # <<>>
  BY <1>1
<1>4. /\ Published(priceCatalog)' /\ (pricedRows \in SUBSET PricedRows /\ IsFiniteSet(pricedRows))'
      /\ PageRight(pricedPage)' /\ Compilable(priceTable)'
  BY <1>1, <1>2
<1> QED BY <1>1, <1>3, <1>4 DEF PricingInv

\* Saving, deleting, publishing and the steps of a page keep this.
LEMMA PricingKeeps == PricingInv /\ [PricingNext]_pricingVars => PricingInv'
<1> SUFFICES ASSUME PricingInv, [PricingNext]_pricingVars PROVE PricingInv'
  OBVIOUS
<1>1. CASE UpdatePricingBatch
  <2>1. PICK batch \in (SUBSET PriceInputs) \ {{}} :
            /\ \A i \in batch : AcceptedPrice(i)
            /\ MutatePricing(FoldSet(LAMBDA i, table : UpsertPrice(table, i), priceTable, batch))
    BY <1>1 DEF UpdatePricingBatch
  <2>2. FoldSet(LAMBDA i, table : UpsertPrice(table, i), priceTable, batch) \in PriceTables
    BY <2>1, BatchRight DEF PricingInv
  <2> DEFINE t == FoldSet(LAMBDA i, table : UpsertPrice(table, i), priceTable, batch)
  <2>3. t \in PriceTables /\ MutatePricing(t)
    BY <2>1, <2>2
  <2> HIDE DEF t
  <2> QED BY <2>3, MutationKeeps
<1>2. CASE DeletePricing
  <2>1. PICK m : MutatePricing([n \in DOMAIN priceTable \ {m} |-> priceTable[n]])
    BY <1>2 DEF DeletePricing
  <2>2. [n \in DOMAIN priceTable \ {m} |-> priceTable[n]] \in PriceTables
    BY FewerPrices DEF PricingInv
  <2> QED BY <2>1, <2>2, MutationKeeps
<1>3. CASE ReplacePricingRules
  <2>1. PICK m \in DOMAIN priceTable, rules \in RuleInputs :
            AcceptedRules(rules) /\ MutatePricing([priceTable EXCEPT ![m].rules = rules])
    BY <1>3 DEF ReplacePricingRules
  <2>2. [priceTable EXCEPT ![m].rules = rules] \in PriceTables
    BY <2>1, OtherRules DEF PricingInv
  <2> DEFINE t == [priceTable EXCEPT ![m].rules = rules]
  <2>3. t \in PriceTables /\ MutatePricing(t)
    BY <2>1, <2>2
  <2> HIDE DEF t
  <2> QED BY <2>3, MutationKeeps
<1>4. CASE PublishPricing
  <2>1. /\ priceChange # <<>> /\ priceCatalog' = priceChange[1] /\ priceChange' = <<>>
        /\ priceTable' = priceTable /\ pricedRows' = pricedRows /\ pricedPage' = pricedPage
    BY <1>4 DEF PublishPricing
  <2>2. priceCatalog' = CompileSnapshot(priceTable)
    BY <2>1 DEF PricingInv
  <2>3. Published(priceCatalog)'
    BY <2>2 DEF PricingInv, Published
  <2>4. /\ priceTable \in PriceTables /\ Compilable(priceTable) /\ PageRight(pricedPage)
        /\ pricedRows \in SUBSET PricedRows /\ IsFiniteSet(pricedRows)
    BY DEF PricingInv
  <2>5. (/\ priceTable \in PriceTables /\ Compilable(priceTable) /\ PageRight(pricedPage)
         /\ pricedRows \in SUBSET PricedRows /\ IsFiniteSet(pricedRows))'
    BY <2>1, <2>4
  <2> QED BY <2>1, <2>2, <2>3, <2>5 DEF PricingInv
<1>5. CASE RestartPricing
  <2>1. /\ priceCatalog' = CompileSnapshot(priceTable) /\ priceChange' = <<>> /\ pricedPage' = NoPage
        /\ priceTable' = priceTable /\ pricedRows' = pricedRows
    BY <1>5 DEF RestartPricing
  <2>2. Published(priceCatalog)'
    BY <2>1 DEF PricingInv, Published
  <2>3. /\ priceTable \in PriceTables /\ Compilable(priceTable)
        /\ pricedRows \in SUBSET PricedRows /\ IsFiniteSet(pricedRows)
    BY DEF PricingInv
  <2>4. (/\ priceTable \in PriceTables /\ Compilable(priceTable)
         /\ pricedRows \in SUBSET PricedRows /\ IsFiniteSet(pricedRows))'
    BY <2>1, <2>3
  <2>5. PageRight(pricedPage)'
    BY <2>1, EmptyPage
  <2> QED BY <2>1, <2>2, <2>4, <2>5 DEF PricingInv
<1>6. CASE CommitPricedRow
  <2>1. PICK kind \in PricedKinds :
            pricedRows' = pricedRows \cup {[id |-> Cardinality(pricedRows) + 1, kind |-> kind]}
    BY <1>6 DEF CommitPricedRow
  <2>2. priceTable' = priceTable /\ priceCatalog' = priceCatalog /\ priceChange' = priceChange
        /\ pricedPage' = pricedPage
    BY <1>6 DEF CommitPricedRow
  <2>3. pricedRows \in SUBSET PricedRows /\ IsFiniteSet(pricedRows)
    BY DEF PricingInv
  <2>4. Cardinality(pricedRows) \in Nat
    BY <2>3, FS_CardinalityType
  <2>5. [id |-> Cardinality(pricedRows) + 1, kind |-> kind] \in PricedRows
    BY <2>4 DEF PricedRows
  <2> DEFINE row == [id |-> Cardinality(pricedRows) + 1, kind |-> kind]
  <2>6. row \in PricedRows /\ pricedRows' = pricedRows \cup {row}
    BY <2>1, <2>5
  <2> HIDE DEF row
  <2>7. IsFiniteSet(pricedRows \cup {row})
    BY <2>3, FS_AddElement
  <2>8. pricedRows' \in SUBSET PricedRows /\ IsFiniteSet(pricedRows')
    BY <2>3, <2>6, <2>7
  <2>9. (/\ priceTable \in PriceTables /\ Compilable(priceTable) /\ Published(priceCatalog)
         /\ (priceChange = <<>> => priceCatalog = CompileSnapshot(priceTable))
         /\ (priceChange # <<>> => priceChange = <<CompileSnapshot(priceTable)>>)
         /\ PageRight(pricedPage))'
    <3>1. /\ priceTable \in PriceTables /\ Compilable(priceTable) /\ Published(priceCatalog)
          /\ (priceChange = <<>> => priceCatalog = CompileSnapshot(priceTable))
          /\ (priceChange # <<>> => priceChange = <<CompileSnapshot(priceTable)>>)
          /\ PageRight(pricedPage)
      BY DEF PricingInv
    <3> QED BY <2>2, <3>1
  <2> QED BY <2>8, <2>9 DEF PricingInv
<1>7. ASSUME UNCHANGED <<priceTable, priceCatalog, priceChange, pricedRows>>, PageRight(pricedPage')
      PROVE  PricingInv'
  <2>1. /\ priceTable \in PriceTables /\ Compilable(priceTable) /\ Published(priceCatalog)
        /\ (priceChange = <<>> => priceCatalog = CompileSnapshot(priceTable))
        /\ (priceChange # <<>> => priceChange = <<CompileSnapshot(priceTable)>>)
        /\ pricedRows \in SUBSET PricedRows /\ IsFiniteSet(pricedRows)
    BY DEF PricingInv
  <2>2. (/\ priceTable \in PriceTables /\ Compilable(priceTable) /\ Published(priceCatalog)
         /\ (priceChange = <<>> => priceCatalog = CompileSnapshot(priceTable))
         /\ (priceChange # <<>> => priceChange = <<CompileSnapshot(priceTable)>>)
         /\ pricedRows \in SUBSET PricedRows /\ IsFiniteSet(pricedRows))'
    BY <1>7, <2>1
  <2>3. PageRight(pricedPage)'
    BY <1>7
  <2> QED BY <2>2, <2>3 DEF PricingInv
<1>8. CASE OpenPage
  <2>1. /\ pricedPage' = [NoPage EXCEPT !.stage = "open", !.resolver = priceCatalog]
        /\ UNCHANGED <<priceTable, priceCatalog, priceChange, pricedRows>>
    BY <1>8 DEF OpenPage
  <2>2. /\ pricedPage'.stage = "open" /\ pricedPage'.resolver = priceCatalog
        /\ pricedPage' = [stage |-> pricedPage'.stage, resolver |-> pricedPage'.resolver,
                          groups |-> pricedPage'.groups, read |-> pricedPage'.read]
    BY <2>1 DEF NoPage
  <2>3. PageRight(pricedPage')
    BY <2>2 DEF PricingInv, PageRight
  <2> QED BY <1>7, <2>1, <2>3
<1>9. CASE ReadPricedPage
  <2>1. /\ pricedPage.stage = "open" /\ pricedPage' = ReadGroups(pricedPage)
        /\ UNCHANGED <<priceTable, priceCatalog, priceChange, pricedRows>>
    BY <1>9 DEF ReadPricedPage
  <2> DEFINE p == pricedPage
             q == pricedPage'
             g == Projected(HourlyRows(pricedRows), p.resolver.fields)
  <2>2. q = [p EXCEPT !.stage = "read", !.read = pricedRows, !.groups = g]
    BY <2>1 DEF ReadGroups
  <2>3. PageRight(p) /\ pricedRows \in SUBSET PricedRows /\ IsFiniteSet(pricedRows)
    BY DEF PricingInv
  <2>4. p = [stage |-> p.stage, resolver |-> p.resolver, groups |-> p.groups, read |-> p.read]
        /\ Published(p.resolver)
    BY <2>3 DEF PageRight
  <2> HIDE DEF g
  <2>5. /\ q = [stage |-> q.stage, resolver |-> q.resolver, groups |-> q.groups, read |-> q.read]
        /\ q.stage = "read" /\ q.read = pricedRows /\ q.groups = g /\ q.resolver = p.resolver
    <3> DEFINE stage == p.stage
               resolver == p.resolver
               groups == p.groups
               read == p.read
    <3>1. p = [stage |-> stage, resolver |-> resolver, groups |-> groups, read |-> read]
      BY <2>4
    <3> HIDE DEF stage, resolver, groups, read
    <3>2. q = [stage |-> "read", resolver |-> resolver, groups |-> g, read |-> pricedRows]
      BY <2>2, <3>1
    <3> QED BY <3>1, <3>2
  <2>6. PageRight(q)
    BY <2>3, <2>4, <2>5 DEF PageRight, g
  <2> QED BY <1>7, <2>1, <2>6
<1>10. CASE ClosePage
  <2>1. pricedPage' = NoPage /\ UNCHANGED <<priceTable, priceCatalog, priceChange, pricedRows>>
    BY <1>10 DEF ClosePage
  <2> QED BY <1>7, <2>1, EmptyPage
<1>11. CASE UNCHANGED pricingVars
  <2>1. UNCHANGED <<priceTable, priceCatalog, priceChange, pricedRows>> /\ pricedPage' = pricedPage
    BY <1>11 DEF pricingVars
  <2>2. PageRight(pricedPage')
    BY <2>1 DEF PricingInv
  <2> QED BY <1>7, <2>1, <2>2
<1> QED BY <1>1, <1>2, <1>3, <1>4, <1>5, <1>6, <1>8, <1>9, <1>10, <1>11 DEF PricingNext

\* What is published is priced right.
LEMMA PublishedRight == PricingInv => PricesArePublished
<1> SUFFICES ASSUME PricingInv PROVE PricesArePublished
  OBVIOUS
<1>1. IF priceChange = <<>> THEN priceCatalog = CompileSnapshot(priceTable)
      ELSE priceChange[1] = CompileSnapshot(priceTable)
  BY DEF PricingInv
<1>2. Compilable(priceTable)
  BY DEF PricingInv
<1>3. PICK table \in PriceTables : Compilable(table) /\ priceCatalog = CompileSnapshot(table)
  BY DEF PricingInv, Published
<1>4. ASSUME NEW kind \in PricedKinds, \A s \in Segments4 : kind.tokens[s] <= MaxSegment
      PROVE  Calculate(priceCatalog, kind.dims, kind.tokens).cost <= MaxFinite
  <2>1. kind.tokens \in [Segments4 -> Nat]
    BY PricingAssumption DEF PricingAssumption
  <2> QED BY <1>3, <1>4, <2>1, CostBounded
<1> QED BY <1>1, <1>2, <1>4 DEF PricesArePublished

-----------------------------------------------------------------------------
(* Groups of events.                                                         *)

SegmentOf(s) == [e \in PricedRows |-> e.kind.tokens[s]]
UncachedOf == [e \in PricedRows |-> Uncached(e.kind.tokens)]

\* The tokens of stored rows are counted from 0 on.
LEMMA RowTokens ==
    ASSUME NEW e \in PricedRows
    PROVE  /\ e.kind.tokens \in [Segments4 -> Nat] /\ e.kind \in PricedKinds
           /\ Uncached(e.kind.tokens) \in Nat
<1>1. e.kind.tokens \in [Segments4 -> Nat] /\ e.kind \in PricedKinds
  BY PricingAssumption DEF PricingAssumption, PricedRows
<1> DEFINE t == e.kind.tokens
<1>2. t.input \in Nat /\ t.read \in Nat /\ t.write \in Nat
  BY <1>1 DEF Segments4
<1> DEFINE ti == t.input
           tr == t.read
           tw == t.write
<1> HIDE DEF ti, tr, tw
<1>3. Positive(Positive(ti) - Positive(tr) - Positive(tw)) \in Nat
  BY <1>2 DEF Positive, ti, tr, tw
<1> QED BY <1>1, <1>3 DEF Uncached, ti, tr, tw

\* And so are those of each kind, which can be summed up.
LEMMA SegmentsTyped ==
    /\ \A s \in Segments4 : SegmentOf(s) \in [PricedRows -> Nat]
    /\ UncachedOf \in [PricedRows -> Nat]
    /\ \A e \in PricedRows : /\ \A s \in Segments4 : SegmentOf(s)[e] = e.kind.tokens[s]
                             /\ UncachedOf[e] = Uncached(e.kind.tokens)
BY RowTokens DEF SegmentOf, UncachedOf

\* The tokens of some events together.
LEMMA TokensTogether ==
    ASSUME NEW K \in SUBSET PricedRows, IsFiniteSet(K), NEW s \in Segments4
    PROVE  SumTokens(K)[s] = SumOf(SegmentOf(s), K) /\ SumTokens(K)[s] \in Nat
<1> DEFINE g == SegmentOf(s)
           D == SUBSET K
           e(h, x) == IF x = {} THEN 0 ELSE First(x).kind.tokens[s] + h[x \ {First(x)}]
           w == CHOOSE h : h = [x \in D |-> e(h, x)]
<1>1. SumTokens(K)[s] = w[K]
  BY DEF SumTokens, MapThenSumSet, MapThenFoldSet, First
<1>2. g \in [PricedRows -> Nat] /\ \A x \in PricedRows : g[x] = x.kind.tokens[s]
  BY SegmentsTyped
<1> HIDE DEF w, g
<1>3. ASSUME NEW x \in D, x # {} PROVE g[First(x)] = First(x).kind.tokens[s]
  BY <1>2, <1>3, FirstIsIn
<1>4. ASSUME NEW h PROVE IsSum(g, K, h) <=> h = [x \in D |-> e(h, x)]
  <2> DEFINE d(x) == IF x = {} THEN 0 ELSE g[First(x)] + h[x \ {First(x)}]
  <2>1. \A x \in D : d(x) = e(h, x)
    BY <1>3
  <2>2. IsSum(g, K, h) <=> h = [x \in D |-> d(x)]
    BY DEF IsSum
  <2> HIDE DEF d, e, D
  <2>3. [x \in D |-> d(x)] = [x \in D |-> e(h, x)]
    BY <2>1
  <2> QED BY <2>2, <2>3
<1>6. \E h : IsSum(g, K, h)
  BY <1>2, SumIsThere
<1>7. IsSum(g, K, w)
  <2> HIDE DEF D, e
  <2>1. w = [x \in D |-> e(w, x)]
    BY <1>4, <1>6 DEF w
  <2> QED BY <1>4, <2>1
<1>8. w[K] = SumOf(g, K)
  BY <1>2, <1>7, SumFound
<1>9. SumOf(g, K) \in Nat
  BY <1>2, SumStep
<1> QED BY <1>1, <1>8, <1>9 DEF g

Positives(u, i, r, t) == IF i - r - t > 0 THEN u = i - r - t ELSE u = 0

\* What is not cached of some events together is no more than that of each, and as
\* much if each of them has more input than cache.
LEMMA UncachedTogether ==
    ASSUME NEW K \in SUBSET PricedRows, IsFiniteSet(K)
    PROVE  /\ SumTokens(K) \in [Segments4 -> Nat]
           /\ Uncached(SumTokens(K)) \in Nat
           /\ Uncached(SumTokens(K)) <= SumOf(UncachedOf, K)
           /\ Regular(K) => Uncached(SumTokens(K)) = SumOf(UncachedOf, K)
           /\ Positives(Uncached(SumTokens(K)), SumOf(SegmentOf("input"), K),
                        SumOf(SegmentOf("read"), K), SumOf(SegmentOf("write"), K))
<1> DEFINE I == SegmentOf("input")
           R == SegmentOf("read")
           W == SegmentOf("write")
           U == UncachedOf
           V == [e \in PricedRows |-> R[e] + W[e]]
           Z == [e \in PricedRows |-> U[e] + V[e]]
           t == SumTokens(K)
<1>1. /\ I \in [PricedRows -> Nat] /\ R \in [PricedRows -> Nat] /\ W \in [PricedRows -> Nat]
      /\ U \in [PricedRows -> Nat]
  BY SegmentsTyped DEF Segments4
<1>2. ASSUME NEW e \in PricedRows
      PROVE  /\ I[e] = e.kind.tokens.input /\ R[e] = e.kind.tokens.read /\ W[e] = e.kind.tokens.write
             /\ U[e] = Uncached(e.kind.tokens)
             /\ Positives(U[e], I[e], R[e], W[e])
  <2>1. /\ I[e] = e.kind.tokens.input /\ R[e] = e.kind.tokens.read /\ W[e] = e.kind.tokens.write
        /\ U[e] = Uncached(e.kind.tokens)
    BY SegmentsTyped DEF Segments4
  <2>2. I[e] \in Nat /\ R[e] \in Nat /\ W[e] \in Nat
    BY <1>1
  <2> DEFINE ti == I[e]
             tr == R[e]
             tw == W[e]
  <2>3. U[e] = Positive(Positive(ti) - Positive(tr) - Positive(tw))
    BY <2>1 DEF Uncached
  <2>4. ti \in Nat /\ tr \in Nat /\ tw \in Nat
    BY <2>2
  <2> HIDE DEF ti, tr, tw, U
  <2>5. Positives(U[e], ti, tr, tw)
    BY <2>3, <2>4 DEF Positive, Positives
  <2> QED BY <2>1, <2>5 DEF ti, tr, tw
<1> HIDE DEF I, R, W, U
<1>3. V \in [PricedRows -> Nat] /\ \A e \in PricedRows : V[e] = R[e] + W[e]
  BY <1>1
<1> HIDE DEF V
<1>4. Z \in [PricedRows -> Nat] /\ \A e \in PricedRows : Z[e] = U[e] + V[e]
  BY <1>1, <1>3
<1> HIDE DEF Z
<1>5. SumOf(V, K) = SumOf(R, K) + SumOf(W, K)
  BY <1>1, <1>3, SumPlus
<1>6. SumOf(Z, K) = SumOf(U, K) + SumOf(V, K)
  BY <1>1, <1>3, <1>4, SumPlus
<1>7. \A e \in K : I[e] <= Z[e]
  <2> TAKE e \in K
  <2>1. /\ I[e] \in Nat /\ R[e] \in Nat /\ W[e] \in Nat /\ U[e] \in Nat
        /\ V[e] = R[e] + W[e] /\ Z[e] = U[e] + V[e] /\ Positives(U[e], I[e], R[e], W[e])
    BY <1>1, <1>2, <1>3, <1>4
  <2> QED BY <2>1 DEF Positives
<1>8. SumOf(I, K) <= SumOf(Z, K)
  <2>1. K \in SUBSET (PricedRows \cap PricedRows)
    OBVIOUS
  <2> QED BY <1>1, <1>4, <1>7, <2>1, SumLess
<1>9. Regular(K) => SumOf(I, K) = SumOf(Z, K)
  <2> SUFFICES ASSUME Regular(K) PROVE SumOf(I, K) = SumOf(Z, K)
    OBVIOUS
  <2>1. \A e \in K : I[e] = Z[e]
    <3> TAKE e \in K
    <3>1. /\ I[e] \in Nat /\ R[e] \in Nat /\ W[e] \in Nat /\ U[e] \in Nat
          /\ V[e] = R[e] + W[e] /\ Z[e] = U[e] + V[e] /\ Positives(U[e], I[e], R[e], W[e])
          /\ I[e] >= R[e] + W[e]
      BY <1>1, <1>2, <1>3, <1>4 DEF Regular
    <3> QED BY <3>1 DEF Positives
  <2>2. K \in SUBSET (PricedRows \cap PricedRows)
    OBVIOUS
  <2> QED BY <1>1, <1>4, <2>1, <2>2, SumAgrees
<1>10. t["input"] = SumOf(I, K) /\ t["read"] = SumOf(R, K) /\ t["write"] = SumOf(W, K)
  BY TokensTogether DEF Segments4, I, R, W
<1>11. SumTokens(K) \in [Segments4 -> Nat]
  <2> DEFINE f(s) == MapThenSumSet(LAMBDA e : e.kind.tokens[s], K)
  <2>1. SumTokens(K) = [s \in Segments4 |-> f(s)]
    BY DEF SumTokens
  <2> HIDE DEF f
  <2>2. \A s \in Segments4 : SumTokens(K)[s] \in Nat
    BY TokensTogether
  <2> QED BY <2>1, <2>2
<1> DEFINE i == SumOf(I, K)
           r == SumOf(R, K)
           o == SumOf(W, K)
           u == SumOf(U, K)
<1>12. i \in Nat /\ r \in Nat /\ o \in Nat /\ u \in Nat
  BY <1>1, SumStep
<1>13. Uncached(t) = Positive(Positive(i) - Positive(r) - Positive(o))
  BY <1>10 DEF Uncached
<1>14. i <= u + (r + o) /\ (Regular(K) => i = u + (r + o))
  BY <1>5, <1>6, <1>8, <1>9
<1> HIDE DEF i, r, o, u, t
<1>15. /\ Uncached(t) \in Nat /\ Uncached(t) <= u /\ (Regular(K) => Uncached(t) = u)
       /\ Positives(Uncached(t), i, r, o)
  BY <1>12, <1>13, <1>14 DEF Positive, Positives
<1> QED BY <1>11, <1>15 DEF t, i, r, o, u, I, R, W, U

-----------------------------------------------------------------------------
\* What a token of a segment costs.
Rate(s, dims, segment) ==
    LET c == s.models[MatchedModel(s, dims)[1]]
    IN IF MatchedModel(s, dims) = <<>> THEN 0
       ELSE IF c.multiplier = 0 THEN 0
       ELSE c.prices[segment] * (c.multiplier * RuleMultiplier(c.rules, dims))

\* Multiplication distributes over four summands.
LEMMA Distribute4 ==
    ASSUME NEW a \in Nat, NEW b \in Nat, NEW c \in Nat, NEW d \in Nat,
           NEW i \in Nat, NEW j \in Nat, NEW k \in Nat, NEW l \in Nat, NEW m \in Nat, NEW f \in Nat
    PROVE  (a * i + b * j + c * k + d * l) * m * f
             = a * (i * (m * f)) + b * (j * (m * f)) + c * (k * (m * f)) + d * (l * (m * f))
<1> DEFINE n == m * f
           a1 == a * i
           b1 == b * j
           c1 == c * k
           d1 == d * l
           x == a1 + b1 + c1 + d1
<1>1. n \in Nat /\ a1 \in Nat /\ b1 \in Nat /\ c1 \in Nat /\ d1 \in Nat
  BY Times
<1>2. a * (i * n) = a1 * n /\ b * (j * n) = b1 * n /\ c * (k * n) = c1 * n /\ d * (l * n) = d1 * n
  <2>1. ASSUME NEW p \in Nat, NEW q \in Nat, NEW z \in Nat PROVE p * (q * z) = (p * q) * z
    OBVIOUS
  <2> HIDE DEF n
  <2> QED BY <1>1, <2>1
<1>3. x * m * f = x * n
  <2>1. x \in Nat
    BY <1>1
  <2> HIDE DEF x
  <2> QED BY <2>1
<1> HIDE DEF n, a1, b1, c1, d1
<1>4. x * n = a1 * n + b1 * n + c1 * n + d1 * n
  <2>1. (a1 + b1 + c1 + d1) * n = (a1 + b1 + c1) * n + d1 * n
    BY <1>1, Distributes
  <2>2. (a1 + b1 + c1) * n = (a1 + b1) * n + c1 * n
    BY <1>1, Distributes
  <2>3. (a1 + b1) * n = a1 * n + b1 * n
    BY <1>1, Distributes
  <2> QED BY <2>1, <2>2, <2>3
<1> QED BY <1>2, <1>3, <1>4 DEF n, a1, b1, c1, d1

\* The counts a cost depends on.
TokensCounted(t) == /\ Uncached(t) \in Nat /\ Positive(t.output) \in Nat
              /\ Positive(t.read) \in Nat /\ Positive(t.write) \in Nat

\* A published snapshot prices each model it has by a record of the table.
LEMMA MatchedRight ==
    ASSUME NEW s, Published(s), NEW dims, MatchedModel(s, dims) # <<>>
    PROVE  LET c == s.models[MatchedModel(s, dims)[1]]
           IN /\ c.prices \in [Segments4 -> Nat] /\ c.multiplier \in Nat
              /\ RuleMultiplier(c.rules, dims) \in Nat
              /\ \A r \in c.rules : r.field \in AllFields /\ r.field \in s.fields
<1>1. PICK table \in PriceTables : s = CompileSnapshot(table)
  BY DEF Published
<1> DEFINE m == MatchedModel(s, dims)[1]
           p == table[m]
           c == s.models[m]
<1>2. DOMAIN s.models = DOMAIN table /\ m \in DOMAIN s.models
  <2>1. m \in DOMAIN s.models
    BY MatchedIs
  <2>2. DOMAIN s.models = DOMAIN table
    BY <1>1 DEF CompileSnapshot
  <2> QED BY <2>1, <2>2
<1> HIDE DEF m
<1>3. /\ p \in PriceRecords /\ c.prices = p.prices /\ c.multiplier = p.multiplier
      /\ c.rules = ActiveRules(p)
  BY <1>1, <1>2, CompiledIs
<1> HIDE DEF p, c
<1>4. p.rules \in RuleSets /\ p.multiplier \in Nat /\ p.prices \in [Segments4 -> Nat]
  BY <1>3 DEF PriceRecords
<1>5. c.rules \in SUBSET p.rules
  BY <1>3 DEF ActiveRules
<1>6. RuleMultiplier(c.rules, dims) \in Nat
  BY <1>4, <1>5, MultiplierBound
<1>7. \A r \in c.rules : r.field \in AllFields
  BY <1>4, <1>5, RulesRight
<1>8. \A r \in c.rules : r.field \in s.fields
  <2>1. s.fields = {r.field : r \in UNION {ActiveRules(table[k]) : k \in DOMAIN table}}
    BY <1>1 DEF CompileSnapshot
  <2>2. c.rules = ActiveRules(table[m]) /\ m \in DOMAIN table
    BY <1>2, <1>3 DEF p
  <2> QED BY <2>1, <2>2
<1> QED BY <1>3, <1>4, <1>6, <1>7, <1>8 DEF c, m

\* Rates are counted from 0 on.
LEMMA RatesAre ==
    ASSUME NEW s, Published(s), NEW dims
    PROVE  \A x \in Segments4 : Rate(s, dims, x) \in Nat
<1> DEFINE m == MatchedModel(s, dims)
           c == s.models[m[1]]
           f == RuleMultiplier(c.rules, dims)
<1>1. CASE m = <<>>
  BY <1>1 DEF Rate
<1>2. CASE m # <<>>
  <2>1. c.prices \in [Segments4 -> Nat] /\ c.multiplier \in Nat /\ f \in Nat
    BY <1>2, MatchedRight
  <2>2. ASSUME NEW x \in Segments4 PROVE Rate(s, dims, x) = IF c.multiplier = 0 THEN 0 ELSE c.prices[x] * (c.multiplier * f)
    BY <1>2 DEF Rate
  <2> HIDE DEF c, m, f
  <2>3. ASSUME NEW x \in Segments4 PROVE c.prices[x] * (c.multiplier * f) \in Nat
    <3>1. c.prices[x] \in Nat /\ c.multiplier * f \in Nat
      BY <2>1, Times
    <3> QED BY <3>1, Times
  <2> QED BY <2>2, <2>3
<1> QED BY <1>1, <1>2

\* A cost is a sum over the kinds of tokens.
LEMMA CostIs ==
    ASSUME NEW s, Published(s), NEW dims, NEW t, TokensCounted(t)
    PROVE  /\ Calculate(s, dims, t).cost
                = Uncached(t) * Rate(s, dims, "input") + Positive(t.output) * Rate(s, dims, "output")
                    + Positive(t.read) * Rate(s, dims, "read") + Positive(t.write) * Rate(s, dims, "write")
           /\ Calculate(s, dims, t).available
                <=> (MatchedModel(s, dims) # <<>> \/ ~RequiresPricing(t))
<1> DEFINE m == MatchedModel(s, dims)
           c == s.models[m[1]]
           f == RuleMultiplier(c.rules, dims)
           u1 == Uncached(t)
           u2 == Positive(t.output)
           u3 == Positive(t.read)
           u4 == Positive(t.write)
           cost == Calculate(s, dims, t).cost
<1>0. u1 \in Nat /\ u2 \in Nat /\ u3 \in Nat /\ u4 \in Nat
  BY DEF TokensCounted
<1>a. Calculate(s, dims, t).available <=> (m # <<>> \/ ~RequiresPricing(t))
  BY DEF Calculate
<1>1. CASE m = <<>>
  <2>1. cost = 0 /\ \A x \in Segments4 : Rate(s, dims, x) = 0
    BY <1>1 DEF Calculate, Rate
  <2>2. /\ Rate(s, dims, "input") = 0 /\ Rate(s, dims, "output") = 0
        /\ Rate(s, dims, "read") = 0 /\ Rate(s, dims, "write") = 0
    BY <2>1 DEF Segments4
  <2> HIDE DEF u1, u2, u3, u4, cost
  <2>3. cost = u1 * 0 + u2 * 0 + u3 * 0 + u4 * 0
    BY <1>0, <2>1
  <2> QED BY <1>a, <2>2, <2>3 DEF u1, u2, u3, u4, cost
<1>2. CASE m # <<>> /\ c.multiplier = 0
  <2>1. cost = 0 /\ \A x \in Segments4 : Rate(s, dims, x) = 0
    BY <1>2 DEF Calculate, Rate
  <2>2. /\ Rate(s, dims, "input") = 0 /\ Rate(s, dims, "output") = 0
        /\ Rate(s, dims, "read") = 0 /\ Rate(s, dims, "write") = 0
    BY <2>1 DEF Segments4
  <2> HIDE DEF u1, u2, u3, u4, cost
  <2>3. cost = u1 * 0 + u2 * 0 + u3 * 0 + u4 * 0
    BY <1>0, <2>1
  <2> QED BY <1>a, <2>2, <2>3 DEF u1, u2, u3, u4, cost
<1>3. CASE m # <<>> /\ c.multiplier # 0
  <2> DEFINE i1 == c.prices["input"]
             i2 == c.prices["output"]
             i3 == c.prices["read"]
             i4 == c.prices["write"]
             k == c.multiplier
  <2>1. cost = BaseCost(c, t) * k * f
    BY <1>3 DEF Calculate
  <2>2. BaseCost(c, t) = u1 * i1 + u2 * i2 + u3 * i3 + u4 * i4
    BY DEF BaseCost
  <2>3. /\ Rate(s, dims, "input") = i1 * (k * f) /\ Rate(s, dims, "output") = i2 * (k * f)
        /\ Rate(s, dims, "read") = i3 * (k * f) /\ Rate(s, dims, "write") = i4 * (k * f)
    BY <1>3 DEF Rate
  <2>4. c.prices \in [Segments4 -> Nat] /\ k \in Nat /\ f \in Nat
    BY <1>3, MatchedRight
  <2>5. i1 \in Nat /\ i2 \in Nat /\ i3 \in Nat /\ i4 \in Nat /\ k \in Nat /\ f \in Nat
    BY <2>4 DEF Segments4
  <2> HIDE DEF u1, u2, u3, u4, cost, i1, i2, i3, i4, k, f
  <2>6. (u1 * i1 + u2 * i2 + u3 * i3 + u4 * i4) * k * f
           = u1 * (i1 * (k * f)) + u2 * (i2 * (k * f)) + u3 * (i3 * (k * f)) + u4 * (i4 * (k * f))
    BY <1>0, <2>5, Distribute4
  <2> HIDE DEF c, m
  <2>7. cost = u1 * Rate(s, dims, "input") + u2 * Rate(s, dims, "output")
                 + u3 * Rate(s, dims, "read") + u4 * Rate(s, dims, "write")
    BY <2>1, <2>2, <2>3, <2>6
  <2> QED BY <1>a, <2>7 DEF u1, u2, u3, u4, cost, m
<1> QED BY <1>1, <1>2, <1>3

\* The dimensions a page reads tell the same prices as all of them.
LEMMA SameRates ==
    ASSUME NEW s, Published(s), NEW d, NEW F, s.fields \subseteq F
    PROVE  /\ MatchedModel(s, ReadDims(d, F)) = MatchedModel(s, d)
           /\ \A x \in Segments4 : Rate(s, ReadDims(d, F), x) = Rate(s, d, x)
<1> DEFINE e == ReadDims(d, F)
<1>1. \A f \in AllFields : f \in {"model", "model_alias"} \cup F => e[f] = d[f]
  BY DEF ReadDims
<1>2. e["model"] = d["model"] /\ e["model_alias"] = d["model_alias"]
  BY <1>1 DEF AllFields
<1> HIDE DEF e
<1>3. MatchedModel(s, e) = MatchedModel(s, d)
  BY <1>2 DEF MatchedModel
<1>4. CASE MatchedModel(s, d) = <<>>
  BY <1>3, <1>4 DEF Rate, e
<1>5. CASE MatchedModel(s, d) # <<>>
  <2> DEFINE c == s.models[MatchedModel(s, d)[1]]
  <2>1. \A r \in c.rules : r.field \in AllFields /\ r.field \in s.fields
    BY <1>5, MatchedRight
  <2>2. \A r \in c.rules : e[r.field] = d[r.field]
    BY <1>1, <2>1
  <2>3. {r \in c.rules : e[r.field] = r.value} = {r \in c.rules : d[r.field] = r.value}
    BY <2>2
  <2>4. RuleMultiplier(c.rules, e) = RuleMultiplier(c.rules, d)
    BY <2>3 DEF RuleMultiplier
  <2> QED BY <1>3, <2>4 DEF Rate, e
<1> QED BY <1>3, <1>4, <1>5 DEF e

\* An hour's rows keep all dimensions there are.
LEMMA ReadTwice ==
    ASSUME NEW d, NEW F
    PROVE  ReadDims(ReadDims(d, RuleFields), F) = ReadDims(d, F)
BY DEF ReadDims, AllFields

CostOf(s) == [e \in PricedRows |-> Calculate(s, e.kind.dims, e.kind.tokens).cost]

\* The tokens of a group are those of its events, but for input that is cached.
GroupFits(t, K) ==
    /\ TokensCounted(t)
    /\ Positive(t.output) = SumOf(SegmentOf("output"), K)
    /\ Positive(t.read) = SumOf(SegmentOf("read"), K)
    /\ Positive(t.write) = SumOf(SegmentOf("write"), K)
    /\ Uncached(t) <= SumOf(UncachedOf, K)
    /\ Regular(K) => Uncached(t) = SumOf(UncachedOf, K)
    /\ RequiresPricing(t) <=> \E e \in K : RequiresPricing(e.kind.tokens)

\* The tokens of a row are what a cost can be calculated of.
LEMMA RowCounted ==
    ASSUME NEW e \in PricedRows
    PROVE  /\ TokensCounted(e.kind.tokens)
           /\ Uncached(e.kind.tokens) = UncachedOf[e]
           /\ Positive(e.kind.tokens.output) = SegmentOf("output")[e]
           /\ Positive(e.kind.tokens.read) = SegmentOf("read")[e]
           /\ Positive(e.kind.tokens.write) = SegmentOf("write")[e]
<1> DEFINE t == e.kind.tokens
<1>1. t \in [Segments4 -> Nat] /\ Uncached(t) \in Nat
  BY RowTokens
<1>2. t.output \in Nat /\ t.read \in Nat /\ t.write \in Nat
  BY <1>1 DEF Segments4
<1>3. /\ UncachedOf[e] = Uncached(t) /\ SegmentOf("output")[e] = t.output
      /\ SegmentOf("read")[e] = t.read /\ SegmentOf("write")[e] = t.write
  BY SegmentsTyped DEF Segments4
<1> HIDE DEF t
<1>4. Positive(t.output) = t.output /\ Positive(t.read) = t.read /\ Positive(t.write) = t.write
  <2> DEFINE a == t.output
             b == t.read
             c == t.write
  <2>1. a \in Nat /\ b \in Nat /\ c \in Nat
    BY <1>2
  <2> HIDE DEF a, b, c
  <2>2. Positive(a) = a /\ Positive(b) = b /\ Positive(c) = c
    BY <2>1 DEF Positive
  <2> QED BY <2>2 DEF a, b, c
<1> QED BY <1>1, <1>2, <1>3, <1>4 DEF TokensCounted, t

\* The costs of rows can be summed up.
LEMMA CostsTyped ==
    ASSUME NEW s, Published(s)
    PROVE  CostOf(s) \in [PricedRows -> Nat]
<1> DEFINE c == CostOf(s)
<1>1. c = [e \in PricedRows |-> Calculate(s, e.kind.dims, e.kind.tokens).cost]
  BY DEF CostOf
<1>2. \A e \in PricedRows : c[e] \in Nat
  <2> TAKE e \in PricedRows
  <2>1. TokensCounted(e.kind.tokens)
    BY RowCounted
  <2>2. \A x \in Segments4 : Rate(s, e.kind.dims, x) \in Nat
    BY RatesAre
  <2> DEFINE t == e.kind.tokens
             dd == e.kind.dims
  <2>3. c[e] = Uncached(t) * Rate(s, dd, "input") + Positive(t.output) * Rate(s, dd, "output")
            + Positive(t.read) * Rate(s, dd, "read") + Positive(t.write) * Rate(s, dd, "write")
    BY <1>1, <2>1, CostIs
  <2>4. /\ Rate(s, dd, "input") \in Nat /\ Rate(s, dd, "output") \in Nat
        /\ Rate(s, dd, "read") \in Nat /\ Rate(s, dd, "write") \in Nat
    BY <2>2 DEF Segments4
  <2>5. /\ Uncached(t) * Rate(s, dd, "input") \in Nat /\ Positive(t.output) * Rate(s, dd, "output") \in Nat
        /\ Positive(t.read) * Rate(s, dd, "read") \in Nat /\ Positive(t.write) * Rate(s, dd, "write") \in Nat
    BY <2>1, <2>4, Times DEF TokensCounted
  <2> QED BY <2>3, <2>5
<1> QED BY <1>1, <1>2

\* The cost of events of one group is linear in their tokens.
LEMMA ClassCost ==
    ASSUME NEW s, Published(s), NEW F, s.fields \subseteq F, NEW d,
           NEW K \in SUBSET PricedRows, IsFiniteSet(K), \A e \in K : ReadDims(e.kind.dims, F) = d
    PROVE  SumOf(CostOf(s), K)
             = SumOf(UncachedOf, K) * Rate(s, d, "input") + SumOf(SegmentOf("output"), K) * Rate(s, d, "output")
                 + SumOf(SegmentOf("read"), K) * Rate(s, d, "read")
                 + SumOf(SegmentOf("write"), K) * Rate(s, d, "write")
<1> DEFINE a1 == UncachedOf
           a2 == SegmentOf("output")
           a3 == SegmentOf("read")
           a4 == SegmentOf("write")
           i1 == Rate(s, d, "input")
           i2 == Rate(s, d, "output")
           i3 == Rate(s, d, "read")
           i4 == Rate(s, d, "write")
           c == CostOf(s)
<1>1. /\ a1 \in [PricedRows -> Nat] /\ a2 \in [PricedRows -> Nat]
      /\ a3 \in [PricedRows -> Nat] /\ a4 \in [PricedRows -> Nat]
  BY SegmentsTyped DEF Segments4
<1>2. \A e \in K : /\ MatchedModel(s, d) = MatchedModel(s, e.kind.dims)
                   /\ \A x \in Segments4 : Rate(s, e.kind.dims, x) = Rate(s, d, x)
  BY SameRates
<1>3. i1 \in Nat /\ i2 \in Nat /\ i3 \in Nat /\ i4 \in Nat
  <2>1. \A x \in Segments4 : Rate(s, d, x) \in Nat
    BY RatesAre
  <2> QED BY <2>1 DEF Segments4
<1>4. ASSUME NEW e \in K
      PROVE  c[e] = a1[e] * i1 + a2[e] * i2 + a3[e] * i3 + a4[e] * i4
  <2> DEFINE t == e.kind.tokens
             dd == e.kind.dims
  <2>0. e \in PricedRows
    OBVIOUS
  <2>1. /\ TokensCounted(t) /\ Uncached(t) = a1[e] /\ Positive(t.output) = a2[e]
        /\ Positive(t.read) = a3[e] /\ Positive(t.write) = a4[e]
    BY <2>0, RowCounted
  <2>2. c[e] = Calculate(s, dd, t).cost
    BY <2>0 DEF CostOf
  <2>3. Calculate(s, dd, t).cost
          = Uncached(t) * Rate(s, dd, "input") + Positive(t.output) * Rate(s, dd, "output")
              + Positive(t.read) * Rate(s, dd, "read") + Positive(t.write) * Rate(s, dd, "write")
    BY <2>1, CostIs
  <2>4. /\ Rate(s, dd, "input") = i1 /\ Rate(s, dd, "output") = i2
        /\ Rate(s, dd, "read") = i3 /\ Rate(s, dd, "write") = i4
    BY <1>2 DEF Segments4
  <2> HIDE DEF t, dd, c, a1, a2, a3, a4, i1, i2, i3, i4
  <2> QED BY <2>1, <2>2, <2>3, <2>4
<1> DEFINE b1 == [e \in K |-> a1[e] * i1]
           b2 == [e \in K |-> a2[e] * i2]
           b3 == [e \in K |-> a3[e] * i3]
           b4 == [e \in K |-> a4[e] * i4]
           p2 == [e \in K |-> b1[e] + b2[e]]
           p3 == [e \in K |-> p2[e] + b3[e]]
           p4 == [e \in K |-> p3[e] + b4[e]]
           A1 == [e \in K |-> a1[e]]
           A2 == [e \in K |-> a2[e]]
           A3 == [e \in K |-> a3[e]]
           A4 == [e \in K |-> a4[e]]
<1> HIDE DEF a1, a2, a3, a4, i1, i2, i3, i4, c
<1>5. A1 \in [K -> Nat] /\ A2 \in [K -> Nat] /\ A3 \in [K -> Nat] /\ A4 \in [K -> Nat]
  BY <1>1
<1>6. /\ \A e \in K : A1[e] = a1[e] /\ A2[e] = a2[e] /\ A3[e] = a3[e] /\ A4[e] = a4[e]
  OBVIOUS
<1> HIDE DEF A1, A2, A3, A4
<1>7. /\ SumOf(a1, K) = SumOf(A1, K) /\ SumOf(a2, K) = SumOf(A2, K)
      /\ SumOf(a3, K) = SumOf(A3, K) /\ SumOf(a4, K) = SumOf(A4, K)
  <2>1. K \in SUBSET (PricedRows \cap K)
    OBVIOUS
  <2>2. \A e \in K : a1[e] = A1[e] /\ a2[e] = A2[e] /\ a3[e] = A3[e] /\ a4[e] = A4[e]
    BY <1>6
  <2>3. SumOf(a1, K) = SumOf(A1, K)
    BY <1>1, <1>5, <2>1, <2>2, SumAgrees
  <2>4. SumOf(a2, K) = SumOf(A2, K)
    BY <1>1, <1>5, <2>1, <2>2, SumAgrees
  <2>5. SumOf(a3, K) = SumOf(A3, K)
    BY <1>1, <1>5, <2>1, <2>2, SumAgrees
  <2>6. SumOf(a4, K) = SumOf(A4, K)
    BY <1>1, <1>5, <2>1, <2>2, SumAgrees
  <2> QED BY <2>3, <2>4, <2>5, <2>6
<1>8. /\ b1 \in [K -> Nat] /\ \A e \in K : b1[e] = A1[e] * i1
      /\ b2 \in [K -> Nat] /\ \A e \in K : b2[e] = A2[e] * i2
      /\ b3 \in [K -> Nat] /\ \A e \in K : b3[e] = A3[e] * i3
      /\ b4 \in [K -> Nat] /\ \A e \in K : b4[e] = A4[e] * i4
  <2>1. \A e \in K : /\ a1[e] * i1 \in Nat /\ a2[e] * i2 \in Nat
                     /\ a3[e] * i3 \in Nat /\ a4[e] * i4 \in Nat
    BY <1>1, <1>3, Times
  <2>2. \A e \in K : b1[e] = a1[e] * i1 /\ b2[e] = a2[e] * i2 /\ b3[e] = a3[e] * i3 /\ b4[e] = a4[e] * i4
    OBVIOUS
  <2>3. b1 \in [K -> Nat] /\ b2 \in [K -> Nat] /\ b3 \in [K -> Nat] /\ b4 \in [K -> Nat]
    BY <2>1
  <2> HIDE DEF b1, b2, b3, b4
  <2> QED BY <1>6, <2>2, <2>3
<1>9. \A e \in K : b1[e] = a1[e] * i1 /\ b2[e] = a2[e] * i2 /\ b3[e] = a3[e] * i3 /\ b4[e] = a4[e] * i4
  OBVIOUS
<1> HIDE DEF b1, b2, b3, b4
<1>10. /\ SumOf(b1, K) = SumOf(A1, K) * i1 /\ SumOf(b2, K) = SumOf(A2, K) * i2
       /\ SumOf(b3, K) = SumOf(A3, K) * i3 /\ SumOf(b4, K) = SumOf(A4, K) * i4
  <2>1. SumOf(b1, K) = SumOf(A1, K) * i1
    <3>1. A1 \in [K -> Nat] /\ b1 \in [K -> Nat] /\ i1 \in Nat /\ K \in SUBSET K
      BY <1>3, <1>5, <1>8
    <3>2. \A e \in K : b1[e] = A1[e] * i1
      BY <1>8
    <3> QED BY <3>1, <3>2, SumScaled
  <2>2. SumOf(b2, K) = SumOf(A2, K) * i2
    <3>1. A2 \in [K -> Nat] /\ b2 \in [K -> Nat] /\ i2 \in Nat /\ K \in SUBSET K
      BY <1>3, <1>5, <1>8
    <3>2. \A e \in K : b2[e] = A2[e] * i2
      BY <1>8
    <3> QED BY <3>1, <3>2, SumScaled
  <2>3. SumOf(b3, K) = SumOf(A3, K) * i3
    <3>1. A3 \in [K -> Nat] /\ b3 \in [K -> Nat] /\ i3 \in Nat /\ K \in SUBSET K
      BY <1>3, <1>5, <1>8
    <3>2. \A e \in K : b3[e] = A3[e] * i3
      BY <1>8
    <3> QED BY <3>1, <3>2, SumScaled
  <2>4. SumOf(b4, K) = SumOf(A4, K) * i4
    <3>1. A4 \in [K -> Nat] /\ b4 \in [K -> Nat] /\ i4 \in Nat /\ K \in SUBSET K
      BY <1>3, <1>5, <1>8
    <3>2. \A e \in K : b4[e] = A4[e] * i4
      BY <1>8
    <3> QED BY <3>1, <3>2, SumScaled
  <2> QED BY <2>1, <2>2, <2>3, <2>4
<1>11. p2 \in [K -> Nat] /\ \A e \in K : p2[e] = b1[e] + b2[e]
  BY <1>8
<1> HIDE DEF p2
<1>12. p3 \in [K -> Nat] /\ \A e \in K : p3[e] = p2[e] + b3[e]
  BY <1>8, <1>11
<1> HIDE DEF p3
<1>13. p4 \in [K -> Nat] /\ \A e \in K : p4[e] = p3[e] + b4[e]
  BY <1>8, <1>12
<1> HIDE DEF p4
<1>14. SumOf(p2, K) = SumOf(b1, K) + SumOf(b2, K)
  BY <1>8, <1>11, SumPlus
<1>15. SumOf(p3, K) = SumOf(p2, K) + SumOf(b3, K)
  <2>1. p2 \in [K -> Nat] /\ b3 \in [K -> Nat] /\ p3 \in [K -> Nat] /\ K \in SUBSET K
    BY <1>8, <1>11, <1>12
  <2>2. \A e \in K : p3[e] = p2[e] + b3[e]
    BY <1>12
  <2> QED BY <2>1, <2>2, SumPlus
<1>16. SumOf(p4, K) = SumOf(p3, K) + SumOf(b4, K)
  BY <1>8, <1>12, <1>13, SumPlus
<1>17. \A e \in K : c[e] = p4[e]
  <2> TAKE e \in K
  <2>1. p4[e] = b1[e] + b2[e] + b3[e] + b4[e]
    BY <1>11, <1>12, <1>13
  <2> QED BY <1>4, <1>9, <2>1
<1>18. SumOf(c, K) = SumOf(p4, K)
  <2>3. c \in [PricedRows -> Nat]
    BY CostsTyped DEF c
  <2>4. K \in SUBSET (PricedRows \cap K)
    OBVIOUS
  <2> QED BY <1>13, <1>17, <2>3, <2>4, SumAgrees
<1>19. SumOf(c, K) = SumOf(a1, K) * i1 + SumOf(a2, K) * i2 + SumOf(a3, K) * i3 + SumOf(a4, K) * i4
  BY <1>7, <1>10, <1>14, <1>15, <1>16, <1>18
<1> QED BY <1>19 DEF a1, a2, a3, a4, i1, i2, i3, i4, c

\* A linear expression keeps the order of its first term.
LEMMA LinearOrder ==
    ASSUME NEW u \in Nat, NEW v \in Nat, NEW i \in Nat, NEW a \in Nat, NEW b \in Nat, NEW c \in Nat,
           u <= v
    PROVE  /\ u * i + a + b + c \in Nat
           /\ u * i + a + b + c <= v * i + a + b + c
<1>1. u * i <= v * i
  BY ProductsOrdered
<1> DEFINE x == u * i
           y == v * i
<1>2. x \in Nat /\ y \in Nat /\ x <= y
  BY <1>1, Times
<1> HIDE DEF x, y
<1>3. x + a + b + c \in Nat /\ x + a + b + c <= y + a + b + c
  BY <1>2
<1> QED BY <1>3 DEF x, y

\* A group with less uncached input costs less.
LEMMA CostsOrdered ==
    ASSUME NEW s, Published(s), NEW d, NEW t, TokensCounted(t), NEW v, TokensCounted(v),
           Uncached(t) <= Uncached(v), Positive(t.output) = Positive(v.output),
           Positive(t.read) = Positive(v.read), Positive(t.write) = Positive(v.write)
    PROVE  /\ Calculate(s, d, t).cost \in Nat
           /\ Calculate(s, d, t).cost <= Calculate(s, d, v).cost
<1> DEFINE i1 == Rate(s, d, "input")
           i2 == Rate(s, d, "output")
           i3 == Rate(s, d, "read")
           i4 == Rate(s, d, "write")
           a == Positive(t.output) * i2
           b == Positive(t.read) * i3
           c == Positive(t.write) * i4
<1>1. i1 \in Nat /\ i2 \in Nat /\ i3 \in Nat /\ i4 \in Nat
  <2>1. \A x \in Segments4 : Rate(s, d, x) \in Nat
    BY RatesAre
  <2> QED BY <2>1 DEF Segments4
<1>2. a \in Nat /\ b \in Nat /\ c \in Nat /\ Uncached(t) \in Nat /\ Uncached(v) \in Nat
  BY <1>1, Times DEF TokensCounted
<1>3. Calculate(s, d, t).cost = Uncached(t) * i1 + a + b + c
  BY CostIs
<1>4. Calculate(s, d, v).cost = Uncached(v) * i1 + a + b + c
  BY CostIs
<1> HIDE DEF i1, i2, i3, i4, a, b, c
<1>5. /\ Uncached(t) * i1 + a + b + c \in Nat
      /\ Uncached(t) * i1 + a + b + c <= Uncached(v) * i1 + a + b + c
  BY <1>1, <1>2, LinearOrder
<1> QED BY <1>3, <1>4, <1>5

\* What a group costs is what its events cost, but for input that is cached.
LEMMA GroupCost ==
    ASSUME NEW s, Published(s), NEW F, s.fields \subseteq F, NEW d,
           NEW K \in SUBSET PricedRows, IsFiniteSet(K), \A e \in K : ReadDims(e.kind.dims, F) = d,
           NEW t, GroupFits(t, K)
    PROVE  /\ Calculate(s, d, t).cost \in Nat
           /\ Calculate(s, d, t).cost <= SumOf(CostOf(s), K)
           /\ Regular(K) => Calculate(s, d, t).cost = SumOf(CostOf(s), K)
           /\ Calculate(s, d, t).available
                <=> \A e \in K : Calculate(s, e.kind.dims, e.kind.tokens).available
<1> DEFINE i1 == Rate(s, d, "input")
           i2 == Rate(s, d, "output")
           i3 == Rate(s, d, "read")
           i4 == Rate(s, d, "write")
           a == Positive(t.output) * i2
           b == Positive(t.read) * i3
           c == Positive(t.write) * i4
           U == SumOf(UncachedOf, K)
           cost == Calculate(s, d, t).cost
<1>0. /\ TokensCounted(t) /\ Positive(t.output) = SumOf(SegmentOf("output"), K)
      /\ Positive(t.read) = SumOf(SegmentOf("read"), K)
      /\ Positive(t.write) = SumOf(SegmentOf("write"), K)
      /\ Uncached(t) <= U
      /\ Regular(K) => Uncached(t) = U
      /\ RequiresPricing(t) <=> \E e \in K : RequiresPricing(e.kind.tokens)
  BY DEF GroupFits
<1>1. i1 \in Nat /\ i2 \in Nat /\ i3 \in Nat /\ i4 \in Nat
  <2>1. \A x \in Segments4 : Rate(s, d, x) \in Nat
    BY RatesAre
  <2> QED BY <2>1 DEF Segments4
<1>2. a \in Nat /\ b \in Nat /\ c \in Nat /\ Uncached(t) \in Nat
  BY <1>0, <1>1, Times DEF TokensCounted
<1>3. U \in Nat
  BY SegmentsTyped, SumStep
<1>4. cost = Uncached(t) * i1 + a + b + c
  BY <1>0, CostIs
<1>5. SumOf(CostOf(s), K) = U * i1 + a + b + c
  BY <1>0, ClassCost
<1>6. Calculate(s, d, t).available <=> \A e \in K : Calculate(s, e.kind.dims, e.kind.tokens).available
  <2>1. Calculate(s, d, t).available <=> (MatchedModel(s, d) # <<>> \/ ~RequiresPricing(t))
    BY <1>0, CostIs
  <2>2. ASSUME NEW e \in K
        PROVE  Calculate(s, e.kind.dims, e.kind.tokens).available
                 <=> (MatchedModel(s, d) # <<>> \/ ~RequiresPricing(e.kind.tokens))
    <3>1. TokensCounted(e.kind.tokens)
      BY RowCounted
    <3>2. MatchedModel(s, d) = MatchedModel(s, e.kind.dims)
      BY SameRates
    <3> QED BY <3>1, <3>2, CostIs
  <2> QED BY <1>0, <2>1, <2>2
<1> HIDE DEF i1, i2, i3, i4, a, b, c, U, cost
<1>7. Uncached(t) * i1 + a + b + c \in Nat /\ Uncached(t) * i1 + a + b + c <= U * i1 + a + b + c
  <2>1. Uncached(t) <= U
    BY <1>0
  <2> QED BY <1>1, <1>2, <1>3, <2>1, LinearOrder
<1>8. Regular(K) => cost = SumOf(CostOf(s), K)
  BY <1>0, <1>4, <1>5
<1>9. cost \in Nat /\ cost <= SumOf(CostOf(s), K)
  BY <1>4, <1>5, <1>7
<1> QED BY <1>6, <1>8, <1>9 DEF cost

\* The cost of all events one by one.
LEMMA EventsCost ==
    ASSUME NEW s, Published(s), NEW E \in SUBSET PricedRows, IsFiniteSet(E)
    PROVE  /\ PriceOfEvents(s, E).cost = SumOf(CostOf(s), E)
           /\ PriceOfEvents(s, E).available
                <=> \A x \in E : Calculate(s, x.kind.dims, x.kind.tokens).available
<1> DEFINE g == CostOf(s)
           D == SUBSET E
           e(h, x) == IF x = {} THEN 0
                      ELSE Calculate(s, First(x).kind.dims, First(x).kind.tokens).cost + h[x \ {First(x)}]
           w == CHOOSE h : h = [x \in D |-> e(h, x)]
<1>1. /\ PriceOfEvents(s, E).cost = w[E]
      /\ PriceOfEvents(s, E).available
                <=> \A x \in E : Calculate(s, x.kind.dims, x.kind.tokens).available
  BY DEF PriceOfEvents, MapThenSumSet, MapThenFoldSet, First
<1>2. g \in [PricedRows -> Nat] /\ \A x \in PricedRows : g[x] = Calculate(s, x.kind.dims, x.kind.tokens).cost
  BY CostsTyped DEF CostOf
<1> HIDE DEF w, g
<1>3. ASSUME NEW x \in D, x # {} PROVE g[First(x)] = Calculate(s, First(x).kind.dims, First(x).kind.tokens).cost
  BY <1>2, <1>3, FirstIsIn
<1>4. ASSUME NEW h PROVE IsSum(g, E, h) <=> h = [x \in D |-> e(h, x)]
  <2> DEFINE d(x) == IF x = {} THEN 0 ELSE g[First(x)] + h[x \ {First(x)}]
  <2>1. \A x \in D : d(x) = e(h, x)
    BY <1>3
  <2>2. IsSum(g, E, h) <=> h = [x \in D |-> d(x)]
    BY DEF IsSum
  <2> HIDE DEF d, e, D
  <2>3. [x \in D |-> d(x)] = [x \in D |-> e(h, x)]
    BY <2>1
  <2> QED BY <2>2, <2>3
<1>6. \E h : IsSum(g, E, h)
  BY <1>2, SumIsThere
<1>7. IsSum(g, E, w)
  <2> HIDE DEF D, e
  <2>1. w = [x \in D |-> e(w, x)]
    BY <1>4, <1>6 DEF w
  <2> QED BY <1>4, <2>1
<1>8. w[E] = SumOf(g, E)
  BY <1>2, <1>7, SumFound
<1> QED BY <1>1, <1>8 DEF g

Reads(E, F) == {ReadDims(e.kind.dims, F) : e \in E}
Class(E, F, d) == {e \in E : ReadDims(e.kind.dims, F) = d}
PricedGroups(D, tk) == {[dims |-> d, tokens |-> tk[d]] : d \in D}

\* The cost of all groups is a sum over what they are read by.
LEMMA GroupsSum ==
    ASSUME NEW D, IsFiniteSet(D), NEW tk, NEW s, NEW q \in [D -> Nat],
           \A d \in D : q[d] = Calculate(s, d, tk[d]).cost
    PROVE  /\ PriceOfGroups(s, PricedGroups(D, tk)).cost = SumOf(q, D)
           /\ PriceOfGroups(s, PricedGroups(D, tk)).available
                <=> \A d \in D : Calculate(s, d, tk[d]).available
<1> DEFINE G == PricedGroups(D, tk)
           g == [x \in G |-> q[x.dims]]
           f == [x \in G |-> x.dims]
           P == SUBSET G
           e(h, x) == IF x = {} THEN 0
                      ELSE Calculate(s, First(x).dims, First(x).tokens).cost + h[x \ {First(x)}]
           w == CHOOSE h : h = [x \in P |-> e(h, x)]
<1>0. /\ \A x \in G : x.dims \in D /\ x.tokens = tk[x.dims] /\ x = [dims |-> x.dims, tokens |-> tk[x.dims]]
      /\ \A d \in D : \E x \in G : x.dims = d /\ x.tokens = tk[d]
  <2>0. G = {[dims |-> d, tokens |-> tk[d]] : d \in D}
    BY DEF PricedGroups
  <2> HIDE DEF G
  <2>1. ASSUME NEW x \in G
        PROVE  x.dims \in D /\ x.tokens = tk[x.dims] /\ x = [dims |-> x.dims, tokens |-> tk[x.dims]]
    <3>1. PICK d \in D : x = [dims |-> d, tokens |-> tk[d]]
      BY <2>0
    <3>2. x.dims = d /\ x.tokens = tk[d]
      BY <3>1
    <3> QED BY <3>1, <3>2
  <2>2. ASSUME NEW d \in D PROVE \E x \in G : x.dims = d /\ x.tokens = tk[d]
    <3> DEFINE x == [dims |-> d, tokens |-> tk[d]]
    <3>1. x \in G
      BY <2>0
    <3>2. x.dims = d /\ x.tokens = tk[d]
      OBVIOUS
    <3> QED BY <3>1, <3>2
  <2> QED BY <2>1, <2>2
<1>a. IsFiniteSet(G)
  <2>1. G = {[dims |-> d, tokens |-> tk[d]] : d \in D}
    BY DEF PricedGroups
  <2> HIDE DEF G
  <2> DEFINE z == [d \in D |-> [dims |-> d, tokens |-> tk[d]]]
  <2>2. z \in Surjection(D, G)
    <3>1. z \in [D -> G] /\ \A x \in G : \E d \in D : z[d] = x
      BY <2>1
    <3> QED BY <3>1 DEF Surjection
  <2> QED BY <2>2, FS_Surjection
<1> HIDE DEF G
<1>1. /\ PriceOfGroups(s, G).cost = w[G]
      /\ PriceOfGroups(s, G).available <=> \A x \in G : Calculate(s, x.dims, x.tokens).available
  BY DEF PriceOfGroups, MapThenSumSet, MapThenFoldSet, First
<1>b. PriceOfGroups(s, G).available <=> \A d \in D : Calculate(s, d, tk[d]).available
  BY <1>0, <1>1
<1>2. g \in [G -> Nat] /\ \A x \in G : g[x] = Calculate(s, x.dims, x.tokens).cost
  BY <1>0
<1>c. g \in [G -> Nat] /\ \A x \in G : g[x] = q[x.dims]
  BY <1>2
<1> HIDE DEF w, g
<1>3. ASSUME NEW x \in P, x # {} PROVE g[First(x)] = Calculate(s, First(x).dims, First(x).tokens).cost
  BY <1>2, <1>3, FirstIsIn
<1>4. ASSUME NEW h PROVE IsSum(g, G, h) <=> h = [x \in P |-> e(h, x)]
  <2> DEFINE d(x) == IF x = {} THEN 0 ELSE g[First(x)] + h[x \ {First(x)}]
  <2>1. \A x \in P : d(x) = e(h, x)
    BY <1>3
  <2>2. IsSum(g, G, h) <=> h = [x \in P |-> d(x)]
    BY DEF IsSum
  <2> HIDE DEF d, e, P
  <2>3. [x \in P |-> d(x)] = [x \in P |-> e(h, x)]
    BY <2>1
  <2> QED BY <2>2, <2>3
<1>6. \E h : IsSum(g, G, h)
  BY <1>2, <1>a, SumIsThere
<1>7. IsSum(g, G, w)
  <2> HIDE DEF P, e
  <2>1. w = [x \in P |-> e(w, x)]
    BY <1>4, <1>6 DEF w
  <2> QED BY <1>4, <2>1
<1>8. w[G] = SumOf(g, G)
  BY <1>2, <1>7, <1>a, SumFound
<1>9. f \in [G -> D] /\ (\A x \in G : f[x] = x.dims) /\ \A d \in D : \E x \in G : f[x] = d
  BY <1>0
<1> HIDE DEF f
<1>10. ASSUME NEW d \in D PROVE q[d] = SumOf(g, {x \in G : f[x] = d})
  <2>1. PICK x \in G : x.dims = d
    BY <1>0
  <2> DEFINE S == {y \in G : f[y] = d}
  <2>2. S = {x}
    BY <1>0, <1>9, <2>1
  <2> HIDE DEF S
  <2>3. S \in SUBSET G /\ IsFiniteSet(S) /\ x \in S /\ S \ {x} = {}
    BY <1>a, <2>2, FS_Subset
  <2>4. SumOf(g, S) = g[x] + SumOf(g, S \ {x})
    BY <1>c, <2>3, SumWithout
  <2>5. SumOf(g, S \ {x}) = 0
    <3>1. {} \in SUBSET G /\ IsFiniteSet({})
      BY FS_EmptySet
    <3> QED BY <1>c, <2>3, <3>1, SumStep
  <2>6. g[x] = q[d] /\ g[x] \in Nat
    BY <1>c, <2>1
  <2> QED BY <2>4, <2>5, <2>6 DEF S
<1>11. SumOf(q, D) = SumOf(g, G)
  <2>1. G \in SUBSET G
    OBVIOUS
  <2> QED BY <1>a, <1>c, <1>9, <1>10, <2>1, SumByClass
<1> QED BY <1>1, <1>8, <1>11, <1>b DEF G

(* what the groups of events cost, q by what they are read by, beside what the *)
(* events cost                                                                *)
PricedTogether(s, E, F, tk, q) ==
    LET price == PriceOfGroups(s, PricedGroups(Reads(E, F), tk))
        single == PriceOfEvents(s, E)
    IN /\ IsFiniteSet(Reads(E, F)) /\ q \in [Reads(E, F) -> Nat]
       /\ price.cost = SumOf(q, Reads(E, F))
       /\ price.available = single.available
       /\ price.cost <= single.cost
       /\ Regular(E) => price.cost = single.cost

\* All groups together: what they cost is what the events cost, one by one, but for
\* input that is cached.
LEMMA GroupsPriced ==
    ASSUME NEW s, Published(s), NEW F, s.fields \subseteq F,
           NEW E \in SUBSET PricedRows, IsFiniteSet(E), NEW tk,
           \A d \in Reads(E, F) : GroupFits(tk[d], Class(E, F, d)),
           NEW q, q = [d \in Reads(E, F) |-> q[d]], \A d \in Reads(E, F) : q[d] = Calculate(s, d, tk[d]).cost
    PROVE  PricedTogether(s, E, F, tk, q)
<1> DEFINE D == Reads(E, F)
           price == PriceOfGroups(s, PricedGroups(D, tk))
           single == PriceOfEvents(s, E)
           c == CostOf(s)
           f == [e \in E |-> ReadDims(e.kind.dims, F)]
           r == [d \in D |-> SumOf(c, Class(E, F, d))]
<1>1. /\ f \in [E -> D] /\ \A e \in E : f[e] = ReadDims(e.kind.dims, F)
      /\ \A d \in D : \E e \in E : f[e] = d
  BY DEF Reads
<1>2. IsFiniteSet(D)
  <2>1. f \in Surjection(E, D)
    BY <1>1 DEF Surjection
  <2> QED BY <2>1, FS_Surjection
<1> HIDE DEF D
<1>3. ASSUME NEW d \in D
      PROVE  /\ Class(E, F, d) \in SUBSET PricedRows /\ IsFiniteSet(Class(E, F, d))
             /\ \A e \in Class(E, F, d) : ReadDims(e.kind.dims, F) = d
             /\ Class(E, F, d) = {e \in E : f[e] = d}
             /\ GroupFits(tk[d], Class(E, F, d))
             /\ Regular(E) => Regular(Class(E, F, d))
  <2>1. Class(E, F, d) \in SUBSET E
    BY DEF Class
  <2>2. IsFiniteSet(Class(E, F, d))
    BY <2>1, FS_Subset
  <2>3. GroupFits(tk[d], Class(E, F, d))
    BY DEF D
  <2>4. Class(E, F, d) = {e \in E : f[e] = d}
    BY <1>1 DEF Class
  <2>5. Regular(E) => Regular(Class(E, F, d))
    BY <2>1 DEF Regular
  <2> QED BY <2>1, <2>2, <2>3, <2>4, <2>5 DEF Class
<1>4. ASSUME NEW d \in D
      PROVE  /\ Calculate(s, d, tk[d]).cost \in Nat
             /\ Calculate(s, d, tk[d]).cost <= SumOf(c, Class(E, F, d))
             /\ Regular(E) => Calculate(s, d, tk[d]).cost = SumOf(c, Class(E, F, d))
             /\ Calculate(s, d, tk[d]).available
                  <=> \A e \in Class(E, F, d) : Calculate(s, e.kind.dims, e.kind.tokens).available
             /\ SumOf(c, Class(E, F, d)) \in Nat
  <2>1. c \in [PricedRows -> Nat]
    BY CostsTyped
  <2>2. SumOf(c, Class(E, F, d)) \in Nat
    BY <1>3, <2>1, SumStep
  <2> DEFINE K == Class(E, F, d)
             t == tk[d]
  <2>3. /\ K \in SUBSET PricedRows /\ IsFiniteSet(K) /\ \A e \in K : ReadDims(e.kind.dims, F) = d
        /\ GroupFits(t, K)
        /\ Regular(E) => Regular(K)
    BY <1>3
  <2> HIDE DEF K, t
  <2>4. /\ Calculate(s, d, t).cost \in Nat
        /\ Calculate(s, d, t).cost <= SumOf(CostOf(s), K)
        /\ Regular(K) => Calculate(s, d, t).cost = SumOf(CostOf(s), K)
        /\ Calculate(s, d, t).available
             <=> \A e \in K : Calculate(s, e.kind.dims, e.kind.tokens).available
    BY <2>3, GroupCost
  <2> QED BY <2>2, <2>3, <2>4 DEF K, t
<1>5. q \in [D -> Nat] /\ \A d \in D : q[d] = Calculate(s, d, tk[d]).cost
  BY <1>4 DEF D
<1>6. /\ price.cost = SumOf(q, D)
      /\ price.available <=> \A d \in D : Calculate(s, d, tk[d]).available
  BY <1>2, <1>5, GroupsSum
<1>7. /\ single.cost = SumOf(c, E)
      /\ single.available <=> \A e \in E : Calculate(s, e.kind.dims, e.kind.tokens).available
  BY EventsCost
<1>8. price.available <=> single.available
  <2>1. \A e \in E : \E d \in D : e \in Class(E, F, d)
    BY DEF D, Reads, Class
  <2>2. \A d \in D : Class(E, F, d) \in SUBSET E
    BY DEF Class
  <2>3. (\A d \in D : Calculate(s, d, tk[d]).available)
          <=> \A e \in E : Calculate(s, e.kind.dims, e.kind.tokens).available
    BY <1>4, <2>1, <2>2
  <2> QED BY <1>6, <1>7, <2>3
<1>9. r \in [D -> Nat] /\ \A d \in D : r[d] = SumOf(c, Class(E, F, d))
  BY <1>4
<1> HIDE DEF r, f
<1>10. SumOf(r, D) = SumOf(c, E)
  <2>1. c \in [PricedRows -> Nat]
    BY CostsTyped
  <2>2. \A d \in D : r[d] = SumOf(c, {e \in E : f[e] = d})
    BY <1>3, <1>9
  <2> HIDE DEF c
  <2>3. f \in [E -> D] /\ r \in [D -> Nat]
    BY <1>1, <1>9
  <2>4. \A d \in D : \E e \in E : f[e] = d
    BY <1>1
  <2> QED BY <2>1, <2>2, <2>3, <2>4, SumByClass
<1>11. SumOf(q, D) <= SumOf(r, D)
  <2>1. D \in SUBSET (D \cap D)
    OBVIOUS
  <2>2. \A d \in D : q[d] <= r[d]
    BY <1>4, <1>5, <1>9
  <2> QED BY <1>2, <1>5, <1>9, <2>1, <2>2, SumLess
<1>12. ASSUME Regular(E) PROVE SumOf(q, D) = SumOf(r, D)
  <2>1. D \in SUBSET (D \cap D)
    OBVIOUS
  <2>2. \A d \in D : q[d] = r[d]
    BY <1>4, <1>5, <1>9, <1>12
  <2> QED BY <1>2, <1>5, <1>9, <2>1, <2>2, SumAgrees
<1>13. price.available \in BOOLEAN /\ single.available \in BOOLEAN
  BY DEF PriceOfGroups, PriceOfEvents
<1>14. price.available = single.available
  BY <1>8, <1>13
<1>15. price.cost <= single.cost /\ (Regular(E) => price.cost = single.cost)
  BY <1>6, <1>7, <1>10, <1>11, <1>12
<1>16. /\ IsFiniteSet(Reads(E, F)) /\ q \in [Reads(E, F) -> Nat]
       /\ price.cost = SumOf(q, Reads(E, F)) /\ price.available = single.available
       /\ price.cost <= single.cost
       /\ Regular(E) => price.cost = single.cost
  BY <1>2, <1>5, <1>6, <1>14, <1>15 DEF D
<1>17. price = PriceOfGroups(s, PricedGroups(Reads(E, F), tk))
  BY DEF D
<1> HIDE DEF price
<1> QED BY ONLY <1>16, <1>17, Zenon DEF PricedTogether, single

\* Tokens that add up to those of the events need a price when one of these does.
LEMMA RequiredTogether ==
    ASSUME NEW K \in SUBSET PricedRows, IsFiniteSet(K), NEW t, t.input \in Nat, t.output \in Nat,
           t.read \in Nat, t.write \in Nat, RequiresPricing(t) <=> (t.input > 0 \/ t.output > 0 \/ t.read > 0 \/ t.write > 0),
           t.output = SumOf(SegmentOf("output"), K), t.read = SumOf(SegmentOf("read"), K),
           t.write = SumOf(SegmentOf("write"), K), Uncached(t) <= SumOf(UncachedOf, K),
           SumOf(SegmentOf("input"), K) <= Uncached(t) + t.read + t.write,
           Regular(K) => Uncached(t) = SumOf(UncachedOf, K)
    PROVE  GroupFits(t, K)
<1> DEFINE I == SegmentOf("input")
           O == SegmentOf("output")
           R == SegmentOf("read")
           W == SegmentOf("write")
           U == UncachedOf
           ti == t.input
           to == t.output
           tr == t.read
           tw == t.write
           tu == Uncached(t)
<1>0. ti \in Nat /\ to \in Nat /\ tr \in Nat /\ tw \in Nat
  OBVIOUS
<1>1. /\ tu = Positive(Positive(ti) - Positive(tr) - Positive(tw))
  BY DEF Uncached
<1>2. /\ I \in [PricedRows -> Nat] /\ R \in [PricedRows -> Nat] /\ W \in [PricedRows -> Nat]
      /\ O \in [PricedRows -> Nat] /\ U \in [PricedRows -> Nat]
  BY SegmentsTyped DEF Segments4
<1>3. ASSUME NEW e \in K
      PROVE  /\ RequiresPricing(e.kind.tokens) <=> (I[e] > 0 \/ O[e] > 0 \/ R[e] > 0 \/ W[e] > 0)
             /\ U[e] > 0 => I[e] > 0
  <2>0. e \in PricedRows
    OBVIOUS
  <2>1. /\ I[e] = e.kind.tokens.input /\ R[e] = e.kind.tokens.read /\ W[e] = e.kind.tokens.write
        /\ O[e] = e.kind.tokens.output /\ U[e] = Uncached(e.kind.tokens)
    BY <2>0, SegmentsTyped DEF Segments4
  <2>2. I[e] \in Nat /\ R[e] \in Nat /\ W[e] \in Nat
    BY <1>2, <2>0
  <2>3. RequiresPricing(e.kind.tokens) <=> (I[e] > 0 \/ O[e] > 0 \/ R[e] > 0 \/ W[e] > 0)
    BY <2>1 DEF RequiresPricing, Segments4
  <2> DEFINE ei == I[e]
             er == R[e]
             ew == W[e]
             eu == U[e]
  <2>4. eu = Positive(Positive(ei) - Positive(er) - Positive(ew))
    BY <2>1 DEF Uncached
  <2>5. ei \in Nat /\ er \in Nat /\ ew \in Nat
    BY <2>2
  <2> HIDE DEF ei, er, ew, eu
  <2>6. eu > 0 => ei > 0
    BY <2>4, <2>5 DEF Positive
  <2> QED BY <2>3, <2>6 DEF eu, ei
<1> DEFINE si == SumOf(I, K)
           so == SumOf(O, K)
           sr == SumOf(R, K)
           sw == SumOf(W, K)
           su == SumOf(U, K)
<1>4. to = so /\ tr = sr /\ tw = sw /\ tu <= su /\ si <= tu + tr + tw
  OBVIOUS
<1> HIDE DEF I, O, R, W, U
<1>5. /\ si = 0 <=> \A e \in K : I[e] = 0
      /\ so = 0 <=> \A e \in K : O[e] = 0
      /\ sr = 0 <=> \A e \in K : R[e] = 0
      /\ sw = 0 <=> \A e \in K : W[e] = 0
      /\ su = 0 <=> \A e \in K : U[e] = 0
  BY <1>2, SumIsZero
<1>6. si \in Nat /\ so \in Nat /\ sr \in Nat /\ sw \in Nat /\ su \in Nat
  BY <1>2, SumStep
<1>7. \A e \in K : I[e] \in Nat /\ O[e] \in Nat /\ R[e] \in Nat /\ W[e] \in Nat /\ U[e] \in Nat
  BY <1>2
<1>8. RequiresPricing(t) <=> (ti > 0 \/ to > 0 \/ tr > 0 \/ tw > 0)
  OBVIOUS
<1>9. TokensCounted(t) /\ Positive(to) = to /\ Positive(tr) = tr /\ Positive(tw) = tw
  <2> HIDE DEF ti, to, tr, tw, tu
  <2>1. Positive(to) = to /\ Positive(tr) = tr /\ Positive(tw) = tw /\ tu \in Nat
    BY <1>0, <1>1 DEF Positive
  <2>2. Positive(to) \in Nat /\ Positive(tr) \in Nat /\ Positive(tw) \in Nat /\ tu \in Nat
    BY <1>0, <2>1
  <2> QED BY <2>1, <2>2 DEF TokensCounted, to, tr, tw, tu
<1> HIDE DEF si, so, sr, sw, su, ti, to, tr, tw, tu
<1>10. RequiresPricing(t) <=> \E e \in K : RequiresPricing(e.kind.tokens)
  <2>1. RequiresPricing(t) <=> (tu > 0 \/ to > 0 \/ tr > 0 \/ tw > 0)
    BY <1>0, <1>1, <1>8 DEF Positive
  <2>2. tu \in Nat
    BY <1>0, <1>1 DEF Positive
  <2>3. su > 0 => si > 0
    BY <1>3, <1>5, <1>6, <1>7
  <2>4. RequiresPricing(t) <=> ~(si = 0 /\ so = 0 /\ sr = 0 /\ sw = 0)
    BY <1>0, <1>4, <1>6, <2>1, <2>2, <2>3
  <2>5. (si = 0 /\ so = 0 /\ sr = 0 /\ sw = 0) <=> \A e \in K : ~RequiresPricing(e.kind.tokens)
    BY <1>3, <1>5, <1>7
  <2> QED BY <2>4, <2>5
<1> QED BY <1>9, <1>10 DEF GroupFits, to, tr, tw

\* A quota window's groups.
LEMMA WindowFits ==
    ASSUME NEW K \in SUBSET PricedRows, IsFiniteSet(K)
    PROVE  GroupFits(SumTokens(K), K)
<1> DEFINE t == SumTokens(K)
<1>1. /\ t \in [Segments4 -> Nat] /\ Uncached(t) \in Nat /\ Uncached(t) <= SumOf(UncachedOf, K)
      /\ Regular(K) => Uncached(t) = SumOf(UncachedOf, K)
      /\ Positives(Uncached(t), SumOf(SegmentOf("input"), K),
                   SumOf(SegmentOf("read"), K), SumOf(SegmentOf("write"), K))
  BY UncachedTogether
<1>2. /\ t["input"] = SumOf(SegmentOf("input"), K) /\ t["output"] = SumOf(SegmentOf("output"), K)
      /\ t["read"] = SumOf(SegmentOf("read"), K) /\ t["write"] = SumOf(SegmentOf("write"), K)
  BY TokensTogether DEF Segments4
<1> HIDE DEF t
<1>3. t.input \in Nat /\ t.output \in Nat /\ t.read \in Nat /\ t.write \in Nat
  BY <1>1 DEF Segments4
<1>4. RequiresPricing(t) <=> (t.input > 0 \/ t.output > 0 \/ t.read > 0 \/ t.write > 0)
  BY DEF RequiresPricing, Segments4
<1>5. SumOf(SegmentOf("input"), K) <= Uncached(t) + t.read + t.write
  <2> DEFINE u == Uncached(t)
             i == SumOf(SegmentOf("input"), K)
             r == t.read
             w == t.write
  <2>1. u \in Nat /\ i \in Nat /\ r \in Nat /\ w \in Nat /\ Positives(u, i, r, w)
    BY <1>1, <1>2, <1>3
  <2> HIDE DEF u, i, r, w
  <2>2. i <= u + r + w
    BY <2>1 DEF Positives
  <2> QED BY <2>2 DEF u, i, r, w
<1>6. GroupFits(t, K)
  BY <1>1, <1>2, <1>3, <1>4, <1>5, RequiredTogether
<1> QED BY <1>6 DEF t

\* The groups of a quota window have the tokens of their events together.
LEMMA GroupedAre ==
    ASSUME NEW E, NEW F
    PROVE  Grouped(E, F) = PricedGroups(Reads(E, F), [d \in Reads(E, F) |-> SumTokens(Class(E, F, d))])
BY DEF Grouped, PricedGroups, Reads, Class

TotalsOf == [e \in PricedRows |-> e.kind.total]

\* All tokens of some events together: there are any when one of them has any.
LEMMA TotalsTogether ==
    ASSUME NEW K \in SUBSET PricedRows, IsFiniteSet(K)
    PROVE  TotalOf(K) > 0 <=> \E e \in K : e.kind.total > 0
<1> DEFINE g == TotalsOf
           D == SUBSET K
           e(h, x) == IF x = {} THEN 0 ELSE First(x).kind.total + h[x \ {First(x)}]
           w == CHOOSE h : h = [x \in D |-> e(h, x)]
<1>1. TotalOf(K) = w[K]
  BY DEF TotalOf, MapThenSumSet, MapThenFoldSet, First
<1>2. g \in [PricedRows -> Nat] /\ \A x \in PricedRows : g[x] = x.kind.total
  BY PricingAssumption DEF PricingAssumption, PricedRows, TotalsOf
<1> HIDE DEF w, g
<1>3. ASSUME NEW x \in D, x # {} PROVE g[First(x)] = First(x).kind.total
  BY <1>2, <1>3, FirstIsIn
<1>4. ASSUME NEW h PROVE IsSum(g, K, h) <=> h = [x \in D |-> e(h, x)]
  <2> DEFINE d(x) == IF x = {} THEN 0 ELSE g[First(x)] + h[x \ {First(x)}]
  <2>1. \A x \in D : d(x) = e(h, x)
    BY <1>3
  <2>2. IsSum(g, K, h) <=> h = [x \in D |-> d(x)]
    BY DEF IsSum
  <2> HIDE DEF d, e, D
  <2>3. [x \in D |-> d(x)] = [x \in D |-> e(h, x)]
    BY <2>1
  <2> QED BY <2>2, <2>3
<1>5. \E h : IsSum(g, K, h)
  BY <1>2, SumIsThere
<1>6. IsSum(g, K, w)
  <2> HIDE DEF D, e
  <2>1. w = [x \in D |-> e(w, x)]
    BY <1>4, <1>5 DEF w
  <2> QED BY <1>4, <2>1
<1>7. w[K] = SumOf(g, K)
  BY <1>2, <1>6, SumFound
<1>8. SumOf(g, K) \in Nat /\ (SumOf(g, K) = 0 <=> \A x \in K : g[x] = 0)
  BY <1>2, SumStep, SumIsZero
<1>9. \A x \in K : g[x] \in Nat /\ g[x] = x.kind.total
  BY <1>2
<1> QED BY <1>1, <1>7, <1>8, <1>9

\* A window misses a price for the tokens of an event that has no priced model, and
\* for what a page misses.
LEMMA WindowPriced ==
    ASSUME NEW s, Published(s), NEW E \in SUBSET PricedRows, IsFiniteSet(E)
    PROVE  LET price == PriceOfGroups(s, Grouped(E, s.fields))
               window == PriceOfWindow(s, E)
           IN /\ window.cost = price.cost
              /\ window.available <=> /\ price.available
                                      /\ \A e \in E : e.kind.total > 0
                                            => MatchedModel(s, e.kind.dims) # <<>>
<1> DEFINE F == s.fields
           G == Grouped(E, F)
           price == PriceOfGroups(s, G)
           total(g) == TotalOf({e \in E : ReadDims(e.kind.dims, F) = g.dims})
           window == PriceOfWindow(s, E)
<1>1. /\ window.cost = price.cost
      /\ window.available <=> /\ price.available
                              /\ \A g \in G : total(g) > 0 => MatchedModel(s, g.dims) # <<>>
  BY DEF PriceOfWindow
<1>2. /\ \A g \in G : \E e \in E : g.dims = ReadDims(e.kind.dims, F)
      /\ \A e \in E : \E g \in G : g.dims = ReadDims(e.kind.dims, F)
  <2> DEFINE made(d) == [dims |-> d, tokens |-> SumTokens({e \in E : ReadDims(e.kind.dims, F) = d})]
  <2>1. G = {made(d) : d \in {ReadDims(e.kind.dims, F) : e \in E}}
    BY DEF Grouped
  <2>2. \A d : made(d).dims = d
    OBVIOUS
  <2> HIDE DEF made, G
  <2> QED BY <2>1, <2>2
<1> HIDE DEF G, price, window
<1>3. ASSUME NEW g \in G
      PROVE  total(g) > 0 <=> \E e \in E : ReadDims(e.kind.dims, F) = g.dims /\ e.kind.total > 0
  <2> DEFINE K == {e \in E : ReadDims(e.kind.dims, F) = g.dims}
  <2>1. K \in SUBSET E
    OBVIOUS
  <2>2. K \in SUBSET PricedRows /\ IsFiniteSet(K)
    BY <2>1, FS_Subset
  <2>3. \A e : e \in K <=> e \in E /\ ReadDims(e.kind.dims, F) = g.dims
    OBVIOUS
  <2>4. total(g) = TotalOf(K)
    OBVIOUS
  <2> HIDE DEF K, total
  <2>5. TotalOf(K) > 0 <=> \E e \in K : e.kind.total > 0
    BY <2>2, TotalsTogether
  <2> QED BY <2>3, <2>4, <2>5
<1>4. \A e \in E : MatchedModel(s, ReadDims(e.kind.dims, F)) = MatchedModel(s, e.kind.dims)
  BY SameRates
<1> HIDE DEF total, F
<1>5. (\A g \in G : total(g) > 0 => MatchedModel(s, g.dims) # <<>>)
        <=> \A e \in E : e.kind.total > 0 => MatchedModel(s, e.kind.dims) # <<>>
  <2>1. ASSUME \A g \in G : total(g) > 0 => MatchedModel(s, g.dims) # <<>>,
               NEW e \in E, e.kind.total > 0
        PROVE  MatchedModel(s, e.kind.dims) # <<>>
    <3>1. PICK g \in G : g.dims = ReadDims(e.kind.dims, F)
      BY <1>2
    <3> QED BY <1>3, <1>4, <2>1, <3>1
  <2>2. ASSUME \A e \in E : e.kind.total > 0 => MatchedModel(s, e.kind.dims) # <<>>,
               NEW g \in G, total(g) > 0
        PROVE  MatchedModel(s, g.dims) # <<>>
    <3>1. PICK e \in E : ReadDims(e.kind.dims, F) = g.dims /\ e.kind.total > 0
      BY <1>3, <2>2
    <3> QED BY <1>4, <2>2, <3>1
  <2> QED BY <2>1, <2>2
<1> QED BY <1>1, <1>5 DEF window, price, G, F

\* The sums over the rows of an hour: output,
LEMMA OutputSummed ==
    ASSUME NEW S, IsFiniteSet(S), \A r \in S : Positive(r.tokens.output) \in Nat
    PROVE  MapThenSumSet(LAMBDA r : Positive(r.tokens.output), S)
             = SumOf([r \in S |-> Positive(r.tokens.output)], S)
<1> DEFINE g == [r \in S |-> Positive(r.tokens.output)]
           D == SUBSET S
           e(h, x) == IF x = {} THEN 0 ELSE Positive(First(x).tokens.output) + h[x \ {First(x)}]
           w == CHOOSE h : h = [x \in D |-> e(h, x)]
<1>1. MapThenSumSet(LAMBDA r : Positive(r.tokens.output), S) = w[S]
  BY DEF MapThenSumSet, MapThenFoldSet, First
<1>2. g \in [S -> Nat] /\ \A r \in S : g[r] = Positive(r.tokens.output)
  OBVIOUS
<1> HIDE DEF w, g
<1>3. ASSUME NEW x \in D, x # {} PROVE g[First(x)] = Positive(First(x).tokens.output)
  BY <1>2, <1>3, FirstIsIn
<1>4. ASSUME NEW h PROVE IsSum(g, S, h) <=> h = [x \in D |-> e(h, x)]
  <2> DEFINE d(x) == IF x = {} THEN 0 ELSE g[First(x)] + h[x \ {First(x)}]
  <2>1. \A x \in D : d(x) = e(h, x)
    BY <1>3
  <2>2. IsSum(g, S, h) <=> h = [x \in D |-> d(x)]
    BY DEF IsSum
  <2> HIDE DEF d, e, D
  <2>3. [x \in D |-> d(x)] = [x \in D |-> e(h, x)]
    BY <2>1
  <2> QED BY <2>2, <2>3
<1>5. \E h : IsSum(g, S, h)
  BY <1>2, SumIsThere
<1>6. IsSum(g, S, w)
  <2> HIDE DEF D, e
  <2>1. w = [x \in D |-> e(w, x)]
    BY <1>4, <1>5 DEF w
  <2> QED BY <1>4, <2>1
<1>7. w[S] = SumOf(g, S)
  BY <1>2, <1>6, SumFound
<1> QED BY <1>1, <1>7 DEF g

\* what was read from the cache,
LEMMA ReadSummed ==
    ASSUME NEW S, IsFiniteSet(S), \A r \in S : Positive(r.tokens.read) \in Nat
    PROVE  MapThenSumSet(LAMBDA r : Positive(r.tokens.read), S)
             = SumOf([r \in S |-> Positive(r.tokens.read)], S)
<1> DEFINE g == [r \in S |-> Positive(r.tokens.read)]
           D == SUBSET S
           e(h, x) == IF x = {} THEN 0 ELSE Positive(First(x).tokens.read) + h[x \ {First(x)}]
           w == CHOOSE h : h = [x \in D |-> e(h, x)]
<1>1. MapThenSumSet(LAMBDA r : Positive(r.tokens.read), S) = w[S]
  BY DEF MapThenSumSet, MapThenFoldSet, First
<1>2. g \in [S -> Nat] /\ \A r \in S : g[r] = Positive(r.tokens.read)
  OBVIOUS
<1> HIDE DEF w, g
<1>3. ASSUME NEW x \in D, x # {} PROVE g[First(x)] = Positive(First(x).tokens.read)
  BY <1>2, <1>3, FirstIsIn
<1>4. ASSUME NEW h PROVE IsSum(g, S, h) <=> h = [x \in D |-> e(h, x)]
  <2> DEFINE d(x) == IF x = {} THEN 0 ELSE g[First(x)] + h[x \ {First(x)}]
  <2>1. \A x \in D : d(x) = e(h, x)
    BY <1>3
  <2>2. IsSum(g, S, h) <=> h = [x \in D |-> d(x)]
    BY DEF IsSum
  <2> HIDE DEF d, e, D
  <2>3. [x \in D |-> d(x)] = [x \in D |-> e(h, x)]
    BY <2>1
  <2> QED BY <2>2, <2>3
<1>5. \E h : IsSum(g, S, h)
  BY <1>2, SumIsThere
<1>6. IsSum(g, S, w)
  <2> HIDE DEF D, e
  <2>1. w = [x \in D |-> e(w, x)]
    BY <1>4, <1>5 DEF w
  <2> QED BY <1>4, <2>1
<1>7. w[S] = SumOf(g, S)
  BY <1>2, <1>6, SumFound
<1> QED BY <1>1, <1>7 DEF g

\* what was written to it,
LEMMA WriteSummed ==
    ASSUME NEW S, IsFiniteSet(S), \A r \in S : Positive(r.tokens.write) \in Nat
    PROVE  MapThenSumSet(LAMBDA r : Positive(r.tokens.write), S)
             = SumOf([r \in S |-> Positive(r.tokens.write)], S)
<1> DEFINE g == [r \in S |-> Positive(r.tokens.write)]
           D == SUBSET S
           e(h, x) == IF x = {} THEN 0 ELSE Positive(First(x).tokens.write) + h[x \ {First(x)}]
           w == CHOOSE h : h = [x \in D |-> e(h, x)]
<1>1. MapThenSumSet(LAMBDA r : Positive(r.tokens.write), S) = w[S]
  BY DEF MapThenSumSet, MapThenFoldSet, First
<1>2. g \in [S -> Nat] /\ \A r \in S : g[r] = Positive(r.tokens.write)
  OBVIOUS
<1> HIDE DEF w, g
<1>3. ASSUME NEW x \in D, x # {} PROVE g[First(x)] = Positive(First(x).tokens.write)
  BY <1>2, <1>3, FirstIsIn
<1>4. ASSUME NEW h PROVE IsSum(g, S, h) <=> h = [x \in D |-> e(h, x)]
  <2> DEFINE d(x) == IF x = {} THEN 0 ELSE g[First(x)] + h[x \ {First(x)}]
  <2>1. \A x \in D : d(x) = e(h, x)
    BY <1>3
  <2>2. IsSum(g, S, h) <=> h = [x \in D |-> d(x)]
    BY DEF IsSum
  <2> HIDE DEF d, e, D
  <2>3. [x \in D |-> d(x)] = [x \in D |-> e(h, x)]
    BY <2>1
  <2> QED BY <2>2, <2>3
<1>5. \E h : IsSum(g, S, h)
  BY <1>2, SumIsThere
<1>6. IsSum(g, S, w)
  <2> HIDE DEF D, e
  <2>1. w = [x \in D |-> e(w, x)]
    BY <1>4, <1>5 DEF w
  <2> QED BY <1>4, <2>1
<1>7. w[S] = SumOf(g, S)
  BY <1>2, <1>6, SumFound
<1> QED BY <1>1, <1>7 DEF g

\* and the input, which is not cached or one of these.
LEMMA InputSummed ==
    ASSUME NEW S, IsFiniteSet(S), \A r \in S : Uncached(r.tokens) + Positive(r.tokens.read) + Positive(r.tokens.write) \in Nat
    PROVE  MapThenSumSet(LAMBDA r : Uncached(r.tokens) + Positive(r.tokens.read) + Positive(r.tokens.write), S)
             = SumOf([r \in S |-> Uncached(r.tokens) + Positive(r.tokens.read) + Positive(r.tokens.write)], S)
<1> DEFINE g == [r \in S |-> Uncached(r.tokens) + Positive(r.tokens.read) + Positive(r.tokens.write)]
           D == SUBSET S
           e(h, x) == IF x = {} THEN 0 ELSE Uncached(First(x).tokens) + Positive(First(x).tokens.read) + Positive(First(x).tokens.write) + h[x \ {First(x)}]
           w == CHOOSE h : h = [x \in D |-> e(h, x)]
<1>1. MapThenSumSet(LAMBDA r : Uncached(r.tokens) + Positive(r.tokens.read) + Positive(r.tokens.write), S) = w[S]
  BY DEF MapThenSumSet, MapThenFoldSet, First
<1>2. g \in [S -> Nat] /\ \A r \in S : g[r] = Uncached(r.tokens) + Positive(r.tokens.read) + Positive(r.tokens.write)
  OBVIOUS
<1> HIDE DEF w, g
<1>3. ASSUME NEW x \in D, x # {} PROVE g[First(x)] = Uncached(First(x).tokens) + Positive(First(x).tokens.read) + Positive(First(x).tokens.write)
  BY <1>2, <1>3, FirstIsIn
<1>4. ASSUME NEW h PROVE IsSum(g, S, h) <=> h = [x \in D |-> e(h, x)]
  <2> DEFINE d(x) == IF x = {} THEN 0 ELSE g[First(x)] + h[x \ {First(x)}]
  <2>1. \A x \in D : d(x) = e(h, x)
    BY <1>3
  <2>2. IsSum(g, S, h) <=> h = [x \in D |-> d(x)]
    BY DEF IsSum
  <2> HIDE DEF d, e, D
  <2>3. [x \in D |-> d(x)] = [x \in D |-> e(h, x)]
    BY <2>1
  <2> QED BY <2>2, <2>3
<1>5. \E h : IsSum(g, S, h)
  BY <1>2, SumIsThere
<1>6. IsSum(g, S, w)
  <2> HIDE DEF D, e
  <2>1. w = [x \in D |-> e(w, x)]
    BY <1>4, <1>5 DEF w
  <2> QED BY <1>4, <2>1
<1>7. w[S] = SumOf(g, S)
  BY <1>2, <1>6, SumFound
<1> QED BY <1>1, <1>7 DEF g

RowsOf(rows, F, d) == {r \in rows : ReadDims(r.dims, F) = d}
RowSums(S) ==
    [output |-> SumOf([r \in S |-> Positive(r.tokens.output)], S),
     read |-> SumOf([r \in S |-> Positive(r.tokens.read)], S),
     write |-> SumOf([r \in S |-> Positive(r.tokens.write)], S),
     input |-> SumOf([r \in S |-> Uncached(r.tokens) + Positive(r.tokens.read) + Positive(r.tokens.write)], S)]

\* The groups of a page.
LEMMA ProjectedAre ==
    ASSUME NEW rows, IsFiniteSet(rows), \A r \in rows : TokensCounted(r.tokens), NEW F,
           NEW D, D = {ReadDims(r.dims, F) : r \in rows}
    PROVE  Projected(rows, F) = PricedGroups(D, [d \in D |-> RowSums(RowsOf(rows, F, d))])
<1> DEFINE S(d) == RowsOf(rows, F, d)
           k(d) == [output |-> MapThenSumSet(LAMBDA r : Positive(r.tokens.output), S(d)),
                    read |-> MapThenSumSet(LAMBDA r : Positive(r.tokens.read), S(d)),
                    write |-> MapThenSumSet(LAMBDA r : Positive(r.tokens.write), S(d)),
                    input |-> MapThenSumSet(LAMBDA r : Uncached(r.tokens) + Positive(r.tokens.read)
                                                         + Positive(r.tokens.write), S(d))]
<1>1. Projected(rows, F) = {[dims |-> d, tokens |-> k(d)] : d \in D}
  BY DEF Projected, RowsOf
<1>2. ASSUME NEW d \in D PROVE k(d) = RowSums(S(d))
  <2> DEFINE T == S(d)
  <2>1. IsFiniteSet(T) /\ \A r \in T : TokensCounted(r.tokens)
    BY FS_Subset DEF RowsOf
  <2> HIDE DEF T
  <2>2. \A r \in T : /\ Positive(r.tokens.output) \in Nat /\ Positive(r.tokens.read) \in Nat
                     /\ Positive(r.tokens.write) \in Nat
                     /\ Uncached(r.tokens) + Positive(r.tokens.read) + Positive(r.tokens.write) \in Nat
    BY <2>1 DEF TokensCounted
  <2>3. MapThenSumSet(LAMBDA r : Positive(r.tokens.output), T) = SumOf([r \in T |-> Positive(r.tokens.output)], T)
    BY <2>1, <2>2, OutputSummed
  <2>4. MapThenSumSet(LAMBDA r : Positive(r.tokens.read), T) = SumOf([r \in T |-> Positive(r.tokens.read)], T)
    BY <2>1, <2>2, ReadSummed
  <2>5. MapThenSumSet(LAMBDA r : Positive(r.tokens.write), T) = SumOf([r \in T |-> Positive(r.tokens.write)], T)
    BY <2>1, <2>2, WriteSummed
  <2>6. MapThenSumSet(LAMBDA r : Uncached(r.tokens) + Positive(r.tokens.read) + Positive(r.tokens.write), T)
          = SumOf([r \in T |-> Uncached(r.tokens) + Positive(r.tokens.read) + Positive(r.tokens.write)], T)
    BY <2>1, <2>2, InputSummed
  <2> QED BY <2>3, <2>4, <2>5, <2>6 DEF RowSums, T
<1> DEFINE tk == [d \in D |-> RowSums(S(d))]
<1>3. PricedGroups(D, tk) = {[dims |-> d, tokens |-> tk[d]] : d \in D}
  BY DEF PricedGroups
<1>4. \A d \in D : tk[d] = k(d)
  BY <1>2
<1> HIDE DEF tk, k
<1>5. {[dims |-> d, tokens |-> tk[d]] : d \in D} = {[dims |-> d, tokens |-> k(d)] : d \in D}
  BY <1>4
<1> QED BY <1>1, <1>3, <1>5 DEF tk

RowFor(E, e) == LET h == ReadDims(e.kind.dims, RuleFields)
                IN [dims |-> h, tokens |-> SumTokens(Class(E, RuleFields, h))]

\* Each event is in one row of its hour.
LEMMA RowsAre ==
    ASSUME NEW E \in SUBSET PricedRows, IsFiniteSet(E)
    PROVE  /\ IsFiniteSet(HourlyRows(E))
           /\ \A e \in E : RowFor(E, e) \in HourlyRows(E) /\ RowFor(E, e).dims = ReadDims(e.kind.dims, RuleFields)
           /\ \A r \in HourlyRows(E) : /\ r.tokens = SumTokens(Class(E, RuleFields, r.dims))
                                       /\ \E e \in E : r = RowFor(E, e)
                                       /\ Class(E, RuleFields, r.dims) = {e \in E : RowFor(E, e) = r}
<1> DEFINE R == HourlyRows(E)
           D == Reads(E, RuleFields)
           z == [e \in E |-> RowFor(E, e)]
<1>1. R = {[dims |-> h, tokens |-> SumTokens(Class(E, RuleFields, h))] : h \in D}
  BY DEF HourlyRows, Grouped, Reads, Class
<1>2. ASSUME NEW e \in E PROVE RowFor(E, e) \in R /\ RowFor(E, e).dims = ReadDims(e.kind.dims, RuleFields)
  <2>1. ReadDims(e.kind.dims, RuleFields) \in D
    BY DEF Reads
  <2> QED BY <1>1, <2>1 DEF RowFor
<1>3. ASSUME NEW r \in R
      PROVE  /\ r.tokens = SumTokens(Class(E, RuleFields, r.dims))
             /\ \E e \in E : r = RowFor(E, e)
  <2>1. PICK h \in D : r = [dims |-> h, tokens |-> SumTokens(Class(E, RuleFields, h))]
    BY <1>1
  <2>2. PICK e \in E : h = ReadDims(e.kind.dims, RuleFields)
    BY DEF Reads
  <2>3. r = RowFor(E, e)
    BY <2>1, <2>2 DEF RowFor
  <2> QED BY <2>1, <2>3
<1> HIDE DEF R
<1>4. ASSUME NEW r \in R PROVE Class(E, RuleFields, r.dims) = {e \in E : RowFor(E, e) = r}
  <2>1. PICK x \in E : r = RowFor(E, x)
    BY <1>3
  <2>2. ASSUME NEW e \in E PROVE ReadDims(e.kind.dims, RuleFields) = r.dims <=> RowFor(E, e) = r
    <3>1. RowFor(E, x).dims = ReadDims(x.kind.dims, RuleFields)
      BY <1>2
    <3>2. RowFor(E, e).dims = ReadDims(e.kind.dims, RuleFields)
      BY <1>2
    <3>3. ReadDims(e.kind.dims, RuleFields) = ReadDims(x.kind.dims, RuleFields) => RowFor(E, e) = RowFor(E, x)
      BY DEF RowFor
    <3> QED BY <2>1, <3>1, <3>2, <3>3
  <2> QED BY <2>2 DEF Class
<1>5. z \in Surjection(E, R)
  <2>1. z \in [E -> R] /\ \A r \in R : \E e \in E : z[e] = r
    BY <1>2, <1>3
  <2> QED BY <2>1 DEF Surjection
<1>6. IsFiniteSet(R)
  BY <1>5, FS_Surjection
<1> QED BY <1>2, <1>3, <1>4, <1>6 DEF R

\* What is summed up in rows and then by page is what is summed up at once.
LEMMA RowsSummed ==
    ASSUME NEW E \in SUBSET PricedRows, IsFiniteSet(E), NEW F, NEW d,
           NEW c \in [PricedRows -> Nat], NEW v \in [RowsOf(HourlyRows(E), F, d) -> Nat],
           \A r \in RowsOf(HourlyRows(E), F, d) : v[r] = SumOf(c, Class(E, RuleFields, r.dims))
    PROVE  SumOf(v, RowsOf(HourlyRows(E), F, d)) = SumOf(c, Class(E, F, d))
<1> DEFINE S == RowsOf(HourlyRows(E), F, d)
           K == Class(E, F, d)
           g == [e \in K |-> RowFor(E, e)]
<1>1. ASSUME NEW e \in E PROVE e \in K <=> RowFor(E, e) \in S
  <2>1. RowFor(E, e) \in HourlyRows(E) /\ RowFor(E, e).dims = ReadDims(e.kind.dims, RuleFields)
    BY RowsAre
  <2>2. ReadDims(ReadDims(e.kind.dims, RuleFields), F) = ReadDims(e.kind.dims, F)
    BY ReadTwice
  <2> QED BY <2>1, <2>2 DEF RowsOf, Class
<1>2. K \in SUBSET E /\ S \in SUBSET HourlyRows(E)
  BY DEF Class, RowsOf
<1>3. ASSUME NEW r \in S
      PROVE  /\ \E e \in K : g[e] = r
             /\ Class(E, RuleFields, r.dims) = {e \in K : g[e] = r}
  <2>1. r \in HourlyRows(E)
    BY <1>2
  <2>2. (\E e \in E : r = RowFor(E, e)) /\ Class(E, RuleFields, r.dims) = {e \in E : RowFor(E, e) = r}
    BY <2>1, RowsAre
  <2> HIDE DEF K, S
  <2> QED BY <1>1, <1>2, <2>2
<1> HIDE DEF K, S
<1>4. g \in [K -> S] /\ \A r \in S : \E e \in K : g[e] = r
  BY <1>1, <1>2, <1>3
<1> HIDE DEF g
<1>5. \A r \in S : v[r] = SumOf(c, {e \in K : g[e] = r})
  BY <1>3 DEF S
<1>6. v \in [S -> Nat]
  BY DEF S
<1>7. K \in SUBSET PricedRows /\ IsFiniteSet(K)
  BY <1>2, FS_Subset
<1>8. SumOf(v, S) = SumOf(c, K)
  <2>1. g \in [K -> S]
    BY <1>4
  <2>2. \A r \in S : \E e \in K : g[e] = r
    BY <1>4
  <2>3. K \in SUBSET PricedRows
    BY <1>7
  <2>4. IsFiniteSet(K)
    BY <1>7
  <2>5. c \in [PricedRows -> Nat]
    OBVIOUS
  <2> QED BY ONLY <1>5, <1>6, <2>1, <2>2, <2>3, <2>4, <2>5, SumByClass
<1> QED BY <1>8 DEF S, K

\* The groups of a page have the tokens of their events; what is not cached is summed
\* up row by row, so that it is no less than that of a quota window's groups.
LEMMA PageFits ==
    ASSUME NEW E \in SUBSET PricedRows, IsFiniteSet(E), NEW F, NEW d
    PROVE  /\ GroupFits(RowSums(RowsOf(HourlyRows(E), F, d)), Class(E, F, d))
           /\ Uncached(SumTokens(Class(E, F, d))) <= Uncached(RowSums(RowsOf(HourlyRows(E), F, d)))
           /\ \A r \in HourlyRows(E) : TokensCounted(r.tokens)
<1> DEFINE S == RowsOf(HourlyRows(E), F, d)
           K == Class(E, F, d)
           t == RowSums(S)
           part(r) == Class(E, RuleFields, r.dims)
           I == SegmentOf("input")
           O == SegmentOf("output")
           R == SegmentOf("read")
           W == SegmentOf("write")
           U == UncachedOf
           vi == [r \in S |-> SumOf(I, part(r))]
           vo == [r \in S |-> Positive(r.tokens.output)]
           vr == [r \in S |-> Positive(r.tokens.read)]
           vw == [r \in S |-> Positive(r.tokens.write)]
           vu == [r \in S |-> Uncached(r.tokens)]
           vU == [r \in S |-> SumOf(U, part(r))]
           vt == [r \in S |-> Uncached(r.tokens) + Positive(r.tokens.read) + Positive(r.tokens.write)]
<1>1. /\ I \in [PricedRows -> Nat] /\ R \in [PricedRows -> Nat] /\ W \in [PricedRows -> Nat]
      /\ O \in [PricedRows -> Nat] /\ U \in [PricedRows -> Nat]
  BY SegmentsTyped DEF Segments4
<1>2. ASSUME NEW r \in HourlyRows(E)
      PROVE  /\ part(r) \in SUBSET PricedRows /\ part(r) \in SUBSET E /\ IsFiniteSet(part(r))
             /\ GroupFits(r.tokens, part(r))
             /\ SumOf(I, part(r)) \in Nat /\ SumOf(U, part(r)) \in Nat
             /\ SumOf(I, part(r)) <= Uncached(r.tokens) + Positive(r.tokens.read) + Positive(r.tokens.write)
  <2> DEFINE P == part(r)
  <2>1. P \in SUBSET E
    BY DEF Class
  <2>2. P \in SUBSET PricedRows /\ IsFiniteSet(P)
    BY <2>1, FS_Subset
  <2>3. r.tokens = SumTokens(P)
    BY RowsAre
  <2> HIDE DEF P
  <2>4. GroupFits(r.tokens, P)
    BY <2>2, <2>3, WindowFits
  <2>5. Positives(Uncached(r.tokens), SumOf(I, P), SumOf(R, P), SumOf(W, P))
    BY <2>2, <2>3, UncachedTogether
  <2>6. SumOf(I, P) \in Nat /\ SumOf(U, P) \in Nat /\ SumOf(R, P) \in Nat /\ SumOf(W, P) \in Nat
    BY <1>1, <2>2, SumStep
  <2>7. Positive(r.tokens.read) = SumOf(R, P) /\ Positive(r.tokens.write) = SumOf(W, P) /\ Uncached(r.tokens) \in Nat
    BY <2>4 DEF GroupFits, TokensCounted
  <2> DEFINE i == SumOf(I, P)
             a == SumOf(R, P)
             b == SumOf(W, P)
             u == Uncached(r.tokens)
  <2>8. i \in Nat /\ a \in Nat /\ b \in Nat /\ u \in Nat /\ Positives(u, i, a, b)
    BY <2>5, <2>6, <2>7
  <2> HIDE DEF i, a, b, u
  <2>9. i <= u + a + b
    BY <2>8 DEF Positives
  <2> QED BY <2>1, <2>2, <2>4, <2>6, <2>7, <2>9 DEF P, i, a, b, u
<1>3. ASSUME NEW r \in HourlyRows(E)
      PROVE  /\ TokensCounted(r.tokens)
             /\ Positive(r.tokens.output) = SumOf(O, part(r)) /\ Positive(r.tokens.read) = SumOf(R, part(r))
             /\ Positive(r.tokens.write) = SumOf(W, part(r))
             /\ Uncached(r.tokens) <= SumOf(U, part(r))
             /\ Regular(part(r)) => Uncached(r.tokens) = SumOf(U, part(r))
             /\ Uncached(r.tokens) \in Nat /\ Positive(r.tokens.output) \in Nat
             /\ Positive(r.tokens.read) \in Nat /\ Positive(r.tokens.write) \in Nat
  <2>1. GroupFits(r.tokens, part(r))
    BY <1>2
  <2> QED BY <2>1 DEF GroupFits, TokensCounted
<1>4. S \in SUBSET HourlyRows(E) /\ IsFiniteSet(S)
  <2>1. S \in SUBSET HourlyRows(E)
    BY DEF RowsOf
  <2> QED BY <2>1, RowsAre, FS_Subset
<1>5. K \in SUBSET E /\ K \in SUBSET PricedRows /\ IsFiniteSet(K)
  <2>1. K \in SUBSET E
    BY DEF Class
  <2> QED BY <2>1, FS_Subset
<1> HIDE DEF I, O, R, W, U, part
<1>6. /\ t.output = SumOf(vo, S) /\ t.read = SumOf(vr, S) /\ t.write = SumOf(vw, S) /\ t.input = SumOf(vt, S)
      /\ t = [output |-> t.output, read |-> t.read, write |-> t.write, input |-> t.input]
  BY DEF RowSums
<1>7. /\ vo \in [S -> Nat] /\ \A r \in S : vo[r] = SumOf(O, part(r))
      /\ vr \in [S -> Nat] /\ \A r \in S : vr[r] = SumOf(R, part(r)) /\ vr[r] = Positive(r.tokens.read)
      /\ vw \in [S -> Nat] /\ \A r \in S : vw[r] = SumOf(W, part(r)) /\ vw[r] = Positive(r.tokens.write)
      /\ vi \in [S -> Nat] /\ \A r \in S : vi[r] = SumOf(I, part(r))
      /\ vU \in [S -> Nat] /\ \A r \in S : vU[r] = SumOf(U, part(r))
      /\ vu \in [S -> Nat] /\ \A r \in S : vu[r] = Uncached(r.tokens)
  <2> HIDE DEF S
  <2> QED BY <1>2, <1>3, <1>4
<1>8. vt \in [S -> Nat] /\ \A r \in S : vt[r] = vu[r] + vr[r] + vw[r]
  <2> HIDE DEF S
  <2> QED BY <1>3, <1>4
<1>p. ASSUME NEW r \in S
      PROVE  /\ vi[r] <= vt[r] /\ vu[r] <= vU[r] /\ (Regular(K) => vu[r] = vU[r])
  <2>1. r \in HourlyRows(E) /\ ReadDims(r.dims, F) = d
    BY DEF RowsOf
  <2>2. vi[r] <= vt[r]
    BY <1>2, <1>7, <2>1
  <2>3. vu[r] <= vU[r] /\ (Regular(part(r)) => vu[r] = vU[r])
    BY <1>3, <1>7, <2>1
  <2>4. \A e \in part(r) : e \in K
    <3> TAKE e \in part(r)
    <3>1. e \in E /\ ReadDims(e.kind.dims, RuleFields) = r.dims
      BY DEF part, Class
    <3>2. ReadDims(e.kind.dims, F) = d
      BY <2>1, <3>1, ReadTwice
    <3> QED BY <3>1, <3>2 DEF Class
  <2>5. Regular(K) => Regular(part(r))
    BY <2>4 DEF Regular
  <2> QED BY <2>2, <2>3, <2>5
<1> HIDE DEF t, vo, vr, vw, vi, vU, vu, vt
<1>9. /\ SumOf(vo, S) = SumOf(O, K) /\ SumOf(vr, S) = SumOf(R, K) /\ SumOf(vw, S) = SumOf(W, K)
      /\ SumOf(vi, S) = SumOf(I, K) /\ SumOf(vU, S) = SumOf(U, K)
  <2>1. SumOf(vo, S) = SumOf(O, K)
    <3>1. O \in [PricedRows -> Nat] /\ vo \in [RowsOf(HourlyRows(E), F, d) -> Nat]
      BY <1>1, <1>7
    <3>2. \A r \in RowsOf(HourlyRows(E), F, d) : vo[r] = SumOf(O, Class(E, RuleFields, r.dims))
      BY <1>7 DEF part
    <3> QED BY <3>1, <3>2, RowsSummed
  <2>2. SumOf(vr, S) = SumOf(R, K)
    <3>1. R \in [PricedRows -> Nat] /\ vr \in [RowsOf(HourlyRows(E), F, d) -> Nat]
      BY <1>1, <1>7
    <3>2. \A r \in RowsOf(HourlyRows(E), F, d) : vr[r] = SumOf(R, Class(E, RuleFields, r.dims))
      BY <1>7 DEF part
    <3> QED BY <3>1, <3>2, RowsSummed
  <2>3. SumOf(vw, S) = SumOf(W, K)
    <3>1. W \in [PricedRows -> Nat] /\ vw \in [RowsOf(HourlyRows(E), F, d) -> Nat]
      BY <1>1, <1>7
    <3>2. \A r \in RowsOf(HourlyRows(E), F, d) : vw[r] = SumOf(W, Class(E, RuleFields, r.dims))
      BY <1>7 DEF part
    <3> QED BY <3>1, <3>2, RowsSummed
  <2>4. SumOf(vi, S) = SumOf(I, K)
    <3>1. I \in [PricedRows -> Nat] /\ vi \in [RowsOf(HourlyRows(E), F, d) -> Nat]
      BY <1>1, <1>7
    <3>2. \A r \in RowsOf(HourlyRows(E), F, d) : vi[r] = SumOf(I, Class(E, RuleFields, r.dims))
      BY <1>7 DEF part
    <3> QED BY <3>1, <3>2, RowsSummed
  <2>5. SumOf(vU, S) = SumOf(U, K)
    <3>1. U \in [PricedRows -> Nat] /\ vU \in [RowsOf(HourlyRows(E), F, d) -> Nat]
      BY <1>1, <1>7
    <3>2. \A r \in RowsOf(HourlyRows(E), F, d) : vU[r] = SumOf(U, Class(E, RuleFields, r.dims))
      BY <1>7 DEF part
    <3> QED BY <3>1, <3>2, RowsSummed
  <2> QED BY <2>1, <2>2, <2>3, <2>4, <2>5
<1> HIDE DEF S
<1>10. S \in SUBSET S /\ S \in SUBSET (S \cap S)
  OBVIOUS
<1> DEFINE va == [r \in S |-> vu[r] + vr[r]]
<1>11. va \in [S -> Nat] /\ \A r \in S : va[r] = vu[r] + vr[r]
  BY <1>7
<1> HIDE DEF va
<1>12. SumOf(va, S) = SumOf(vu, S) + SumOf(vr, S)
  <2>1. vu \in [S -> Nat] /\ vr \in [S -> Nat] /\ va \in [S -> Nat]
    BY <1>7, <1>11
  <2>2. \A r \in S : va[r] = vu[r] + vr[r]
    BY <1>11
  <2> QED BY <1>4, <1>10, <2>1, <2>2, SumPlus
<1>13. SumOf(vt, S) = SumOf(va, S) + SumOf(vw, S)
  <2>1. va \in [S -> Nat] /\ vw \in [S -> Nat] /\ vt \in [S -> Nat]
    BY <1>7, <1>8, <1>11
  <2>2. \A r \in S : vt[r] = va[r] + vw[r]
    BY <1>8, <1>11
  <2> QED BY <1>4, <1>10, <2>1, <2>2, SumPlus
<1>14. SumOf(vi, S) <= SumOf(vt, S)
  <2>1. vi \in [S -> Nat] /\ vt \in [S -> Nat] /\ \A r \in S : vi[r] <= vt[r]
    BY <1>7, <1>8, <1>p
  <2> QED BY <1>4, <1>10, <2>1, SumLess
<1>15. SumOf(vu, S) <= SumOf(vU, S)
  <2>1. vu \in [S -> Nat] /\ vU \in [S -> Nat] /\ \A r \in S : vu[r] <= vU[r]
    BY <1>7, <1>p
  <2> QED BY <1>4, <1>10, <2>1, SumLess
<1>16. ASSUME Regular(K) PROVE SumOf(vu, S) = SumOf(vU, S)
  <2>1. vu \in [S -> Nat] /\ vU \in [S -> Nat]
    BY <1>7
  <2>2. \A r \in S : vu[r] = vU[r]
    BY <1>p, <1>16
  <2> QED BY <1>4, <1>10, <2>1, <2>2, SumAgrees
<1> DEFINE si == SumOf(I, K)
           so == SumOf(O, K)
           sr == SumOf(R, K)
           sw == SumOf(W, K)
           sU == SumOf(U, K)
           su == SumOf(vu, S)
<1>17. si \in Nat /\ so \in Nat /\ sr \in Nat /\ sw \in Nat /\ sU \in Nat
  BY <1>1, <1>5, SumStep
<1>18. su \in Nat
  BY <1>4, <1>7, <1>10, SumStep
<1>19. /\ t.output = so /\ t.read = sr /\ t.write = sw /\ t.input = su + sr + sw
       /\ si <= su + sr + sw /\ su <= sU /\ (Regular(K) => su = sU)
  BY <1>6, <1>9, <1>12, <1>13, <1>14, <1>15, <1>16
<1> HIDE DEF si, so, sr, sw, sU, su
<1>20. Uncached(t) = su
  <2>1. Uncached(t) = Positive(Positive(su + sr + sw) - Positive(sr) - Positive(sw))
    BY <1>19 DEF Uncached
  <2> QED BY <1>17, <1>18, <2>1 DEF Positive
<1>21. RequiresPricing(t) <=> (t.input > 0 \/ t.output > 0 \/ t.read > 0 \/ t.write > 0)
  BY DEF RequiresPricing, Segments4
<1>22. t.input \in Nat /\ t.output \in Nat /\ t.read \in Nat /\ t.write \in Nat
  BY <1>17, <1>18, <1>19
<1>23. GroupFits(t, K)
  <2>1. /\ t.output = SumOf(SegmentOf("output"), K) /\ t.read = SumOf(SegmentOf("read"), K)
        /\ t.write = SumOf(SegmentOf("write"), K)
    BY <1>19 DEF so, sr, sw, O, R, W
  <2>2. /\ Uncached(t) <= SumOf(UncachedOf, K)
        /\ Regular(K) => Uncached(t) = SumOf(UncachedOf, K)
    BY <1>19, <1>20 DEF sU, U
  <2>3. SumOf(SegmentOf("input"), K) <= Uncached(t) + t.read + t.write
    BY <1>19, <1>20 DEF si, I
  <2> QED BY <1>5, <1>21, <1>22, <2>1, <2>2, <2>3, RequiredTogether
<1>24. Uncached(SumTokens(K)) <= Uncached(t)
  <2>1. Positives(Uncached(SumTokens(K)), si, sr, sw)
    BY <1>5, UncachedTogether DEF si, sr, sw, I, R, W
  <2> DEFINE u == Uncached(SumTokens(K))
  <2> HIDE DEF u
  <2>2. u <= su
    BY <1>17, <1>18, <1>19, <2>1 DEF Positives, u
  <2> QED BY <1>20, <2>2 DEF u
<1> QED BY <1>3, <1>23, <1>24 DEF t, S

\* A page shows what its events cost at the prices it has started with.
LEMMA PagesPriced ==
    ASSUME NEW s, Published(s), NEW E \in SUBSET PricedRows, IsFiniteSet(E)
    PROVE  LET page == PriceOfGroups(s, Projected(HourlyRows(E), s.fields))
               window == PriceOfGroups(s, Grouped(E, s.fields))
               single == PriceOfEvents(s, E)
           IN /\ page.available = single.available /\ window.available = single.available
              /\ Regular(E) => page.cost = single.cost /\ window.cost = single.cost
              /\ window.cost <= page.cost /\ page.cost <= single.cost
<1> DEFINE F == s.fields
           D == Reads(E, F)
           R == HourlyRows(E)
           pk == [d \in D |-> RowSums(RowsOf(R, F, d))]
           wk == [d \in D |-> SumTokens(Class(E, F, d))]
           pq == [d \in D |-> Calculate(s, d, pk[d]).cost]
           wq == [d \in D |-> Calculate(s, d, wk[d]).cost]
           page == PriceOfGroups(s, PricedGroups(D, pk))
           window == PriceOfGroups(s, PricedGroups(D, wk))
           single == PriceOfEvents(s, E)
<1>1. Grouped(E, F) = PricedGroups(D, wk)
  BY GroupedAre
<1>2. Projected(R, F) = PricedGroups(D, pk)
  <2>1. IsFiniteSet(R)
    BY RowsAre
  <2>2. \A r \in R : TokensCounted(r.tokens)
    BY PageFits
  <2>3. D = {ReadDims(r.dims, F) : r \in R}
    <3>1. ASSUME NEW e \in E PROVE \E r \in R : ReadDims(r.dims, F) = ReadDims(e.kind.dims, F)
      <4>1. RowFor(E, e) \in R /\ RowFor(E, e).dims = ReadDims(e.kind.dims, RuleFields)
        BY RowsAre
      <4> QED BY <4>1, ReadTwice
    <3>2. ASSUME NEW r \in R PROVE \E e \in E : ReadDims(r.dims, F) = ReadDims(e.kind.dims, F)
      <4>1. PICK e \in E : r = RowFor(E, e)
        BY RowsAre
      <4>2. r.dims = ReadDims(e.kind.dims, RuleFields)
        BY <4>1, RowsAre
      <4> QED BY <4>2, ReadTwice
    <3> HIDE DEF R
    <3> QED BY <3>1, <3>2 DEF Reads
  <2> HIDE DEF R, F, D
  <2> QED BY <2>1, <2>2, <2>3, ProjectedAre
<1> HIDE DEF R, F
<1>3. ASSUME NEW d \in D
      PROVE  /\ pk[d] = RowSums(RowsOf(R, F, d)) /\ wk[d] = SumTokens(Class(E, F, d))
             /\ GroupFits(pk[d], Class(E, F, d)) /\ GroupFits(wk[d], Class(E, F, d))
             /\ Uncached(wk[d]) <= Uncached(pk[d])
             /\ pq[d] = Calculate(s, d, pk[d]).cost /\ wq[d] = Calculate(s, d, wk[d]).cost
  <2>1. pk[d] = RowSums(RowsOf(R, F, d)) /\ wk[d] = SumTokens(Class(E, F, d))
    OBVIOUS
  <2>2. pq[d] = Calculate(s, d, pk[d]).cost /\ wq[d] = Calculate(s, d, wk[d]).cost
    OBVIOUS
  <2> HIDE DEF pk, wk, pq, wq, D
  <2>3. GroupFits(pk[d], Class(E, F, d)) /\ Uncached(wk[d]) <= Uncached(pk[d])
    BY <2>1, PageFits DEF R
  <2>4. Class(E, F, d) \in SUBSET PricedRows /\ IsFiniteSet(Class(E, F, d))
    <3>1. Class(E, F, d) \in SUBSET E
      BY DEF Class
    <3> QED BY <3>1, FS_Subset
  <2>5. GroupFits(wk[d], Class(E, F, d))
    BY <2>1, <2>4, WindowFits
  <2> QED BY <2>1, <2>2, <2>3, <2>5
<1>4. pq = [d \in Reads(E, F) |-> pq[d]] /\ wq = [d \in Reads(E, F) |-> wq[d]]
  OBVIOUS
<1>5. s.fields \subseteq F
  BY DEF F
<1> HIDE DEF pk, wk, pq, wq
<1>6. /\ IsFiniteSet(D) /\ pq \in [D -> Nat] /\ page.cost = SumOf(pq, D)
      /\ page.available = single.available
      /\ page.cost <= single.cost
      /\ Regular(E) => page.cost = single.cost
  <2>1. \A d \in Reads(E, F) : GroupFits(pk[d], Class(E, F, d))
    BY <1>3
  <2>2. \A d \in Reads(E, F) : pq[d] = Calculate(s, d, pk[d]).cost
    BY <1>3
  <2>3. Published(s) /\ E \in SUBSET PricedRows /\ IsFiniteSet(E)
    OBVIOUS
  <2>4. pq = [d \in Reads(E, F) |-> pq[d]]
    BY <1>4
  <2>5. PricedTogether(s, E, F, pk, pq)
    BY ONLY <1>5, <2>1, <2>2, <2>3, <2>4, GroupsPriced, Zenon
  <2> QED BY ONLY <2>5 DEF PricedTogether
<1>7. /\ wq \in [D -> Nat] /\ window.cost = SumOf(wq, D)
      /\ window.available = single.available
      /\ Regular(E) => window.cost = single.cost
  <2>1. \A d \in Reads(E, F) : GroupFits(wk[d], Class(E, F, d))
    BY <1>3
  <2>2. \A d \in Reads(E, F) : wq[d] = Calculate(s, d, wk[d]).cost
    BY <1>3
  <2>3. Published(s) /\ E \in SUBSET PricedRows /\ IsFiniteSet(E)
    OBVIOUS
  <2>4. wq = [d \in Reads(E, F) |-> wq[d]]
    BY <1>4
  <2>5. PricedTogether(s, E, F, wk, wq)
    BY ONLY <1>5, <2>1, <2>2, <2>3, <2>4, GroupsPriced, Zenon
  <2> QED BY ONLY <2>5 DEF PricedTogether
<1>8. SumOf(wq, D) <= SumOf(pq, D)
  <2>1. ASSUME NEW d \in D PROVE wq[d] <= pq[d]
    <3> DEFINE t == wk[d]
               v == pk[d]
    <3>1. /\ TokensCounted(t) /\ TokensCounted(v) /\ Uncached(t) <= Uncached(v)
          /\ Positive(t.output) = Positive(v.output)
          /\ Positive(t.read) = Positive(v.read) /\ Positive(t.write) = Positive(v.write)
      BY <1>3 DEF GroupFits
    <3> HIDE DEF t, v
    <3>2. Calculate(s, d, t).cost <= Calculate(s, d, v).cost
      BY <3>1, CostsOrdered
    <3> QED BY <1>3, <3>2 DEF t, v
  <2>2. D \in SUBSET (D \cap D)
    OBVIOUS
  <2>3. pq \in [D -> Nat] /\ wq \in [D -> Nat] /\ IsFiniteSet(D)
    BY <1>6, <1>7
  <2> HIDE DEF D
  <2> QED BY <2>1, <2>2, <2>3, SumLess
<1> HIDE DEF page, window, single
<1>9. /\ page.available = single.available /\ window.available = single.available
      /\ Regular(E) => page.cost = single.cost /\ window.cost = single.cost
      /\ window.cost <= page.cost /\ page.cost <= single.cost
  BY <1>6, <1>7, <1>8
<1> QED BY <1>1, <1>2, <1>9 DEF page, window, single, F, R

\* So pages price once.
LEMMA PagesRight == PricingInv => PagesPriceOnce
<1> SUFFICES ASSUME PricingInv, pricedPage.stage = "read" PROVE PagesPriceOnce
  BY DEF PagesPriceOnce
<1> DEFINE p == pricedPage
           s == p.resolver
           E == p.read
<1>1. /\ Published(s) /\ E \in SUBSET PricedRows /\ IsFiniteSet(E)
      /\ p.groups = Projected(HourlyRows(E), s.fields)
  BY DEF PricingInv, PageRight
<1> HIDE DEF s, E
<1> DEFINE page == PriceOfGroups(s, Projected(HourlyRows(E), s.fields))
           price == PriceOfGroups(s, Grouped(E, s.fields))
           window == PriceOfWindow(s, E)
           single == PriceOfEvents(s, E)
           matched == \A e \in E : e.kind.total > 0 => MatchedModel(s, e.kind.dims) # <<>>
<1>2. /\ page.available = single.available /\ price.available = single.available
      /\ Regular(E) => page.cost = single.cost /\ price.cost = single.cost
      /\ price.cost <= page.cost /\ page.cost <= single.cost
  BY <1>1, PagesPriced
<1>3. /\ window.cost = price.cost
      /\ window.available <=> (price.available /\ matched)
  BY <1>1, WindowPriced
<1>4. window.available \in BOOLEAN /\ (single.available /\ matched) \in BOOLEAN
  BY DEF PriceOfWindow
<1> HIDE DEF page, price, window, single, matched
<1>5. /\ page.available = single.available
      /\ window.available = (single.available /\ matched)
  <2>1. window.available <=> (single.available /\ matched)
    BY <1>2, <1>3
  <2> QED BY <1>2, <1>4, <2>1
<1>6. /\ Regular(E) => page.cost = single.cost /\ window.cost = single.cost
      /\ window.cost <= page.cost /\ page.cost <= single.cost
  BY <1>2, <1>3
<1>7. page = PriceOfGroups(s, p.groups)
  BY <1>1 DEF page
<1> QED BY <1>5, <1>6, <1>7 DEF PagesPriceOnce, page, window, single, matched, s, E

-----------------------------------------------------------------------------
(* Beside the other services each of them does what it does alone.            *)

LEMMA ServicesRunSessions == ServicesSpec => SessionsSpec
<1>1. ServicesInit => SessionsInit
  BY DEF ServicesInit
<1>2. [ServicesNext]_servicesVars => [SessionsNext]_sessionsVars
  BY DEF ServicesNext, servicesVars
<1> QED BY <1>1, <1>2, PTL DEF ServicesSpec, SessionsSpec

LEMMA ServicesRunLogs == ServicesSpec => LogsSpec
<1>1. ServicesInit => LogsInit
  BY DEF ServicesInit
<1>2. [ServicesNext]_servicesVars => [LogsNext]_logVars
  BY DEF ServicesNext, servicesVars
<1> QED BY <1>1, <1>2, PTL DEF ServicesSpec, LogsSpec

LEMMA ServicesRunTokens == ServicesSpec => TokensSpec
<1>1. ServicesInit => TokensInit
  BY DEF ServicesInit
<1>2. [ServicesNext]_servicesVars => [TokensNext]_tokenVars
  BY DEF ServicesNext, servicesVars
<1> QED BY <1>1, <1>2, PTL DEF ServicesSpec, TokensSpec

LEMMA ServicesRunRanking == ServicesSpec => RankingSpec
<1>1. ServicesInit => RankingInit
  BY DEF ServicesInit
<1>2. [ServicesNext]_servicesVars => [RankingNext]_rankingVars
  BY DEF ServicesNext, servicesVars
<1> QED BY <1>1, <1>2, PTL DEF ServicesSpec, RankingSpec

LEMMA ServicesRunLimiter == ServicesSpec => LimiterSpec
<1>1. ServicesInit => LimiterInit
  BY DEF ServicesInit
<1>2. [ServicesNext]_servicesVars => [LimiterNext]_limiterVars
  BY DEF ServicesNext, servicesVars
<1> QED BY <1>1, <1>2, PTL DEF ServicesSpec, LimiterSpec

LEMMA ServicesRunRecent == ServicesSpec => RecentSpec
<1>1. ServicesInit => RecentInit
  BY DEF ServicesInit
<1>2. [ServicesNext]_servicesVars => [RecentNext]_recentVars
  BY DEF ServicesNext, servicesVars
<1> QED BY <1>1, <1>2, PTL DEF ServicesSpec, RecentSpec

LEMMA ServicesRunList == ServicesSpec => ListSpec
<1>1. ServicesInit => ListInit
  BY DEF ServicesInit
<1>2. [ServicesNext]_servicesVars => [ListNext]_listVars
  BY DEF ServicesNext, servicesVars
<1> QED BY <1>1, <1>2, PTL DEF ServicesSpec, ListSpec

LEMMA ServicesRunLocal == ServicesSpec => LocalSpec
<1>1. ServicesInit => LocalInit
  BY DEF ServicesInit
<1>2. [ServicesNext]_servicesVars => [LocalNext]_rankedVars
  BY DEF ServicesNext, servicesVars
<1> QED BY <1>1, <1>2, PTL DEF ServicesSpec, LocalSpec

LEMMA ServicesRunErrors == ServicesSpec => ErrorsSpec
<1>1. ServicesInit => ErrorsInit
  BY DEF ServicesInit
<1>2. [ServicesNext]_servicesVars => [ErrorsNext]_errorVars
  BY DEF ServicesNext, servicesVars
<1> QED BY <1>1, <1>2, PTL DEF ServicesSpec, ErrorsSpec

LEMMA ServicesRunBackups == ServicesSpec => BackupsSpec
<1>1. ServicesInit => BackupsInit
  BY DEF ServicesInit
<1>2. [ServicesNext]_servicesVars => [BackupsNext]_backupVars
  BY DEF ServicesNext, servicesVars
<1> QED BY <1>1, <1>2, PTL DEF ServicesSpec, BackupsSpec

LEMMA ServicesRunHeaders == ServicesSpec => HeaderSpec
<1>1. ServicesInit => HeaderInit
  BY DEF ServicesInit
<1>2. [ServicesNext]_servicesVars => [HeaderNext]_headerVars
  BY DEF ServicesNext, servicesVars
<1> QED BY <1>1, <1>2, PTL DEF ServicesSpec, HeaderSpec

LEMMA ServicesKeepPrices == ServicesSpec => []PricingInv
<1>1. ServicesInit => PricingInv
  BY PricingStarts DEF ServicesInit
<1>2. [ServicesNext]_servicesVars => [PricingNext]_pricingVars
  BY DEF ServicesNext, servicesVars
<1> QED BY <1>1, <1>2, PricingKeeps, PTL DEF ServicesSpec

LEMMA ServicesKeepPreview == ServicesSpec => []PreviewInv
<1>1. ServicesInit => PreviewInv
  BY PreviewStarts DEF ServicesInit
<1>2. [ServicesNext]_servicesVars => [FetchPublicCatalog]_previewVars
  BY DEF ServicesNext, servicesVars
<1> QED BY <1>1, <1>2, PreviewKeeps, PTL DEF ServicesSpec

LEMMA ServicesRunProcessor == ServicesSpec => ProcessorSpec
<1>1. ServicesInit => ProcessorInit
  BY DEF ServicesInit
<1>2. [ServicesNext]_servicesVars => [ProcessEvent]_processorVars
  BY DEF ServicesNext, servicesVars
<1> QED BY <1>1, <1>2, PTL DEF ServicesSpec, ProcessorSpec

(* A session whose deletion was confirmed is gone for good, and until then    *)
(* memory, table and list agree on it and its activity has a writer, whatever *)
(* requests, writers and restarts interleave (auth/session.go).               *)
THEOREM SessionsHoldTogether == ServicesSpec => []SessionsAgree
<1> QED BY ServicesRunSessions, SessionsStayInAgreement, PTL

(* Logs are fetched once for all who wait and a token lets one download       *)
(* through (service/request_log.go, api/request_log_download_token.go).        *)
THEOREM LogsStayShared == ServicesSpec => []LogsAreShared
<1>1. LogFetchIsShared /\ DownloadTokensWorkOnce => LogsAreShared
  BY DEF LogsAreShared
<1> QED BY <1>1, ServicesRunLogs, ServicesRunTokens, LogFetchesAreShared, TokensWorkOnce, PTL

(* The keeper and the center agree on what was reported, whatever is lost,    *)
(* crashes or is put back from a backup (ranking/service.go).                 *)
THEOREM RankingHoldsTogether == ServicesSpec => []RankingAgrees
<1> QED BY ServicesRunRanking, RankingStaysInAgreement, PTL

(* A failure of the subscription is retried with the delay that its number    *)
(* asks for and leaves no connection behind, and a reader of the stored error *)
(* events meets each once and in order (poller, repository/error_events).     *)
THEOREM ErrorsHoldTogether == ServicesSpec => []ErrorsAreShown
<1> QED BY ServicesRunErrors, ErrorsStayShown, PTL

(* Backups keep their distance across retries and restarts, but for one whose *)
(* time came out differently because the files could not be listed, and all   *)
(* are retried a bounded number of times before the next day                  *)
(* (app/backup_runner.go).                                                    *)
THEOREM BackupsHoldTogether == ServicesSpec => []BackupsKeepSchedule
<1> QED BY ServicesRunBackups, BackupsStayOnSchedule, PTL

(* What waits for an account is of the latest time that came and, while all   *)
(* of it has rows to show, the newest of each limit; and it is flushed        *)
(* (quota/header_cache_worker.go).                                            *)
THEOREM HeadersHoldTogether == ServicesSpec => []HeadersArePending
<1> QED BY ServicesRunHeaders, HeadersStayPending, PTL

(* A header changes a completed task only when one of its limits was observed *)
(* after it, and never the task of a refresh under way                        *)
(* (quota/header_cache_worker.go).                                            *)
THEOREM HeadersRespectRefreshesTogether == ServicesSpec => RefreshIsNotOverwritten
<1> QED BY ServicesRunHeaders, HeadersRespectRefreshes, PTL

(* The tokens that pages price add up, whichever executor has counted them    *)
(* (service/tokenprocessor/processor.go).                                     *)
THEOREM CountsHoldTogether == ServicesSpec => []TokensAddUp
<1> QED BY ServicesRunProcessor, EveryEventAddsUp, PTL

(* Pages show what their events cost at the prices they have started with, a   *)
(* quota window has no price when one of its events has none or has tokens and *)
(* no priced model; published prices are saved ones, whoever saves meanwhile;  *)
(* and a preview offers the best of the entries that are named like the model  *)
(* (pricing/catalog.go, repository/usage_window_stats.go,                      *)
(* service/pricing_metadata_sync.go).                                          *)
THEOREM PricesHoldTogether == ServicesSpec => []PricesAgree
<1>1. PricingInv /\ PreviewInv /\ TokensAddUp => PricesAgree
  BY PublishedRight, PagesRight, OffersAreBest DEF PricesAgree
<1> QED BY <1>1, ServicesKeepPrices, ServicesKeepPreview, CountsHoldTogether, PTL

(* Guessing passwords stays slow and the table of sources small, whatever the *)
(* sources try and however their windows restart (auth/login_limiter.go).     *)
THEOREM GuessingHoldsTogether == ServicesSpec => []GuessingIsBounded
<1> QED BY ServicesRunLimiter, GuessingStaysBounded, PTL

(* Months of the local ranking count each day once, unless a row went before  *)
(* its day was settled (ranking/local_service.go).                            *)
THEOREM MonthsHoldTogether == ServicesSpec => []MonthCountsSettledDaysOnce
<1> QED BY ServicesRunLocal, MonthsStayRight, PTL

(* Pages of the event list miss nothing and repeat nothing by cursor, and by  *)
(* number miss no more than was stored since the count (repository/usage.go). *)
THEOREM ListsHoldTogether == ServicesSpec => []ListSkipsNothing
<1> QED BY ServicesRunList, ListStaysComplete, PTL

(* What the cache of recent events answers beside the others is what the      *)
(* table would (repository/usage_recent_event_cache.go).                      *)
THEOREM RecentHoldsTogether == ServicesSpec => []RecentCacheIsHonest
<1> QED BY ServicesRunRecent, RecentStaysHonest, PTL

=============================================================================
