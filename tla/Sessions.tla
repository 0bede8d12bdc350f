------------------------------ MODULE Sessions ------------------------------
(* Login sessions: the map in memory, the table behind it, requests that      *)
(* look a token up in several critical sections, and the goroutine that       *)
(* writes the last activity after the lock has been given back.               *)
EXTENDS Integers, FiniteSets, Sequences

CONSTANTS Tokens,        \* session tokens, each handed out at most once
          OldTokens,     \* tokens of sessions that were gone before
          ApiKeys,       \* CPA API keys whose holders may log in as viewers
          Logins,        \* how someone may log in: [key, via, ip]
          Requests,      \* requests served at the same time
          Arrivals,      \* how a request may arrive: [tokens, via, op, ip]
          SessionTTL, ActivityInterval,
          MaxSessionTime \* bound: the clock

ASSUME SessionsAssumption ==
    /\ SessionTTL \in Nat \ {0} /\ ActivityInterval \in Nat /\ MaxSessionTime \in Nat
    /\ OldTokens \subseteq Tokens
    /\ \A a \in Arrivals : a.tokens \in Seq(Tokens)

VARIABLES
    sessions, authRows,     \* token -> session in memory, token -> stored session
    pendingActivity,        \* token -> activity not yet written, or None
    activityWriters,        \* running writer goroutines
    activityInFlight,       \* the updates they carry outside the lock
    requests,               \* what each request is doing
    activeKeys,             \* API keys that are not deleted
    sessionClock,
    usedTokens, revoked     \* handed out so far; deleted, and said to be

lockedVars == <<sessions, authRows, pendingActivity>>
writerVars == <<activityWriters, activityInFlight>>
historyVars == <<usedTokens, revoked>>
sessionsVars == <<lockedVars, writerVars, requests, activeKeys, sessionClock, historyVars>>

None == [role |-> "none"]
NoUpdate == [seen |-> -1]
Free == [pc |-> "free"]

Live(s) == s # None /\ s.expires > sessionClock

SessionsInit ==
    /\ sessions = [t \in Tokens |-> None] /\ authRows = sessions
    /\ pendingActivity = [t \in Tokens |-> NoUpdate]
    /\ activityWriters = 0 /\ activityInFlight = {}
    /\ requests = [r \in Requests |-> Free]
    /\ activeKeys = ApiKeys /\ sessionClock = 0
    /\ usedTokens = OldTokens /\ revoked = {}

-----------------------------------------------------------------------------
(* Critical sections of the session manager                                  *)

CleanedUp(table) == [t \in Tokens |-> IF Live(table[t]) THEN table[t] ELSE None]

Cleanup == sessions' = CleanedUp(sessions) /\ authRows' = CleanedUp(authRows)

(* List reads the table and shows for a cached session what the cache knows   *)
(* Mutant: the list ignores what is only in memory. *)
ListedFromTable ==
    LET rows == CleanedUp(authRows)
    IN [t \in {u \in Tokens : rows[u] # None} |-> rows[t]]

Listed ==
    LET rows == CleanedUp(authRows) cached == CleanedUp(sessions)
    IN [t \in {u \in Tokens : rows[u] # None} |->
           IF cached[t] = None THEN rows[t]
           ELSE [rows[t] EXCEPT !.alias = cached[t].alias, !.ip = cached[t].ip,
                                !.seen = cached[t].seen]]

(* a deletion leaves the cache first; only when the table agrees is it done *)
Deletion(ts, stored) ==
    /\ sessions' = [t \in Tokens |-> IF t \in ts THEN None ELSE sessions[t]]
    /\ authRows' = [t \in Tokens |-> IF t \in ts /\ stored THEN None ELSE authRows[t]]
    /\ revoked' = IF stored THEN revoked \cup ts ELSE revoked

(* a session that cannot be stored is not handed out *)
Create(t, s) ==
    \E saved \in BOOLEAN :
        /\ authRows' = [CleanedUp(authRows) EXCEPT ![t] = IF saved THEN s ELSE None]
        /\ sessions' = [CleanedUp(sessions) EXCEPT ![t] = IF saved THEN s ELSE None]

Login ==
    \E t \in Tokens \ usedTokens, l \in Logins :
        /\ l.key \in activeKeys \cup {"admin"}
        /\ Create(t, [role |-> IF l.key = "admin" THEN "admin" ELSE "viewer",
                      source |-> l.via, key |-> l.key, alias |-> "", ip |-> l.ip,
                      seen |-> sessionClock, expires |-> sessionClock + SessionTTL])
        /\ usedTokens' = usedTokens \cup {t}
        /\ UNCHANGED <<pendingActivity, writerVars, requests, activeKeys, sessionClock,
                       revoked>>

ListSessions ==
    /\ Cleanup
    /\ UNCHANGED <<pendingActivity, writerVars, requests, activeKeys, sessionClock,
                   historyVars>>

UpdateAdminAlias ==
    \E t \in Tokens :
        LET row == CleanedUp(authRows)[t] cached == CleanedUp(sessions)[t]
            named(s) == IF s # None /\ row # None /\ s.role = "admin"
                        THEN [s EXCEPT !.alias = "named"] ELSE s
        IN /\ authRows' = [CleanedUp(authRows) EXCEPT ![t] = named(row)]
           /\ sessions' = [CleanedUp(sessions) EXCEPT ![t] = named(cached)]
           /\ UNCHANGED <<pendingActivity, writerVars, requests, activeKeys,
                          sessionClock, historyVars>>

(* an administrator revokes one session; the table may refuse *)
Revoke ==
    \E t \in usedTokens, stored \in BOOLEAN :
        /\ sessions' = [CleanedUp(sessions) EXCEPT ![t] = None]
        /\ authRows' = [CleanedUp(authRows) EXCEPT ![t] = IF stored THEN None ELSE @]
        /\ revoked' = IF stored THEN revoked \cup {t} ELSE revoked
        /\ UNCHANGED <<pendingActivity, writerVars, requests, activeKeys, sessionClock,
                       usedTokens>>

-----------------------------------------------------------------------------
(* A request: each candidate token is looked up until one is good, its role   *)
(* and source are checked, its activity is noted and the handler runs.        *)

Go(r, state) ==
    requests' = [requests EXCEPT ![r] =
        IF state.pc \in {"served", "refused"} THEN [pc |-> state.pc] ELSE state]

At(r, pc) == requests[r].pc = pc
Token(r) == Head(requests[r].todo)

Arrive(r) ==
    /\ At(r, "free")
    /\ \E a \in Arrivals :
        /\ \A i \in DOMAIN a.tokens : a.tokens[i] \in usedTokens
        /\ Go(r, [pc |-> IF a.tokens = <<>> THEN "refused" ELSE "read", todo |-> a.tokens,
               via |-> a.via, op |-> a.op, ip |-> a.ip, first |-> TRUE, key |-> "none"])
    /\ UNCHANGED <<lockedVars, writerVars, activeKeys, sessionClock, historyVars>>

NextCandidate(q) == [q EXCEPT !.todo = Tail(@),
                              !.pc = IF Len(q.todo) = 1 THEN "refused" ELSE "read"]

Permitted(q, s) == CASE q.op = "admin" -> s.role = "admin"
                     [] q.op = "viewer" -> s.role = "viewer"
                     [] OTHER -> TRUE

(* what follows a lookup that found s: the first lookup of a request checks   *)
(* it, the second one is the beginning of Touch                               *)
Found(q, s) ==
    IF ~q.first THEN [q EXCEPT !.pc = "touch"]
    ELSE IF s.source # q.via THEN NextCandidate(q)
    ELSE IF ~Permitted(q, s) THEN [q EXCEPT !.pc = "refused"]
    ELSE [q EXCEPT !.key = s.key, !.first = FALSE,
                   !.pc = CASE q.op = "logout" -> "delete"
                            [] q.op = "session" -> IF s.role = "viewer" THEN "key" ELSE "served"
                            [] OTHER -> "read"]

AfterTouch(q) == [q EXCEPT !.pc = IF q.op = "viewer" THEN "key" ELSE "served"]

(* a lookup that found nothing: the token is deleted, or Touch gives up *)
Missing(q) == IF q.first THEN [q EXCEPT !.pc = "drop"] ELSE AfterTouch(q)

(* under the read lock *)
ReadCache(r) ==
    /\ At(r, "read")
    /\ LET q == requests[r] s == sessions[Token(r)]
       IN Go(r, IF s = None THEN [q EXCEPT !.pc = "load"]
                ELSE IF ~Live(s) THEN [q EXCEPT !.pc = "expired"]
                ELSE Found(q, s))
    /\ UNCHANGED <<lockedVars, writerVars, activeKeys, sessionClock, historyVars>>

DeleteExpired(r) ==
    /\ At(r, "expired")
    /\ \E stored \in BOOLEAN :
        /\ Deletion({Token(r)}, stored)
        /\ Go(r, IF stored THEN Missing(requests[r]) ELSE Free)
    /\ UNCHANGED <<pendingActivity, writerVars, activeKeys, sessionClock, usedTokens>>

(* the row is put into the cache without asking for it under the lock *)
(* Mutant: the row is read and cached without the lock. *)
LoadUnlocked(r) ==
    \/ /\ At(r, "load") /\ authRows[Token(r)] # None
       /\ Go(r, [pc |-> "put", q |-> requests[r], s |-> authRows[Token(r)]])
       /\ UNCHANGED <<lockedVars, writerVars, activeKeys, sessionClock, historyVars>>
    \/ /\ At(r, "put")
       /\ LET q == requests[r].q s == requests[r].s
          IN sessions' = [sessions EXCEPT ![Head(q.todo)] = s] /\ Go(r, Found(q, s))
       /\ UNCHANGED <<authRows, pendingActivity, writerVars, activeKeys, sessionClock,
                      historyVars>>

(* under the lock: looked up again, then in the table *)
Load(r) ==
    /\ At(r, "load")
    /\ LET q == requests[r] t == Token(r)
           s == IF sessions[t] # None THEN sessions[t] ELSE authRows[t]
       IN \/ /\ Live(s)
             /\ sessions' = [sessions EXCEPT ![t] = s] /\ Go(r, Found(q, s))
             /\ UNCHANGED <<authRows, revoked>>
          \/ /\ s # None /\ ~Live(s)
             /\ \E stored \in BOOLEAN :
                 /\ Deletion({t}, stored) /\ Go(r, IF stored THEN Missing(q) ELSE Free)
          \/ /\ s = None
             /\ Go(r, Missing(q)) /\ UNCHANGED <<sessions, authRows, revoked>>
    /\ UNCHANGED <<pendingActivity, writerVars, activeKeys, sessionClock, usedTokens>>

(* a candidate that is no session is deleted as well *)
Drop(r) ==
    /\ At(r, "drop")
    /\ \E stored \in BOOLEAN :
        /\ Deletion({Token(r)}, stored)
        /\ Go(r, IF stored THEN NextCandidate(requests[r]) ELSE Free)
    /\ UNCHANGED <<pendingActivity, writerVars, activeKeys, sessionClock, usedTokens>>

Noted(s, ip) == [s EXCEPT !.ip = ip, !.seen = sessionClock]

(* the activity, once a minute or when the address changes *)
Touch(r) ==
    /\ At(r, "touch")
    /\ LET t == Token(r) s == sessions[t] q == requests[r]
       IN IF ~Live(s) \/ (q.ip = s.ip /\ s.seen + ActivityInterval > sessionClock)
          THEN UNCHANGED <<sessions, pendingActivity, activityWriters>>
          ELSE /\ sessions' = [sessions EXCEPT ![t] = Noted(@, q.ip)]
               /\ pendingActivity' = [pendingActivity EXCEPT ![t] =
                                         [seen |-> sessionClock, ip |-> q.ip]]
               /\ activityWriters' = IF activityWriters = 0 THEN 1 ELSE activityWriters
    /\ Go(r, AfterTouch(requests[r]))
    /\ UNCHANGED <<authRows, activityInFlight, activeKeys, sessionClock, historyVars>>

(* a viewer whose API key is gone loses the session *)
CheckKey(r) ==
    /\ At(r, "key")
    /\ \/ /\ requests[r].key \in activeKeys
          /\ Go(r, [requests[r] EXCEPT !.pc = "served"])
          /\ UNCHANGED <<sessions, authRows, revoked>>
       \/ /\ requests[r].key \notin activeKeys
          /\ \E stored \in BOOLEAN :
              /\ Deletion({Token(r)}, stored)
              /\ Go(r, IF stored THEN [requests[r] EXCEPT !.pc = "refused"] ELSE Free)
    /\ UNCHANGED <<pendingActivity, writerVars, activeKeys, sessionClock, usedTokens>>

Logout(r) ==
    /\ At(r, "delete")
    /\ \E stored \in BOOLEAN : Deletion({Token(r)}, stored)
    /\ Go(r, Free)
    /\ UNCHANGED <<pendingActivity, writerVars, activeKeys, sessionClock, usedTokens>>

Answer(r) ==
    /\ requests[r].pc \in {"served", "refused"}
    /\ Go(r, Free)
    /\ UNCHANGED <<lockedVars, writerVars, activeKeys, sessionClock, historyVars>>

-----------------------------------------------------------------------------
(* The writer of activities                                                  *)

PickActivity ==
    \E t \in Tokens :
        /\ Cardinality(activityInFlight) < activityWriters
        /\ pendingActivity[t] # NoUpdate
        /\ activityInFlight' = activityInFlight \cup
               {[token |-> t, seen |-> pendingActivity[t].seen, ip |-> pendingActivity[t].ip]}
        /\ pendingActivity' = [pendingActivity EXCEPT ![t] = NoUpdate]
        /\ UNCHANGED <<sessions, authRows, activityWriters, requests, activeKeys,
                       sessionClock, historyVars>>

(* an UPDATE of the row if it is still there; it may fail and is not repeated *)
WriteActivity ==
    \E u \in activityInFlight, written \in BOOLEAN :
        /\ authRows' = IF written /\ authRows[u.token] # None
                       THEN [authRows EXCEPT ![u.token] = [@ EXCEPT !.seen = u.seen, !.ip = u.ip]]
                       ELSE authRows
        /\ activityInFlight' = activityInFlight \ {u}
        /\ UNCHANGED <<sessions, pendingActivity, activityWriters, requests, activeKeys,
                       sessionClock, historyVars>>

EndWriter ==
    /\ activityWriters > Cardinality(activityInFlight)
    /\ \A t \in Tokens : pendingActivity[t] = NoUpdate
    /\ activityWriters' = activityWriters - 1
    /\ UNCHANGED <<lockedVars, activityInFlight, requests, activeKeys, sessionClock,
                   historyVars>>

-----------------------------------------------------------------------------
(* The surroundings                                                          *)

SessionTick ==
    /\ sessionClock < MaxSessionTime /\ sessionClock' = sessionClock + 1
    /\ UNCHANGED <<lockedVars, writerVars, requests, activeKeys, historyVars>>

(* the synchronisation of API keys deletes and restores rows *)
SyncKeys ==
    /\ \E keys \in SUBSET ApiKeys : activeKeys' = keys
    /\ UNCHANGED <<lockedVars, writerVars, requests, sessionClock, historyVars>>

SessionsRestart ==
    /\ sessions' = [t \in Tokens |-> None]
    /\ pendingActivity' = [t \in Tokens |-> NoUpdate]
    /\ activityWriters' = 0 /\ activityInFlight' = {}
    /\ requests' = [r \in Requests |-> Free]
    /\ UNCHANGED <<authRows, activeKeys, sessionClock, historyVars>>

SessionsNext ==
    \/ Login \/ ListSessions \/ UpdateAdminAlias \/ Revoke
    \/ \E r \in Requests :
        \/ Arrive(r) \/ ReadCache(r) \/ DeleteExpired(r) \/ Load(r) \/ Drop(r)
        \/ Touch(r) \/ CheckKey(r) \/ Logout(r) \/ Answer(r)
    \/ PickActivity \/ WriteActivity \/ EndWriter
    \/ SessionTick \/ SyncKeys \/ SessionsRestart

SessionsSpec == SessionsInit /\ [][SessionsNext]_sessionsVars

-----------------------------------------------------------------------------
(* A token whose deletion was confirmed is in no table again, whatever        *)
(* lookup, activity or load was on its way.                                   *)
RevokedStaysRevoked == \A t \in revoked : sessions[t] = None /\ authRows[t] = None

(* What is cached is stored, with the same identity and alias: a restart      *)
(* neither logs anyone out nor forgets a name.                                *)
CachedIsStored ==
    \A t \in Tokens : sessions[t] # None =>
        /\ authRows[t] # None
        /\ authRows[t] = [sessions[t] EXCEPT !.ip = authRows[t].ip, !.seen = authRows[t].seen]

(* The list shows exactly the tokens a lookup would accept now, each with     *)
(* what the lookup would return.                                              *)
ListIsWhatLookupAccepts ==
    LET lookup(t) == IF sessions[t] # None THEN sessions[t] ELSE authRows[t]
    IN Listed = [t \in {u \in Tokens : Live(lookup(u))} |-> lookup(t)]

(* Activity that waits has a writer, and there is never a second one.         *)
OneWriterWhileActivityWaits ==
    /\ activityWriters <= 1
    /\ (\E t \in Tokens : pendingActivity[t] # NoUpdate) => activityWriters = 1

(* Memory, table and list show the same sessions, and what memory knows       *)
(* better is on its way to the table.                                         *)
SessionViewsAgree == CachedIsStored /\ ListIsWhatLookupAccepts /\ OneWriterWhileActivityWaits

(* A session that is revoked is gone for good, and until then every view      *)
(* agrees on it.                                                              *)
SessionsAgree == RevokedStaysRevoked /\ SessionViewsAgree
=============================================================================
