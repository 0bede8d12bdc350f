---------------------------- MODULE LoginLimiter ----------------------------
(* The limit on login attempts: a window for everybody and one for each       *)
(* source, in a table of bounded size that forgets the source it has not      *)
(* heard of for the longest time.                                             *)
EXTENDS Integers, FiniteSetsExt

CONSTANTS Sources, LoginWindow, PerSourceLimit, GlobalLimit, MaxSources,
          MaxLoginTime  \* bound: the clock

ASSUME LimiterAssumption ==
    /\ LoginWindow \in Nat \ {0} /\ PerSourceLimit \in Nat \ {0}
    /\ GlobalLimit \in Nat \ {0} /\ MaxSources \in Nat \ {0} /\ MaxLoginTime \in Nat

VARIABLES
    sources,     \* source -> its window, or NoWindow
    globalTry,   \* the window of everybody
    loginClock,
    admitted,    \* attempts let through, by time
    failures     \* source -> attempts let through since its last success or eviction,
                 \* by time

limiterVars == <<sources, globalTry, loginClock, admitted, failures>>

LoginTimes == 0 .. MaxLoginTime
NoWindow == [started |-> -1, seen |-> -1, attempts |-> 0]
Fresh(now) == [started |-> now, seen |-> now, attempts |-> 0]
Known(table) == {s \in Sources : table[s] # NoWindow}
NoAttempts == [t \in LoginTimes |-> 0]

LimiterInit ==
    /\ sources = [s \in Sources |-> NoWindow] /\ globalTry = NoWindow
    /\ loginClock = 0
    /\ admitted = NoAttempts /\ failures = [s \in Sources |-> NoAttempts]

Over(w) == loginClock - w.started >= LoginWindow

CurrentGlobal == IF globalTry = NoWindow \/ Over(globalTry) THEN Fresh(loginClock)
                 ELSE globalTry

Unexpired == [s \in Sources |-> IF Over(sources[s]) THEN NoWindow ELSE sources[s]]

(* room for one more source: those heard of longest ago may be forgotten *)
Capacity(table, s) ==
    IF table[s] # NoWindow \/ Cardinality(Known(table)) < MaxSources THEN {table}
    ELSE {[table EXCEPT ![o] = NoWindow] :
              o \in {k \in Known(table) : \A l \in Known(table) : table[k].seen <= table[l].seen}}

Admit(s, table, w) ==
    /\ sources' = [table EXCEPT ![s] = [w EXCEPT !.attempts = @ + 1, !.seen = loginClock]]
    /\ globalTry' = [CurrentGlobal EXCEPT !.attempts = @ + 1, !.seen = loginClock]
    /\ admitted' = [admitted EXCEPT ![loginClock] = @ + 1]
    /\ failures' = [k \in Sources |->
          IF k = s THEN [failures[s] EXCEPT ![loginClock] = @ + 1]
          ELSE IF Unexpired[k] # NoWindow /\ table[k] = NoWindow THEN NoAttempts
          ELSE failures[k]]

Allow(s) ==
    /\ IF CurrentGlobal.attempts >= GlobalLimit
       THEN sources' = Unexpired /\ globalTry' = CurrentGlobal /\ UNCHANGED <<admitted, failures>>
       ELSE \E table \in Capacity(Unexpired, s) :
            LET w == IF table[s] = NoWindow THEN Fresh(loginClock) ELSE table[s]
            IN IF w.attempts >= PerSourceLimit
               THEN /\ sources' = [table EXCEPT ![s] = [w EXCEPT !.seen = loginClock]]
                    /\ globalTry' = CurrentGlobal /\ UNCHANGED <<admitted, failures>>
               ELSE Admit(s, table, w)
    /\ UNCHANGED loginClock

(* Mutant: a success also restarts the window of everybody. *)
ResetRestarting(s) ==
    /\ sources' = [sources EXCEPT ![s] = NoWindow]
    /\ globalTry' = NoWindow
    /\ failures' = [failures EXCEPT ![s] = NoAttempts]
    /\ UNCHANGED <<loginClock, admitted>>

(* a successful login clears its source, and leaves what everybody has used *)
Reset(s) ==
    /\ sources' = [sources EXCEPT ![s] = NoWindow]
    /\ failures' = [failures EXCEPT ![s] = NoAttempts]
    /\ UNCHANGED <<globalTry, loginClock, admitted>>

LoginTick ==
    /\ loginClock < MaxLoginTime /\ loginClock' = loginClock + 1
    /\ UNCHANGED <<sources, globalTry, admitted, failures>>

LimiterNext == LoginTick \/ \E s \in Sources : Allow(s) \/ Reset(s)

LimiterSpec == LimiterInit /\ [][LimiterNext]_limiterVars

-----------------------------------------------------------------------------
(* attempts let through in the window of time that ends now *)
Recent(count) == MapThenSumSet(LAMBDA t : count[t],
                               {t \in LoginTimes : t > loginClock - LoginWindow})

(* in any window of time no more than twice the limit goes through *)
AttemptsAreBounded ==
    /\ Recent(admitted) <= 2 * GlobalLimit
    /\ \A s \in Sources : Recent(failures[s]) <= 2 * PerSourceLimit

(* the table never holds more sources than it may *)
TableIsBounded == Cardinality(Known(sources)) <= MaxSources

(* However successes, evictions and the restarting of windows are mixed:      *)
(* guessing stays slow, for one source and for all of them, and so does the   *)
(* table of the sources stay small.                                           *)
GuessingIsBounded == AttemptsAreBounded /\ TableIsBounded
=============================================================================
