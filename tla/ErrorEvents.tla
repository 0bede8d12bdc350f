----------------------------- MODULE ErrorEvents -----------------------------
(* The subscription to the error channel, which gives up for good after some  *)
(* failures in a row; the events it stores; and a reader that walks through   *)
(* the events of one credential page by page while new ones are stored.       *)
EXTENDS Integers, Sequences, FiniteSets

CONSTANTS ErrorOwners,     \* credentials the events are about
          ErrorTimes,      \* timestamps an event may carry
          MaxRetryDelays,  \* number of retry delays configured
          ErrorPageSize,
          MaxErrorEvents   \* bound: stored events

ASSUME ErrorsAssumption == /\ ErrorTimes \subseteq Nat /\ MaxRetryDelays \in Nat \ {0}
                           /\ ErrorPageSize \in Nat \ {0} /\ MaxErrorEvents \in Nat
                           /\ ErrorOwners \cap {"idle", "finished"} = {}

VARIABLES
    errorPc,      \* "dialing" "authenticating" "subscribing" "receiving"
                  \* "sleeping" "stopped"
    connection,   \* TRUE while a connection is open
    retryIndex,
    cancelled,    \* the service stops
    stopReason,   \* why the runner returned
    failedInRow,  \* history: failures since the last subscription
    errorEvents,  \* stored: [id, at, owner]
    walk          \* the reader: [pc, cursor, pages, begun]

errorVars == <<errorPc, connection, retryIndex, cancelled, stopReason, failedInRow,
               errorEvents, walk>>
runnerVars == <<errorPc, connection, retryIndex, stopReason, failedInRow>>

NoCursor == [at |-> -1, id |-> -1]
Idle == [pc |-> "idle", cursor |-> NoCursor, pages |-> <<>>, begun |-> {}]

ErrorsInit ==
    /\ errorPc = "dialing" /\ connection = FALSE /\ retryIndex = 0
    /\ cancelled = FALSE /\ stopReason = "none" /\ failedInRow = 0
    /\ errorEvents = {} /\ walk = Idle

-----------------------------------------------------------------------------
(* The runner                                                                *)

Stop(reason) == errorPc' = "stopped" /\ stopReason' = reason /\ UNCHANGED retryIndex

(* a subscription that failed or ended: its connection is closed, then the    *)
(* reasons to return are looked at in this order                              *)
Fail(permanent) ==
    /\ connection' = FALSE /\ failedInRow' = failedInRow + 1
    /\ IF cancelled THEN Stop("cancelled")
       ELSE IF permanent THEN Stop("permanent")
       ELSE IF retryIndex >= MaxRetryDelays THEN Stop("exhausted")
       ELSE errorPc' = "sleeping" /\ retryIndex' = retryIndex + 1 /\ UNCHANGED stopReason

Advance(pc) == /\ ~cancelled /\ errorPc' = pc
               /\ UNCHANGED <<retryIndex, stopReason, failedInRow>>

Dial == /\ errorPc = "dialing"
        /\ \/ connection' = TRUE /\ Advance("authenticating")
           \/ Fail(FALSE)

(* refused credentials are permanent, a broken connection is not *)
Authenticate == /\ errorPc = "authenticating"
                /\ \/ Advance("subscribing") /\ UNCHANGED connection
                   \/ \E permanent \in BOOLEAN : Fail(permanent)

(* an unknown channel is permanent; a subscription clears the retries *)
SubscribeErrors ==
    /\ errorPc = "subscribing"
    /\ \/ /\ ~cancelled /\ errorPc' = "receiving" /\ failedInRow' = 0
          /\ retryIndex' = 0 /\ UNCHANGED <<connection, stopReason>>
       \/ \E permanent \in BOOLEAN : Fail(permanent)

EndSubscription == errorPc = "receiving" /\ Fail(FALSE)

(* the delay is over, or the service stops during it *)
Wake == /\ errorPc = "sleeping"
        /\ IF cancelled THEN Stop("cancelled")
           ELSE errorPc' = "dialing" /\ UNCHANGED <<retryIndex, stopReason>>
        /\ UNCHANGED <<connection, failedInRow>>

RunnerStep == /\ Dial \/ Authenticate \/ SubscribeErrors \/ EndSubscription \/ Wake
              /\ UNCHANGED <<cancelled, errorEvents, walk>>

(* An event without a time or a credential, or one the table refuses, is lost *)
(* and receiving goes on: no step of the model.                               *)
StoreErrorEvent ==
    /\ errorPc = "receiving" /\ Cardinality(errorEvents) < MaxErrorEvents
    /\ \E at \in ErrorTimes, owner \in ErrorOwners :
        errorEvents' = errorEvents \cup
            {[id |-> Cardinality(errorEvents) + 1, at |-> at, owner |-> owner]}
    /\ UNCHANGED <<runnerVars, cancelled, walk>>

CancelErrors == /\ ~cancelled /\ cancelled' = TRUE
                /\ UNCHANGED <<runnerVars, errorEvents, walk>>

-----------------------------------------------------------------------------
(* The reader: newest first, ties by id, the last event of a page is the      *)
(* cursor of the next                                                         *)

NewerEvent(e, f) == e.at > f.at \/ (e.at = f.at /\ e.id > f.id)

(* Mutant: a page begins after the time of the last event, not after the event. *)
BeyondTime(e, cursor) == cursor = NoCursor \/ e.at < cursor.at

Beyond(e, cursor) == cursor = NoCursor \/ NewerEvent(cursor, e)

Listing(owner, cursor) ==
    LET found == {e \in errorEvents : e.owner = owner /\ Beyond(e, cursor)}
    IN CHOOSE s \in [1 .. Cardinality(found) -> found] :
           \A i, j \in DOMAIN s : i < j => NewerEvent(s[i], s[j])

BeginWalk ==
    /\ walk.pc = "idle"
    /\ \E owner \in ErrorOwners :
        walk' = [Idle EXCEPT !.pc = owner, !.begun = {e \in errorEvents : e.owner = owner}]
    /\ UNCHANGED <<runnerVars, cancelled, errorEvents>>

ReadPage ==
    /\ walk.pc \in ErrorOwners
    /\ LET found == Listing(walk.pc, walk.cursor)
           more == Len(found) > ErrorPageSize
           page == IF more THEN SubSeq(found, 1, ErrorPageSize) ELSE found
           final == page[Len(page)]
       IN walk' = [walk EXCEPT !.pages = @ \o page,
                        !.cursor = IF more THEN [at |-> final.at, id |-> final.id] ELSE @,
                        !.pc = IF more THEN @ ELSE "finished"]
    /\ UNCHANGED <<runnerVars, cancelled, errorEvents>>

EndWalk == /\ walk.pc = "finished" /\ walk' = Idle
           /\ UNCHANGED <<runnerVars, cancelled, errorEvents>>

ErrorsNext == \/ RunnerStep \/ StoreErrorEvent \/ CancelErrors
              \/ BeginWalk \/ ReadPage \/ EndWalk

ErrorsSpec == ErrorsInit /\ [][ErrorsNext]_errorVars

-----------------------------------------------------------------------------
(* A walk through all pages returns every event that was there when it began, *)
(* none twice, and in order, whatever is stored meanwhile, also with old or   *)
(* equal timestamps.                                                          *)
PagesAreComplete ==
    /\ \A i, j \in DOMAIN walk.pages : i < j => NewerEvent(walk.pages[i], walk.pages[j])
    /\ walk.pc = "finished" => walk.begun \subseteq {walk.pages[i] : i \in DOMAIN walk.pages}

(* No connection is left open by a failure, a cancellation or a return.       *)
NoConnectionLeaks ==
    connection => errorPc \in {"authenticating", "subscribing", "receiving"}

(* the runner gives up by itself only after one more failure in a row than    *)
(* there are delays                                                           *)
GivesUpOnlyWhenExhausted ==
    errorPc = "stopped" /\ stopReason = "exhausted" => failedInRow = MaxRetryDelays + 1

(* No connection is lost and no subscription given up early; no event escapes *)
(* a reader who walks through the pages while more are stored.                *)
ErrorsAreShown == PagesAreComplete /\ NoConnectionLeaks /\ GivesUpOnlyWhenExhausted
=============================================================================
