----------------------------- MODULE RequestLogs ----------------------------
(* The log of one request as the proxy kept it: many may ask for it at once,  *)
(* the first starts a fetch that all of them wait for, whoever leaves last    *)
(* cancels it. A download needs a token that is issued for its event and good *)
(* for one use and a while.                                                   *)
EXTENDS Integers, FiniteSets

CONSTANTS Readers,         \* requests of one and the same log
          MaxFetches,      \* bound: number of fetches
          LogEvents,       \* events with a log
          LogTokens,       \* tokens, each random and never issued twice
          TokenTTL,        \* how long one is good
          MaxLogTime       \* bound: the time

NoFetch == 0

VARIABLES
    reader,        \* state of each reader and the fetch it waits for
    gone,          \* readers that have gone away
    inflight,      \* the fetch new readers join, or NoFetch
    fetches,       \* each fetch: waiters, cancelled, finished, result
    tokens,        \* tokens that can be used: [token, event, until]
    logClock,
    downloads      \* tokens let through, with the time of their issue, and refused ones

logVars == <<reader, gone, inflight, fetches>>
tokenVars == <<tokens, logClock, downloads>>

LogsInit ==
    /\ reader = [r \in Readers |-> [pc |-> "idle", fetch |-> NoFetch, answer |-> "none"]]
    /\ gone = {} /\ inflight = NoFetch /\ fetches = <<>>

TokensInit ==
    /\ tokens = {} /\ logClock = 0 /\ downloads = {}

-----------------------------------------------------------------------------
(* The fetch                                                                 *)

JoinFetch(r) ==
    /\ inflight # NoFetch
    /\ fetches' = [fetches EXCEPT ![inflight].waiters = @ + 1]
    /\ reader' = [reader EXCEPT ![r].pc = "waiting", ![r].fetch = inflight]
    /\ UNCHANGED inflight

LeadFetch(r) ==
    /\ inflight = NoFetch /\ Cardinality(DOMAIN fetches) < MaxFetches
    /\ inflight' = Cardinality(DOMAIN fetches) + 1
    /\ fetches' = [f \in 1 .. inflight' |->
                      IF f \in DOMAIN fetches THEN fetches[f]
                      ELSE [waiters |-> 1, cancelled |-> FALSE, finished |-> FALSE, result |-> "none"]]
    /\ reader' = [reader EXCEPT ![r].pc = "waiting", ![r].fetch = inflight']

BeginFetch(r) ==
    /\ reader[r].pc = "idle"
    /\ JoinFetch(r) \/ LeadFetch(r)
    /\ UNCHANGED gone

GoAway(r) ==
    /\ r \notin gone /\ reader[r].pc # "done" /\ gone' = gone \cup {r}
    /\ UNCHANGED <<reader, inflight, fetches>>

(* the answer is there, and the reader possibly not any more *)
TakeAnswer(r) ==
    LET fetch == fetches[reader[r].fetch]
    IN /\ reader[r].pc = "waiting" /\ fetch.finished
       /\ reader' = [reader EXCEPT ![r].pc = "done",
                                   ![r].answer = IF r \in gone THEN "gone" ELSE fetch.result]
       /\ UNCHANGED <<gone, inflight, fetches>>

(* Mutant: whoever leaves cancels the fetch. *)
ReleaseWaiterAlways(f) ==
    IF inflight # f \/ fetches[f].waiters <= 0 THEN [last |-> FALSE, waiters |-> fetches[f].waiters]
    ELSE [last |-> TRUE, waiters |-> fetches[f].waiters - 1]

(* only the fetch that can be joined counts its waiters *)
ReleaseWaiter(f) ==
    IF inflight # f \/ fetches[f].waiters <= 0 THEN [last |-> FALSE, waiters |-> fetches[f].waiters]
    ELSE [last |-> fetches[f].waiters = 1, waiters |-> fetches[f].waiters - 1]

(* a reader that goes away, under the lock; the last one then cancels *)
Leave(r) ==
    LET f == reader[r].fetch
        released == ReleaseWaiter(f)
    IN /\ reader[r].pc = "waiting" /\ r \in gone
       /\ fetches' = [fetches EXCEPT ![f].waiters = released.waiters]
       /\ inflight' = IF released.last THEN NoFetch ELSE inflight
       /\ reader' = [reader EXCEPT ![r].pc = IF released.last THEN "cancelling" ELSE "done",
                                   ![r].answer = "gone"]
       /\ UNCHANGED gone

CancelFetch(r) ==
    /\ reader[r].pc = "cancelling"
    /\ fetches' = [fetches EXCEPT ![reader[r].fetch].cancelled = TRUE]
    /\ reader' = [reader EXCEPT ![r].pc = "done"]
    /\ UNCHANGED <<gone, inflight>>

(* the fetch ends: with a log, too large a log, none, a failure of its own, or *)
(* because it was cancelled                                                    *)
FinishFetch(f) ==
    /\ ~fetches[f].finished
    /\ \E result \in {"log", "too large", "unavailable", "failed"}
                        \cup (IF fetches[f].cancelled THEN {"cancelled"} ELSE {}) :
        fetches' = [fetches EXCEPT ![f].finished = TRUE, ![f].result = result,
                                   ![f].cancelled = TRUE]
    /\ inflight' = IF inflight = f THEN NoFetch ELSE inflight
    /\ UNCHANGED <<reader, gone>>

LogsNext ==
    \/ \E r \in Readers : BeginFetch(r) \/ GoAway(r) \/ TakeAnswer(r) \/ Leave(r) \/ CancelFetch(r)
    \/ \E f \in DOMAIN fetches : FinishFetch(f)

LogsSpec == LogsInit /\ [][LogsNext]_logVars

-----------------------------------------------------------------------------
(* The tokens                                                                *)

IssueToken ==
    /\ \E token \in LogTokens, event \in LogEvents :
        /\ token \notin {d.token : d \in downloads}
        /\ tokens' = {t \in tokens : logClock < t.until}
                        \cup {[token |-> token, event |-> event, until |-> logClock + TokenTTL]}
        /\ downloads' = downloads \cup
              {[token |-> token, event |-> event, issued |-> logClock, served |-> {}]}
    /\ UNCHANGED logClock

(* taken away whatever comes of it, also when it is for another event *)
ConsumeToken ==
    /\ \E d \in downloads, event \in LogEvents :
        LET good == {t \in tokens : t.token = d.token}
        IN /\ tokens' = tokens \ good
           /\ downloads' =
                IF \E t \in good : logClock < t.until /\ t.event = event
                THEN (downloads \ {d}) \cup {[d EXCEPT !.served = @ \cup {[at |-> logClock, event |-> event]}]}
                ELSE downloads
    /\ UNCHANGED logClock

LogTick ==
    /\ downloads # {} /\ logClock < MaxLogTime /\ logClock' = logClock + 1
    /\ UNCHANGED <<tokens, downloads>>

TokensNext == IssueToken \/ ConsumeToken \/ LogTick

TokensSpec == TokensInit /\ [][TokensNext]_tokenVars

-----------------------------------------------------------------------------
(* Who has not gone away is never told that the request was cancelled, though *)
(* others leave while it joins; a fetch that nobody waits for is cancelled or *)
(* has ended as soon as the one who left has done so; and a reader that waits *)
(* has a fetch that will end.                                                   *)
LogFetchIsShared ==
    /\ \A r \in Readers : reader[r].answer = "cancelled" => r \in gone
    /\ \A r \in Readers : reader[r].pc = "waiting" /\ r \notin gone =>
          fetches[reader[r].fetch].finished \/ ~fetches[reader[r].fetch].cancelled
    /\ \A f \in DOMAIN fetches :
          \/ fetches[f].cancelled
          \/ \E r \in Readers : reader[r].fetch = f /\ reader[r].pc \in {"waiting", "cancelling"}
    /\ Cardinality({f \in DOMAIN fetches : ~fetches[f].cancelled
            /\ \A r \in Readers : reader[r].fetch = f => reader[r].pc # "cancelling"}) <= 1

(* A token lets one download through, of its own event, before it is too old. *)
DownloadTokensWorkOnce ==
    \A d \in downloads : Cardinality(d.served) <= 1
        /\ \A s \in d.served : s.event = d.event /\ s.at < d.issued + TokenTTL

(* Logs are read and downloaded as promised. *)
LogsAreShared == LogFetchIsShared /\ DownloadTokensWorkOnce
=============================================================================
