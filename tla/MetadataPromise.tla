--------------------------- MODULE MetadataPromise ---------------------------
(* What the metadata scheduler promises to those who call it: a request, and  *)
(* every connection, is followed by a synchronisation that begins later; in   *)
(* polling mode so is a tick. Nothing else makes it forget that it was asked. *)
VARIABLES activated,  \* there has been a connection
          polling,    \* ticks synchronise
          asked,      \* a synchronisation is on its way
          fresh       \* one began since the last request and connection

promiseVars == <<activated, polling, asked, fresh>>

PromiseInit == /\ activated = FALSE /\ polling = TRUE /\ asked = FALSE
               /\ fresh = TRUE

Connect ==
    /\ activated' = TRUE /\ asked' = TRUE /\ fresh' = FALSE
    /\ UNCHANGED polling

\* A request before the first connection is left to the synchronisation of
\* that connection.
Request ==
    /\ polling' = FALSE /\ asked' = (asked \/ activated) /\ fresh' = FALSE
    /\ UNCHANGED activated

ChangeMode ==
    /\ polling' = ~polling
    /\ UNCHANGED <<activated, asked, fresh>>

Tick ==
    /\ activated /\ polling /\ asked' = TRUE
    /\ UNCHANGED <<activated, polling, fresh>>

\* It may be asked for another one already.
Synchronise ==
    /\ asked /\ asked' \in BOOLEAN /\ fresh' = TRUE
    /\ UNCHANGED <<activated, polling>>

PromiseNext == Connect \/ Request \/ ChangeMode \/ Tick \/ Synchronise

PromiseSpec == PromiseInit /\ [][PromiseNext]_promiseVars
=============================================================================
