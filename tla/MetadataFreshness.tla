-------------------------- MODULE MetadataFreshness --------------------------
(* The ingest runner and the metadata scheduler together: CPA announces that  *)
(* its metadata have changed by messages among the usage messages; the inbox  *)
(* writer takes them out and asks for a synchronisation, and so does every    *)
(* connection. The scheduler is here what MetadataPromise says of it.         *)
EXTENDS RedisIngest

CONSTANT MaxChanges    \* bound: how many of the messages announce a change

ASSUME FreshnessAssumption == MaxChanges \in Nat

VARIABLES
    changes,     \* the messages that announce a change
    unseen,      \* those of a change no synchronisation has seen
    activated,   \* as in MetadataPromise
    asked,
    overlooked   \* history: unseen, lost beside a connection that went on

freshnessVars == <<changes, unseen, activated, asked, overlooked>>

FreshnessInit ==
    /\ Init
    /\ changes = {} /\ unseen = {} /\ activated = FALSE /\ asked = FALSE /\ overlooked = {}

Killed == crashes' # crashes

(* what the writer was given in a step: it stored it, or failed to *)
GivenToWriter ==
    (inbox' \ inbox)
      \cup (IF writeFaults' = writeFaults THEN {} ELSE IF SubState(pc) = "receiving" THEN hand ELSE Batch)

(* Mutant: no request is made for a batch that is not stored. *)
RequestedIfStored == (inbox' \ inbox) \cap changes # {}

(* The requests are made before the rest of the batch is stored. *)
Requested == GivenToWriter \cap changes # {}

(* A source that is used for the first time, or again. *)
Connected ==
    \/ pc' = "backfillRedis" /\ SubState(pc) # "backfill"
    \/ source' \notin {source, "none"}

(* What messages come by, unless it is broken and that will be noticed. *)
Connection ==
    IF SubState(pc) \notin {"backfill", "receiving"} THEN source
    ELSE IF open THEN "subscribe" ELSE "none"

(* It goes on, whatever else has failed. *)
GoesOn == Connection' = Connection /\ Connection \notin failed' \cup {"none"}

(* A request ends the polling, unless the attempt fails afterwards. *)
RequestEndsPolling ==
    Requested => \/ ~polling' \/ writeFaults' # writeFaults
                 \/ SubState(pc) = "receiving" /\ pc' = "degraded"

(* A step of the runner or of CPA, and what it calls. *)
IngestStep ==
    /\ Next
    /\ RequestEndsPolling
    /\ \E announcing \in SUBSET (published + 1 .. published') :
        /\ Cardinality(changes \cup announcing) <= MaxChanges
        /\ changes' = changes \cup announcing
        /\ unseen' = unseen \cup announcing
    /\ activated' = (~Killed /\ (activated \/ Connected))
    /\ asked' = (~Killed /\ (asked \/ Connected \/ (Requested /\ activated)))
    /\ overlooked' = overlooked \cup
           IF GoesOn THEN (unseen \cap (lost' \ lost)) \ GivenToWriter ELSE {}

(* A synchronisation begins because of a request, a connection or a tick. *)
Synchronise ==
    /\ asked \/ (activated /\ polling)
    /\ unseen' = {} /\ overlooked' = {} /\ asked' = FALSE
    /\ UNCHANGED <<vars, changes, activated>>

FreshnessNext == IngestStep \/ Synchronise

FreshnessSpec ==
    /\ FreshnessInit /\ [][FreshnessNext]_<<vars, freshnessVars>>
    /\ WF_vars(Runner) /\ WF_vars(RetryDue)

-----------------------------------------------------------------------------
(* A change that no synchronisation has seen will be: one is asked for, the   *)
(* next tick or the first connection brings it, its announcement is still to  *)
(* be read, or the next entry that works will be a new connection. Only what  *)
(* is lost beside a connection that goes on relies on the polling, which a    *)
(* later sign of support ends.                                                *)
ChangesAreSeen ==
    \/ unseen = overlooked
    \/ asked \/ polling \/ ~activated
    \/ unseen \cap (queue \cup stream \cup torn \cup hand) # {}
    \/ Connection = "none"
=============================================================================
