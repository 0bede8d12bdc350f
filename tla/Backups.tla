------------------------------- MODULE Backups -------------------------------
(* The database backup task: when the next backup is due, the retries after a *)
(* failure, the file that appears under its final name only when complete,    *)
(* and the removal of old days.  Time is counted in slots, DaySlots of them   *)
(* to a day.                                                                  *)
EXTENDS Integers, FiniteSetsExt

CONSTANTS DaySlots,       \* slots of a day
          BackupSlot,     \* the slot of a day that stands for four o'clock
          RetryDelay,     \* slots before a retry
          MaxRetries,     \* retries after a failure
          BackupIntervals,\* intervals that may be configured
          RetentionDays,
          MaxBackupTime,  \* bound: the clock
          MaxBlindBackups \* bound: backups kept that are blind

ASSUME BackupsAssumption ==
    /\ DaySlots \in Nat \ {0} /\ BackupSlot \in 0 .. DaySlots - 1
    /\ RetryDelay \in Nat \ {0} /\ MaxRetries \in Nat
    /\ BackupIntervals \subseteq Nat \ {0} /\ RetentionDays \in Nat /\ MaxBackupTime \in Nat
    /\ MaxBlindBackups \in Nat

VARIABLES
    backupInterval,             \* configured
    backupPc,                   \* "deciding" "sleeping" "copying" "stopped"
    wakeAt, backupAt,           \* end of the sleep, begin of the copy
    lastBackupAt,               \* in memory, Never after a start
    retryAttempts, pendingRetry,
    files,                      \* the backups: [day, mod, blind], mod the time of writing
    backupClock,
    tried,                      \* begin of the last day's attempts since a success or start
    blind                       \* history: when it is due came out differently because
                                \* the files could not be listed

backupVars == <<backupInterval, backupPc, wakeAt, backupAt, lastBackupAt, retryAttempts,
                pendingRetry, files, backupClock, tried, blind>>

Never == -1
Day(t) == t \div DaySlots

BackupsInit ==
    /\ backupInterval \in BackupIntervals /\ backupPc = "deciding"
    /\ wakeAt = 0 /\ backupAt = 0 /\ lastBackupAt = Never
    /\ retryAttempts = 0 /\ pendingRetry = FALSE
    /\ files = {} /\ backupClock = 0 /\ tried = {} /\ blind = FALSE

UsesDailySchedule == backupInterval % DaySlots = 0

(* Mutant: the directory is not looked at. *)
LastFromMemory(listed) == lastBackupAt

(* What the directory shows: listing it, or asking for the time of one of its *)
(* files, may fail.                                                           *)
ShownTimes(listed) == IF listed THEN {f.mod : f \in files} ELSE {}

(* The later of what is remembered, nothing after a start, and what is shown. *)
LastFromHistory(listed) == Max({lastBackupAt} \cup ShownTimes(listed))

NextDailyBackup == LET today == Day(backupClock) * DaySlots + BackupSlot
                   IN IF backupClock < today THEN today ELSE today + DaySlots

NextDaily(last) ==
    LET candidate == Day(last) * DaySlots + BackupSlot + backupInterval
    IN IF last # Never /\ backupClock < candidate THEN candidate ELSE NextDailyBackup

Due(listed) == IF pendingRetry THEN backupClock + RetryDelay
               ELSE IF UsesDailySchedule THEN NextDaily(LastFromHistory(listed))
               ELSE IF LastFromHistory(listed) = Never THEN backupClock
               ELSE Max({LastFromHistory(listed) + backupInterval, backupClock})

Decide ==
    /\ backupPc = "deciding"
    /\ \E listed \in BOOLEAN :
         /\ listed \/ Cardinality({f \in files : f.blind}) < MaxBlindBackups
         /\ wakeAt' = Due(listed)
         /\ blind' = IF pendingRetry THEN blind ELSE Due(listed) # Due(TRUE)
    /\ backupPc' = "sleeping"
    /\ UNCHANGED <<backupInterval, backupAt, lastBackupAt, retryAttempts, pendingRetry,
                   files, backupClock, tried>>

BeginCopy ==
    /\ backupPc = "sleeping" /\ backupClock >= wakeAt
    /\ backupAt' = backupClock /\ backupPc' = "copying"
    /\ wakeAt' = 0
    /\ tried' = {t \in tried : t > backupClock - DaySlots} \cup {backupClock}
    /\ UNCHANGED <<backupInterval, lastBackupAt, retryAttempts, pendingRetry,
                   files, backupClock, blind>>

(* days before the first one to keep are removed whole *)
Kept(fs) == IF RetentionDays = 0 THEN fs
            ELSE {f \in fs : f.day > Day(backupAt) - RetentionDays}

(* the copy is renamed into place; the removal may fail *)
EndCopy ==
    /\ backupPc = "copying"
    /\ lastBackupAt' = backupAt /\ retryAttempts' = 0 /\ pendingRetry' = FALSE
    /\ LET all == files \cup {[day |-> Day(backupAt), mod |-> backupClock, blind |-> blind]}
       IN files' \in {all, Kept(all)}
    /\ tried' = {} /\ blind' = FALSE /\ backupPc' = "deciding" /\ backupAt' = 0
    /\ UNCHANGED <<backupInterval, wakeAt, backupClock>>

(* What was copied so far is removed again.  More failures than retries are   *)
(* not told apart: the count stops there.                                     *)
FailCopy ==
    /\ backupPc = "copying"
    /\ retryAttempts' = Min({retryAttempts + 1, MaxRetries + 1})
    /\ pendingRetry' = (retryAttempts + 1 <= MaxRetries)
    /\ files' \in {files, Kept(files)}
    /\ backupPc' = "deciding" /\ backupAt' = 0
    /\ UNCHANGED <<backupInterval, wakeAt, lastBackupAt, backupClock, tried, blind>>

BackupTick ==
    /\ backupClock < MaxBackupTime
    /\ backupPc \in {"sleeping", "copying"}
    /\ backupPc = "sleeping" => backupClock < wakeAt
    /\ backupClock' = backupClock + 1
    /\ UNCHANGED <<backupInterval, backupPc, wakeAt, backupAt, lastBackupAt, retryAttempts,
                   pendingRetry, files, tried, blind>>

(* stopped or killed, with or without a copy under way, and started again *)
BackupRestart ==
    /\ backupPc' = "deciding" /\ lastBackupAt' = Never
    /\ retryAttempts' = 0 /\ pendingRetry' = FALSE /\ tried' = {}
    /\ wakeAt' = 0 /\ backupAt' = 0 /\ blind' = FALSE
    /\ UNCHANGED <<backupInterval, files, backupClock>>

BackupsNext == Decide \/ BeginCopy \/ EndCopy \/ FailCopy \/ BackupTick \/ BackupRestart

BackupsSpec == BackupsInit /\ [][BackupsNext]_backupVars

-----------------------------------------------------------------------------
(* A backup, also one of a retry or after restarts, is never closer to one     *)
(* before it than configured: in days when the interval is a number of days,  *)
(* in time when it is not. Only one may be closer whose time came out          *)
(* differently because the files could not be listed: after a start, at once. *)
BackupsAreSpaced ==
    \A f, g \in files : f.mod < g.mod /\ ~g.blind =>
        IF UsesDailySchedule THEN (Day(g.mod) - Day(f.mod)) * DaySlots >= backupInterval
        ELSE g.mod - f.mod >= backupInterval

(* Between two four o'clocks a daily backup that keeps failing is tried once  *)
(* and retried no more often than allowed.                                    *)
RetriesAreBounded ==
    UsesDailySchedule =>
        \A t \in tried : Cardinality({u \in tried : t <= u /\ u < t + DaySlots - BackupSlot})
                            <= MaxRetries + 1

(* Backups keep to the schedule, whichever copies and removals fail and        *)
(* whenever the process starts again, unless the files could not be listed    *)
(* when it mattered; the attempts keep to their number even then.             *)
BackupsKeepSchedule == BackupsAreSpaced /\ RetriesAreBounded
=============================================================================
