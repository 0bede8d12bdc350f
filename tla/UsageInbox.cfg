SPECIFICATION FairSpec
CONSTANTS
    MaxRows = 3
    BatchLimit = 2
    MaxAttempts = 2
    DayTicks = 1
    KeepDays = 0
    MaxNow = 1
    Payloads <- MCPayloads
    MaxCrashes = 1
INVARIANTS ExactlyOnce
PROPERTIES ImplementsLedger PauseBetweenAttempts EverySettled
