SPECIFICATION FreshnessSpec
CONSTANTS
    MaxMessages = 2
    BatchSize = 2
    MaxFaults = 2
    MaxWriteFaults = 1
    MaxCrashes = 1
    MaxChanges = 2
INVARIANTS Accounted NoStaleError ConnectionAnnounced ChangesAreSeen
PROPERTIES LossMeansPolling Collected
CHECK_DEADLOCK FALSE
