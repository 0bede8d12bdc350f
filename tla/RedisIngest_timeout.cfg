SPECIFICATION Spec
CONSTANTS
    MaxMessages = 2
    BatchSize = 2
    MaxFaults = 1
    MaxWriteFaults = 1
    MaxCrashes = 0
PROPERTIES TimeoutLosesNothing
CHECK_DEADLOCK FALSE
