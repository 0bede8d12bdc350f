SPECIFICATION Spec
CONSTANTS
    MaxEvents = 2
    PageSize = 1
    Owners = {k1}
    Keys = {k1}
    IdentityBatch = 1
    MaxArrivals = 2
    MaxCrashes = 1
    Broken = {0, 2, 4}
    MaxFaults = 0
INVARIANTS IdentityExactlyOnce NoLostWakeUp TargetWithinReach
PROPERTIES ImplementsTotals
CHECK_DEADLOCK FALSE
