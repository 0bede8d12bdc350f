SPECIFICATION FairSpec
CONSTANTS
    MaxEvents = 2
    PageSize = 1
    Owners = {k1}
    Keys = {k1}
    IdentityBatch = 1
    MaxArrivals = 1
    MaxCrashes = 1
    Broken = {1, 2}
    MaxFaults = 0
PROPERTIES AggregationCatchesUp
CHECK_DEADLOCK FALSE
