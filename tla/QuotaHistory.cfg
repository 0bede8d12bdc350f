SPECIFICATION FairSpec
CONSTANTS
    Roles <- MCRoles
    Inputs <- MCInputs
    Rank <- MCRank
    QueueSize = 2
    Tolerance = 1
    MaxInputs = 3
    MaxCrashes = 1
    UsageTimes = {0, 1, 2, 3, 4, 5, 6, 7, 8, 9}
    HistoryRange = 6
    QueryTimes = {4, 8, 15}
INVARIANTS SegmentsFall HistoryFitsTogether HandOver EfficiencyCountsOnce
PROPERTIES OnlyTrustedRaises InputsArrive
CHECK_DEADLOCK FALSE
