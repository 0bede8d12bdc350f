SPECIFICATION Spec
CONSTANTS
    Roles = {"primary"}
    Inputs <- MCFollowUp
    Rank <- MCRank
    QueueSize = 2
    Tolerance = 1
    MaxInputs = 3
    MaxCrashes = 0
    UsageTimes = {0}
    HistoryRange = 6
    QueryTimes = {4}
INVARIANTS FollowUpIsKept
CHECK_DEADLOCK FALSE
