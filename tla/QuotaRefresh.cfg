SPECIFICATION FairSpec
CONSTANTS
    Keys = {k1, k2}
    Slots = {r1, r2}
    Workers = {w1}
    MaxStarts = 2
INVARIANTS ResultHitsItsTask OneAutoRound
PROPERTIES StartedWorkEnds
CHECK_DEADLOCK FALSE
