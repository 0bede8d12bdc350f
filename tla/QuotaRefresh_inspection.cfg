SPECIFICATION Spec
CONSTANTS
    Keys = {k1}
    Slots = {r1, r2}
    Workers = {w1}
    MaxStarts = 2
INVARIANTS CompletedMeansSettled
CHECK_DEADLOCK FALSE
