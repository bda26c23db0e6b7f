SPECIFICATION Spec
CONSTANTS
    t1 = t1
    t2 = t2
    None = None
    Tokens <- MCTokens
    MaxSets = 2
    MaxPolls = 1
    MaxFaults = 1
CHECK_DEADLOCK FALSE
INVARIANTS TypeOK Kept
PROPERTIES DueTimersFire
