SPECIFICATION Spec
CONSTANTS
    None = None
    Elements <- RecallElements
    Flows <- RecallFlows
    El <- RecallEl
    Target <- RecallTarget
    Guarded = {}
    StartEvents = {"start"}
    Names = {"m", "no"}
    MaxRounds = 2
    Collections = {0}
    ForceSteps = FALSE
    KeepsLoopState = TRUE
CHECK_DEADLOCK FALSE
INVARIANTS LeftOnce
