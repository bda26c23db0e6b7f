SPECIFICATION FairSpec
CONSTANTS
    None = None
    Elements <- EndingElements
    Flows <- EndingFlows
    El <- EndingEl
    Target <- EndingTarget
    Guarded = {}
    StartEvents = {"scopes.start", "tx.start"}
    Names = {"m", "no"}
    MaxRounds = 1
    Collections = {0, 1, 2}
    ForceSteps = FALSE
    KeepsLoopState = TRUE
CHECK_DEADLOCK FALSE
PROPERTIES Termination
