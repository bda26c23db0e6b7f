SPECIFICATION FairSpec
CONSTANTS
    None = None
    Elements <- QueueElements
    Flows <- QueueFlows
    El <- QueueEl
    Target <- QueueTarget
    Guarded = {}
    StartEvents = {"start"}
    Names = {"m", "no"}
    MaxRounds = 2
    Collections = {2}
    ForceSteps = FALSE
    KeepsLoopState = FALSE
CHECK_DEADLOCK FALSE
PROPERTIES Termination
