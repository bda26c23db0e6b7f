SPECIFICATION Spec
CONSTANTS
    None = None
    Elements <- HappyElements
    Flows <- HappyFlows
    El <- HappyEl
    Target <- HappyTarget
    Guarded = {}
    StartEvents = {"start"}
    Names = {"m", "no"}
    MaxRounds = 2
    Collections = {0}
    ForceSteps = FALSE
    KeepsLoopState = TRUE
CHECK_DEADLOCK FALSE
INVARIANTS NeverStranded
