SPECIFICATION FairSpec
CONSTANTS
    None = None
    Elements <- BranchesElements
    Flows <- BranchesFlows
    El <- BranchesEl
    Target <- BranchesTarget
    Guarded = {"f2", "f3"}
    StartEvents = {"start"}
    Names = {"m", "no"}
    MaxRounds = 2
    Collections = {0}
    ForceSteps = FALSE
    KeepsLoopState = TRUE
CHECK_DEADLOCK FALSE
PROPERTIES Termination
