SPECIFICATION Spec
CONSTANTS
    None = None
    Elements <- AllElements
    Flows <- AllFlows
    El <- AllEl
    Target <- AllTarget
    Guarded = {"r8", "p6", "c3", "c4", "c7", "c8"}
    StartEvents = {"scopes.start", "saga.start", "tx.start", "rework.start", "review.start", "race.start", "panel.start", "choices.start"}
    Names = {"m", "no"}
    MaxRounds = 2
    Collections = {None, 0, 1, 2}
    ForceSteps = FALSE
    KeepsLoopState = TRUE
CHECK_DEADLOCK FALSE
INVARIANTS TypeOK NothingLeftRunning OverMeansQuiet NeverStranded JoinBalance BoundaryFollowsHost LeftOnce OneWinner CompensatedOnce ThrowAwaitsHandlers LoopAccounting ScopeNesting
PROPERTIES FinishedForGood
