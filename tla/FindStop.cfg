SPECIFICATION WorkerSpec
CONSTANTS
    t1 = t1
    w1 = w1
    w2 = w2
    p1 = p1
    p2 = p2
    Tokens <- OneToken
    Workers <- OneWorker
    MaxAttempts = 3
    MaxDeliveries = 2
    MaxCrashes = 0
    Visitors <- MCVisitors
    Early = p1
    MaxSent = 5
    Listed = {1, 2}
    RowsPerPage = 1
    LastStep = 2
    StepKind <- MCStepKind
    MaxAsks = 3
    MaxActs = 1
    MaxTurns = 1
CHECK_DEADLOCK FALSE
PROPERTIES InFlightSettles
