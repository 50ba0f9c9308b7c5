SPECIFICATION Spec
CONSTANTS
    None = None
    t1 = t1  t2 = t2  w1 = w1  w2 = w2  h1 = h1  h2 = h2  h3 = h3
    Tasks = {t1}
    VoiceTasks = {t1}
    Hooked = {t1}
    Workers = {w1, w2}
    Handlers = {h1, h2, h3}
    WorkerOf <- TwoWorkers
    Pollers = {}
    MaxRetries = 1
    FaultPoints <- AllPoints
    MaxFaults = 2
    MaxLosses = 1
    Ageing = TRUE
INVARIANTS
    TypeOK
    NothingLost
    AnnouncedAfterCommit
    WorkerFindsTask
    ExclusiveExecution
    AttemptsBounded
    AttemptsPerLoss
    FinishedOrBuried
CHECK_DEADLOCK FALSE
