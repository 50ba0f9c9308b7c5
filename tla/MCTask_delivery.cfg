SPECIFICATION FairSpec
CONSTANTS
    None = None
    t1 = t1  t2 = t2  w1 = w1  w2 = w2  h1 = h1  h2 = h2  h3 = h3
    Tasks = {t1}
    VoiceTasks = {}
    Hooked = {}
    Workers = {w1}
    Handlers = {h1, h2}
    WorkerOf <- OneWorker
    Pollers = {"p1"}
    MaxRetries = 1
    FaultPoints <- AllPoints
    MaxFaults = 2
    MaxLosses = 1
    Ageing = FALSE
INVARIANT
    AnnouncedAfterCommit
PROPERTIES
    ImplementsDelivery
    StaleStatusExpires
CHECK_DEADLOCK FALSE
