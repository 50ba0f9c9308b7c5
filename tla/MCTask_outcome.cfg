SPECIFICATION Spec
CONSTANTS
    None = None
    t1 = t1  t2 = t2  w1 = w1  w2 = w2  h1 = h1  h2 = h2  h3 = h3
    Tasks = {t1, t2}
    VoiceTasks = {t1}
    Hooked = {t1, t2}
    Workers = {w1, w2}
    Handlers = {h1, h2, h3}
    WorkerOf <- TwoWorkers
    Pollers = {}
    MaxRetries = 2
    FaultPoints <- WorkPoints
    MaxFaults = 4
    MaxLosses = 0
    Ageing = FALSE
INVARIANTS
    SettledOutcome
PROPERTIES
    CompletedIsFinal
CHECK_DEADLOCK FALSE
