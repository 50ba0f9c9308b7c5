SPECIFICATION Spec
CONSTANTS
    None = None
    t1 = t1  t2 = t2  w1 = w1  w2 = w2  h1 = h1  h2 = h2  h3 = h3
    Tasks = {t1}
    VoiceTasks = {t1}
    Hooked = {t1}
    Workers = {w1}
    Handlers = {h1}
    WorkerOf <- OneHandler
    Pollers = {}
    MaxRetries = 2
    FaultPoints <- ComputeOnly
    MaxFaults = 1
    MaxLosses = 0
    Ageing = FALSE
INVARIANT
    StreamTellsOutcome
CHECK_DEADLOCK FALSE
