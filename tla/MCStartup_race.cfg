SPECIFICATION FairSpec
INVARIANTS TypeOK ServingIsReady RestartsBounded
PROPERTY AllServe
CONSTANTS
    api = api  worker = worker  worker2 = worker2
    Containers = {api, worker, worker2}
    MaxFaults = 2
CHECK_DEADLOCK FALSE
