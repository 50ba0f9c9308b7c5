SPECIFICATION FairSpec
PROPERTY ReaderTimesOut
CONSTANTS
    r1 = r1
    Readers = {r1}
    MaxRetries = 0
    MaxChunks = 0
    MaxLen = 2
    Count = 2
    Timeout = 3
    BlockMax = 1
    TicksPerMs = 2
    MaxFaults = 1
    MaxCrashes = 0
CHECK_DEADLOCK FALSE
