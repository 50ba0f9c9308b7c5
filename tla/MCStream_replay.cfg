SPECIFICATION FairSpec
INVARIANTS TypeOK ReplayHasNoGap OneExecutionPerReader
PROPERTIES TerminalEndsReaders ImplementsFeed
CONSTANTS
    r1 = r1
    Readers = {r1}
    MaxRetries = 1
    MaxChunks = 0
    MaxLen = 4
    Count = 2
    Timeout = 2
    BlockMax = 1
    TicksPerMs = 2
    MaxFaults = 2
    MaxCrashes = 1
CHECK_DEADLOCK FALSE
