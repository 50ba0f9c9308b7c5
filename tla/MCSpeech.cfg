SPECIFICATION Spec
INVARIANTS TypeOK DedupedIsCollapse TranscriptIsCollapse
CONSTANTS
    Vocabulary <- ThreeLabels
    Recordings <- FiveRecordings
    TargetRate = 2
    HopLength = 2
    MaxSteps = 6
CHECK_DEADLOCK FALSE
