SPECIFICATION Spec
INVARIANTS TypeOK ChunksSpellResponse ChunksSpeakTheirSentence ThoughtsFiltered
CONSTANTS
    None = None
    Kinds = {"voice", "text"}
    Endpoint = "internal"
    PublicEndpoint = None
    Tokens <- TaggedWords
    Modes = {"audio"}
    MinLen = 3
    MaxRetries = 1
    MaxTokens = 4
    MaxFaults = 1
CHECK_DEADLOCK FALSE
