SPECIFICATION Spec
INVARIANT TextModeIsSilent
CONSTANTS
    None = None
    Kinds = {"voice"}
    Endpoint = "internal"
    PublicEndpoint = None
    Tokens <- WordTokens
    Modes = {"text"}
    MinLen = 2
    MaxRetries = 0
    MaxTokens = 3
    MaxFaults = 0
CHECK_DEADLOCK FALSE
