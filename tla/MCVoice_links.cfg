SPECIFICATION Spec
INVARIANT LinksArePublic
CONSTANTS
    None = None
    Kinds = {"voice"}
    Endpoint = "internal"
    PublicEndpoint = "public"
    Tokens <- WordTokens
    Modes = {"audio"}
    MinLen = 2
    MaxRetries = 0
    MaxTokens = 3
    MaxFaults = 0
CHECK_DEADLOCK FALSE
