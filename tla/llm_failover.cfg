SPECIFICATION FairSpec
CONSTANTS
    gemini = gemini
    anthropic = anthropic
    Providers = {gemini, anthropic}
    Priority <- MCPriority
    Probed = {gemini}
    Calls = {c1, c2}
    NoProvider = None
    Threshold = 2
    MaxAttempts = 2
    RetryLimit = 1
    LongCooldown = 2
    ShortCooldown = 1
    MaxOperator = 1
INVARIANTS
    TypeOK
    AttemptsAccounted
    GivenUpHonestly
PROPERTIES
    LiveStepsNeverEnable
    CallsEnd
CHECK_DEADLOCK FALSE
