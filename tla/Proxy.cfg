SPECIFICATION PipelineFairSpec
CONSTANTS
    Calls = {c1, c2}
    Threshold = 1
    Cooldown = 1
    MaxRetries = 1
    RetryOnTimeout = FALSE
    Stream = TRUE
    Scan = TRUE
    MaxChunks = 2
INVARIANTS
    ForwardedIsApproved
    BooksAreKept
    ThreatIsWithheld
PROPERTIES
    EveryRequestEnds
CHECK_DEADLOCK FALSE
