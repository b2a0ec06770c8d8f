SPECIFICATION PipelineSpec
CONSTANTS
    Calls = {c1, c2}
    Threshold = 1
    Cooldown = 1
    MaxRetries = 1
    RetryOnTimeout = FALSE
    Stream = TRUE
    Scan = FALSE
    MaxChunks = 2
INVARIANTS
    StreamHashCoversBody
CHECK_DEADLOCK FALSE
