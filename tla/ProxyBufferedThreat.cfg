SPECIFICATION PipelineSpec
CONSTANTS
    Calls = {c1, c2}
    Threshold = 1
    Cooldown = 1
    MaxRetries = 1
    RetryOnTimeout = FALSE
    Stream = FALSE
    Scan = TRUE
    MaxChunks = 2
INVARIANTS
    BufferedBlocks
CHECK_DEADLOCK FALSE
