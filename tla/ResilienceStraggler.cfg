SPECIFICATION ResilienceSpec
CONSTANTS
    Calls = {c1, c2, c3}
    Threshold = 2
    Cooldown = 2
    MaxRetries = 1
    RetryOnTimeout = FALSE
PROPERTIES
    RejectedDuringCooldown
