SPECIFICATION Spec
CONSTANTS
    Writers = {w1}
    Backend = "pg"
    Faults = {"append"}
    ChannelCap = 2
    BatchSize = 2
    MaxEvents = 3
    MaxControl = 1
    MaxCrashes = 0
INVARIANTS
    LogVerifies
