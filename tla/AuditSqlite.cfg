SPECIFICATION Spec
CONSTANTS
    Writers = {w1}
    Backend = "sqlite"
    Faults = {}
    ChannelCap = 2
    BatchSize = 2
    MaxEvents = 4
    MaxControl = 3
    MaxCrashes = 2
INVARIANTS
    FinalStateAnchored
    RootCoversBatch
