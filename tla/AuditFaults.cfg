SPECIFICATION Spec
CONSTANTS
    Writers = {w1, w2}
    Backend = "pg"
    Faults = {"append", "sign_entry", "sign_checkpoint", "checkpoint"}
    ChannelCap = 2
    BatchSize = 2
    MaxEvents = 2
    MaxControl = 1
    MaxCrashes = 1
SYMMETRY Symmetry
INVARIANTS
    CheckpointChain
    CommittedTipsStored
    AnchorsMonotone
    OrderKept
PROPERTIES
    ImplementsAnchoredLog
