SPECIFICATION VSpec
CONSTANTS
    Writers = {w1, w2}
    Backend = "pg"
    Faults = {}
    ChannelCap = 1
    BatchSize = 2
    MaxEvents = 2
    MaxControl = 1
    MaxCrashes = 1
    VerifyCap = 10
SYMMETRY Symmetry
INVARIANTS
    AlarmOnlyWhenRaced
    TypeOK
    StoredChainsIntact
    Verifiable
